--------------------------- MODULE AgreementProofs ---------------------------
(***************************************************************************)
(* Theorems about what the members agree to: the votes that they hold for  *)
(* approved, and the transactions of the rounds that they sign.            *)
(*                                                                         *)
(* A vote that a node holds for approved has the approval of two thirds of *)
(* the members: every approval in a table or on its way was given by its   *)
(* operator, and a table marks a vote approved only when it holds enough   *)
(* of them.                                                                *)
(*                                                                         *)
(* The second part has facts about sequences and sums, the bounds of the   *)
(* searches for a round and a burn, what a transaction holds that members  *)
(* sign, and the layouts of the coordinator and of a leader, which they    *)
(* accept.                                                                 *)
(***************************************************************************)
EXTENDS Voting, Rounds, SequenceTheorems, FiniteSetTheorems, WellFoundedInduction, TLAPS

Required == RequiredApprovals(Cardinality(Node))

(* The approvals of a row were given (A), and the row is approved or       *)
(* executed only with enough of them.                                      *)
Backed(store, A) ==
  \A v \in DOMAIN store :
    /\ \A p \in store[v].approvals : <<p, v>> \in A
    /\ Approved(store[v]) => Cardinality(store[v].approvals) >= Required
    /\ store[v].execution # "none" => Approved(store[v])

(* A table of proposed votes (P) whose rows are backed. *)
Given(store, P, A) == IsTable(store, P) /\ Backed(store, A)

(* Messages about proposed votes (P) that carry given approvals (A). *)
NetOK(N, P, A) ==
  /\ N \subseteq Message
  /\ \A m \in N : m.kind # "ask" => m.vote \in P
  /\ \A m \in N : m.kind = "approval" => <<m.by, m.vote>> \in A
  /\ \A m \in N : m.kind = "record" => \A p \in m.approvals : <<p, m.vote>> \in A

(* The inductive invariant: TypeOK, table by table and message by message, *)
(* with what backs the approvals.                                          *)
Inv == /\ tip \in Nat
       /\ height \in [Node -> 0 .. tip]
       /\ votes = [n \in Node |-> votes[n]]
       /\ \A n \in Node : Given(votes[n], proposed, approvers)
       /\ NetOK(net, proposed, approvers)
       /\ proposed \subseteq Vote
       /\ approvers \subseteq Node \X proposed
       /\ restarts \in Nat

-----------------------------------------------------------------------------
(* The operations of a table keep it good. *)

(* Deleting expired rows changes no other row (delete_expired). *)
LEMMA DeleteKeeps ==
  ASSUME NEW store, NEW P, NEW A, NEW h, Given(store, P, A)
  PROVE  Given(DeleteExpired(store, h), P, A)
  BY DEF Given, IsTable, Backed, DeleteExpired

(* A new row has no approvals (insert_request). *)
LEMMA InsertKeeps ==
  ASSUME NEW store, NEW P, NEW A, NEW h \in Nat, NEW v \in P, Given(store, P, A)
  PROVE  Given(Insert(store, v, h), P, A)
<1> DEFINE new == [height |-> h, approvals |-> {}, approvedAt |-> NotYet, execution |-> "none"]
<1>1. new \in Row
  BY DEF Row, Execution
<1>2. ~Approved(new) /\ new.execution = "none" /\ new.approvals = {}
  BY DEF Approved
<1> HIDE DEF new
<1>3. CASE v \in DOMAIN store
  BY <1>3 DEF Insert
<1>4. CASE v \notin DOMAIN store
  <2>1. Insert(store, v, h) = [w \in DOMAIN store \cup {v} |-> IF w = v THEN new ELSE store[w]]
    BY <1>4 DEF Insert, new
  <2>2. IsTable(Insert(store, v, h), P)
    BY <2>1, <1>1 DEF Given, IsTable
  <2>3. Backed(Insert(store, v, h), A)
    BY <2>1, <1>2 DEF Given, Backed
  <2> QED BY <2>2, <2>3 DEF Given
<1> QED BY <1>3, <1>4

(* Given approvals are added, and the row is approved when they are enough *)
(* (insert_approval).                                                      *)
LEMMA AcceptKeeps ==
  ASSUME NEW store, NEW P, NEW A, NEW h \in Nat, NEW v, NEW by \in SUBSET Node,
         Given(store, P, A),
         \A p \in by : <<p, v>> \in A
  PROVE  Given(AcceptApprovals(store, v, by, h), P, A)
<1>1. CASE v \notin DOMAIN store
  BY <1>1 DEF AcceptApprovals
<1>2. CASE v \in DOMAIN store
  <2> DEFINE all == store[v].approvals \cup by
             at == IF Cardinality(all) >= Required /\ ~Approved(store[v])
                     THEN h ELSE store[v].approvedAt
             row == [height |-> store[v].height, approvals |-> all, approvedAt |-> at,
                     execution |-> store[v].execution]
  <2>1. store[v] \in Row
    BY <1>2 DEF Given, IsTable
  <2>2. /\ row \in Row
        /\ row.approvals = all
        /\ row.approvedAt = at
        /\ row.execution = store[v].execution
    BY <2>1 DEF Row
  <2>3. \A p \in all : <<p, v>> \in A
    BY <1>2 DEF Given, Backed
  <2>4. Cardinality(store[v].approvals) <= Cardinality(all)
    <3>1. IsFiniteSet(all)
      BY <2>1, MemberAssumption, FS_Subset DEF Row
    <3>2. store[v].approvals \subseteq all
      OBVIOUS
    <3> QED BY <3>1, <3>2, FS_Subset
  <2>5. /\ Cardinality(all) \in Nat /\ Cardinality(store[v].approvals) \in Nat
        /\ Required \in Nat
    <3>1. IsFiniteSet(all) /\ IsFiniteSet(store[v].approvals)
      BY <2>1, MemberAssumption, FS_Subset DEF Row
    <3>2. Cardinality(Node) \in Nat
      BY MemberAssumption, FS_CardinalityType
    <3> QED BY <3>1, <3>2, FS_CardinalityType DEF Required, RequiredApprovals
  <2>6. Approved(store[v]) => Cardinality(store[v].approvals) >= Required
    BY <1>2 DEF Given, Backed
  <2>7. Approved(row) => Cardinality(all) >= Required
    BY <2>2, <2>4, <2>5, <2>6 DEF Approved
  <2>8. store[v].execution # "none" => Approved(row)
    <3>1. h # NotYet
      BY HeightAssumption
    <3>2. store[v].execution # "none" => Approved(store[v])
      BY <1>2 DEF Given, Backed
    <3> QED BY <3>1, <3>2, <2>2 DEF Approved
  <2>9. AcceptApprovals(store, v, by, h) = [store EXCEPT ![v] = row]
    BY <1>2 DEF AcceptApprovals, InsertApprovals, Required
  <2> HIDE DEF row
  <2>10. IsTable([store EXCEPT ![v] = row], P)
    BY <1>2, <2>2 DEF Given, IsTable
  <2>11. Backed([store EXCEPT ![v] = row], A)
    BY <1>2, <2>2, <2>3, <2>7, <2>8 DEF Given, Backed, IsTable
  <2> QED BY <2>9, <2>10, <2>11 DEF Given
<1> QED BY <1>1, <1>2

(* A vote is admitted after the expired ones went (create, handle_request). *)
LEMMA AdmitKeeps ==
  ASSUME NEW store, NEW P, NEW A, NEW h \in Nat, NEW v \in P, Given(store, P, A)
  PROVE  Given(Admit(store, v, h), P, A)
  BY DeleteKeeps, InsertKeeps DEF Admit

(* A record of a peer (accept_synchronized_request). *)
LEMMA SynchronizedKeeps ==
  ASSUME NEW store, NEW P, NEW A, NEW h \in Nat, NEW m, m.vote \in P,
         m.approvals \in SUBSET Node,
         \A p \in m.approvals : <<p, m.vote>> \in A,
         Given(store, P, A)
  PROVE  Given(AcceptSynchronized(store, m, h), P, A)
<1> DEFINE kept == DeleteExpired(store, h)
           stored == IF m.vote \in DOMAIN kept \/ TooOld(m.vote, h) \/ TooEarly(m.vote, h)
                       THEN kept ELSE Admit(kept, m.vote, h)
<1>1. Given(kept, P, A)
  BY DeleteKeeps
<1>2. Given(stored, P, A)
  BY <1>1, AdmitKeeps
<1>3. Given(AcceptApprovals(stored, m.vote, m.approvals, h), P, A)
  <2> HIDE DEF stored
  <2> QED BY <1>2, AcceptKeeps
<1> QED BY <1>1, <1>3 DEF AcceptSynchronized

(* More votes and more approvals leave a good table good. *)
LEMMA GoodGrows ==
  ASSUME NEW store, NEW P, NEW A, NEW Q, NEW B, P \subseteq Q, A \subseteq B,
         Given(store, P, A)
  PROVE  Given(store, Q, B)
  BY DEF Given, IsTable, Backed

-----------------------------------------------------------------------------
(* A step that gives one node a good table keeps all tables good. *)
LEMMA OneTable ==
  ASSUME Inv, NEW n \in Node, NEW store, Given(store, proposed, approvers),
         votes' = [votes EXCEPT ![n] = store],
         UNCHANGED <<proposed, approvers>>
  PROVE  /\ votes' = [k \in Node |-> votes'[k]]
         /\ \A k \in Node : Given(votes'[k], proposed', approvers')
<1>1. votes' = [k \in Node |-> IF k = n THEN store ELSE votes[k]]
  BY DEF Inv
<1> QED BY <1>1 DEF Inv

(* Some of the messages sent arrive, and join those on their way. *)
LEMMA SendKeeps ==
  ASSUME NEW N, NEW S, NEW P, NEW A, NetOK(N, P, A), NetOK(S, P, A), Send(N, S)
  PROVE  NetOK(net', P, A)
  BY DEF Send, NetOK

(* The invariant holds at the start. *)
LEMMA InitInv == Init => Inv
<1> SUFFICES ASSUME Init PROVE Inv
  OBVIOUS
<1>1. \A n \in Node : Given(votes[n], proposed, approvers)
  BY DEF Init, Given, IsTable, Backed
<1>2. NetOK(net, proposed, approvers)
  BY DEF Init, NetOK
<1> QED BY <1>1, <1>2, HeightAssumption DEF Init, Inv

(* A proposal goes out with its proposer's table (create). *)
LEMMA CreateInv ==
  ASSUME Inv, NEW n \in Node, NEW r \in Request, Create(n, r)
  PROVE  Inv'
<1> DEFINE v == [request |-> r, proposer |-> n, created |-> height[n]]
           kept == DeleteExpired(votes[n], height[n])
           sent == {[kind |-> "request", to |-> p, vote |-> v] : p \in Others(n)}
<1>0. /\ height[n] \in Nat
      /\ UNCHANGED <<tip, height, approvers, restarts>>
      /\ votes' = [votes EXCEPT ![n] = Insert(kept, v, height[n])]
      /\ proposed' = proposed \cup {v}
      /\ Send(net, sent)
  BY DEF Inv, Create
<1>1. v \in Vote
  BY <1>0 DEF Vote
<1> HIDE DEF v, kept
<1>2. Given(Insert(kept, v, height[n]), proposed', approvers)
  <2>1. Given(kept, proposed, approvers)
    BY DeleteKeeps DEF Inv, kept
  <2>2. Given(kept, proposed', approvers)
    BY <2>1, <1>0, GoodGrows
  <2> QED BY <2>2, <1>0, InsertKeeps
<1>3. \A k \in Node : Given(votes[k], proposed', approvers)
  BY <1>0, GoodGrows DEF Inv
<1>4. votes' = [k \in Node |-> IF k = n THEN Insert(kept, v, height[n]) ELSE votes[k]]
  BY <1>0 DEF Inv
<1>5. NetOK(net, proposed', approvers)
  BY <1>0 DEF Inv, NetOK
<1>6. NetOK(sent, proposed', approvers)
  BY <1>0, <1>1 DEF NetOK, Message, Others
<1>7. NetOK(net', proposed', approvers)
  BY <1>0, <1>5, <1>6, SendKeeps
<1>8. approvers \subseteq Node \X proposed'
  BY <1>0 DEF Inv
<1> QED BY <1>0, <1>1, <1>2, <1>3, <1>4, <1>7, <1>8 DEF Inv

(* An operator approves, and the approval goes out (approve). *)
LEMMA ApproveInv ==
  ASSUME Inv, NEW n \in Node, NEW v \in DOMAIN votes[n], Approve(n, v)
  PROVE  Inv'
<1> DEFINE sent == {[kind |-> "approval", to |-> p, vote |-> v, by |-> n] : p \in Others(n)}
<1>0. /\ height[n] \in Nat
      /\ v \in proposed
      /\ v \in Vote
      /\ UNCHANGED <<tip, height, proposed, restarts>>
      /\ votes' = [votes EXCEPT ![n] = AcceptApprovals(votes[n], v, {n}, height[n])]
      /\ approvers' = approvers \cup {<<n, v>>}
      /\ Send(net, sent)
  BY DEF Inv, Approve, Given, IsTable
<1>1. \A k \in Node : Given(votes[k], proposed, approvers')
  BY <1>0, GoodGrows DEF Inv
<1>2. Given(AcceptApprovals(votes[n], v, {n}, height[n]), proposed, approvers')
  BY <1>0, <1>1, AcceptKeeps
<1>3. votes' = [k \in Node |-> IF k = n THEN AcceptApprovals(votes[n], v, {n}, height[n])
                                ELSE votes[k]]
  BY <1>0 DEF Inv
<1>4. NetOK(net, proposed, approvers')
  BY <1>0 DEF Inv, NetOK
<1>5. NetOK(sent, proposed, approvers')
  BY <1>0 DEF NetOK, Message, Others
<1>6. NetOK(net', proposed, approvers')
  BY <1>0, <1>4, <1>5, SendKeeps
<1> QED BY <1>0, <1>1, <1>2, <1>3, <1>6, SMTT(20) DEF Inv

(* Messages that are gone do no harm. *)
LEMMA NetShrinks ==
  ASSUME NEW N, NEW K, NEW P, NEW A, NetOK(N, P, A), K \subseteq N
  PROVE  NetOK(K, P, A)
  BY DEF NetOK

(* The handlers of a node's peers' messages (handle_request,               *)
(* handle_approval and handle_synchronization).                            *)
LEMMA DeliverInv ==
  ASSUME Inv, NEW m \in net, Deliver(m)
  PROVE  Inv'
<1>0. /\ m \in Message
      /\ m.to \in Node
      /\ height[m.to] \in Nat
      /\ Given(votes[m.to], proposed, approvers)
      /\ NetOK(net \ {m}, proposed, approvers)
  <2>1. m \in Message
    BY DEF Inv, NetOK
  <2>2. m.to \in Node
    BY <2>1 DEF Message
  <2> QED BY <2>1, <2>2, NetShrinks DEF Inv
<1>1. SUFFICES ASSUME UNCHANGED <<tip, height, proposed, approvers, restarts>>
               PROVE  /\ votes' = [k \in Node |-> votes'[k]]
                      /\ \A k \in Node : Given(votes'[k], proposed, approvers)
                      /\ NetOK(net', proposed, approvers)
  BY DEF Inv, Deliver, HandleRequest, HandleApproval, HandleAsk, HandleRecord
<1>2. CASE HandleRequest(m)
  <2>1. m.vote \in proposed
    BY <1>2 DEF HandleRequest, Inv, NetOK
  <2>2. Given(Admit(votes[m.to], m.vote, height[m.to]), proposed, approvers)
    BY <1>0, <2>1, AdmitKeeps
  <2>3. CASE votes' = votes
    BY <2>3, <1>0, <1>2 DEF HandleRequest, Inv
  <2>4. CASE votes' = [votes EXCEPT ![m.to] = Admit(votes[m.to], m.vote, height[m.to])]
    BY <2>4, <2>2, <1>0, <1>1, <1>2, OneTable DEF HandleRequest
  <2> QED BY <2>3, <2>4, <1>2 DEF HandleRequest
<1>3. CASE HandleApproval(m)
  <2>1. m.by \in Node /\ <<m.by, m.vote>> \in approvers
    BY <1>0, <1>3 DEF HandleApproval, Inv, NetOK, Message
  <2>2. Given(AcceptApprovals(votes[m.to], m.vote, {m.by}, height[m.to]), proposed, approvers)
    BY <1>0, <2>1, AcceptKeeps
  <2> QED BY <2>2, <1>0, <1>1, <1>3, OneTable DEF HandleApproval
<1>4. CASE HandleAsk(m)
  <2> DEFINE kept == DeleteExpired(votes[m.to], height[m.to])
             record(v) == [kind |-> "record", to |-> m.from, from |-> m.to, vote |-> v,
                           approvals |-> kept[v].approvals]
             sent == {record(v) : v \in Unconfirmed(kept)}
  <2>1. Given(kept, proposed, approvers)
    BY <1>0, DeleteKeeps
  <2>2. m.from \in Node
    BY <1>0, <1>4 DEF HandleAsk, Message
  <2>3. /\ votes' = [votes EXCEPT ![m.to] = kept]
        /\ Send(net \ {m}, sent)
    BY <1>4 DEF HandleAsk
  <2> HIDE DEF kept
  <2>4. ASSUME NEW v \in Unconfirmed(kept)
        PROVE  /\ record(v) \in Message
               /\ v \in proposed
               /\ \A p \in kept[v].approvals : <<p, v>> \in approvers
    <3>1. v \in DOMAIN kept /\ v \in proposed /\ v \in Vote
      BY <2>1 DEF Unconfirmed, Given, IsTable, Inv
    <3>2. kept[v] \in Row
      BY <2>1, <3>1 DEF Given, IsTable
    <3>3. kept[v].approvals \in SUBSET Node
      BY <3>2 DEF Row
    <3>4. record(v) \in Message
      BY <1>0, <2>2, <3>1, <3>3 DEF Message
    <3> QED BY <2>1, <3>1, <3>4 DEF Given, Backed
  <2>5. NetOK(sent, proposed, approvers)
    <3> SUFFICES ASSUME NEW r \in sent
                 PROVE  /\ r \in Message
                        /\ r.kind = "record"
                        /\ r.vote \in proposed
                        /\ \A p \in r.approvals : <<p, r.vote>> \in approvers
      BY DEF NetOK
    <3>1. PICK v \in Unconfirmed(kept) : r = record(v)
      OBVIOUS
    <3> QED BY <3>1, <2>4
  <2> HIDE DEF sent
  <2>6. NetOK(net', proposed, approvers)
    BY <2>3, <2>5, <1>0, SendKeeps
  <2> QED BY <2>1, <2>3, <2>6, <1>0, <1>1, OneTable
<1>5. CASE HandleRecord(m)
  <2>1. /\ m.vote \in proposed
        /\ m.approvals \in SUBSET Node
        /\ \A p \in m.approvals : <<p, m.vote>> \in approvers
    BY <1>0, <1>5 DEF HandleRecord, Inv, NetOK, Message
  <2>2. Given(AcceptSynchronized(votes[m.to], m, height[m.to]), proposed, approvers)
    BY <1>0, <2>1, SynchronizedKeeps
  <2> QED BY <2>2, <1>0, <1>1, <1>5, OneTable DEF HandleRecord
<1> QED BY <1>2, <1>3, <1>4, <1>5 DEF Deliver

(* The marks of an execution: only an approved vote gets one. *)
LEMMA ExecuteInv ==
  ASSUME Inv, NEW n \in Node, NEW v \in DOMAIN votes[n], Execute(n, v)
  PROVE  Inv'
<1>1. PICK to \in Execution :
        /\ \E from \in SUBSET Execution : MarkExecution(n, v, from, to)
        /\ to = "none" \/ Approved(votes[n][v])
  BY DEF Execute, StartExecution, CancelExecution, RecordBroadcast, ConfirmExecution, Execution
<1> DEFINE old == votes[n][v]
           row == [height |-> old.height, approvals |-> old.approvals,
                   approvedAt |-> old.approvedAt, execution |-> to]
           store == [votes[n] EXCEPT ![v] = row]
<1>2. /\ votes' = [votes EXCEPT ![n] = store]
      /\ UNCHANGED <<tip, height, net, proposed, approvers, restarts>>
  BY <1>1 DEF MarkExecution
<1>3. Given(votes[n], proposed, approvers) /\ old \in Row
  BY DEF Inv, Given, IsTable
<1>4. /\ row \in Row
      /\ row.approvals = old.approvals
      /\ Approved(row) = Approved(old)
      /\ row.execution # "none" => Approved(row)
  BY <1>1, <1>3 DEF Row, Approved
<1> HIDE DEF row
<1>5. Given(store, proposed, approvers)
  <2>1. IsTable(store, proposed)
    BY <1>3, <1>4 DEF Given, IsTable
  <2>2. Backed(store, approvers)
    BY <1>3, <1>4 DEF Given, IsTable, Backed
  <2> QED BY <2>1, <2>2 DEF Given
<1> QED BY <1>2, <1>5, OneTable DEF Inv

(* No step breaks the invariant. *)
LEMMA NextInv == Inv /\ [Next]_vars => Inv'
<1> SUFFICES ASSUME Inv, [Next]_vars PROVE Inv'
  OBVIOUS
<1>1. CASE NewBlock
  BY <1>1 DEF Inv, NewBlock
<1>2. ASSUME NEW n \in Node, Index(n) PROVE Inv'
  BY <1>2 DEF Inv, Index
<1>3. ASSUME NEW n \in Node, Restart(n) PROVE Inv'
  <2>1. NetOK(net', proposed, approvers)
    BY <1>3, NetShrinks DEF Restart, Inv
  <2> QED BY <1>3, <2>1 DEF Inv, Restart
<1>4. ASSUME NEW n \in Node, RemoveExpired(n) PROVE Inv'
  <2>1. Given(DeleteExpired(votes[n], height[n]), proposed, approvers)
    BY DeleteKeeps DEF Inv
  <2>2. votes' = [votes EXCEPT ![n] = DeleteExpired(votes[n], height[n])]
    BY <1>4 DEF RemoveExpired
  <2> QED BY <1>4, <2>1, <2>2, OneTable DEF RemoveExpired, Inv
<1>5. ASSUME NEW n \in Node, NEW p \in Node, Synchronize(n, p) PROVE Inv'
  <2>1. NetOK(net', proposed, approvers)
    BY <1>5 DEF Synchronize, Inv, NetOK, Message
  <2> QED BY <1>5, <2>1 DEF Inv, Synchronize
<1>6. CASE UNCHANGED vars
  BY <1>6 DEF Inv, vars
<1> QED BY <1>1, <1>2, <1>3, <1>4, <1>5, <1>6, CreateInv, ApproveInv, ExecuteInv, DeliverInv
        DEF Next

(* The invariant holds of every behaviour. *)
LEMMA InvHolds == Spec => []Inv
  BY InitInv, NextInv, PTL DEF Spec

(* Every node's table, height and messages keep their types, and no vote   *)
(* is stored or on its way that nobody proposed, however the chain grows,  *)
(* nodes restart and messages are lost.                                    *)
THEOREM TypeCorrect == Spec => []TypeOK
<1>1. Inv => TypeOK
  BY DEF Inv, TypeOK, Given, NetOK
<1> QED BY <1>1, InvHolds, PTL

(* A vote that a node holds for approved or executes has the approval of   *)
(* the operators of two thirds of the members, for every number of members *)
(* and every term (required_approvals, insert_approval, the statements of  *)
(* the execution).                                                         *)
THEOREM ApprovalSafety == Spec => []ApprovedByQuorum
<1>1. Inv => ApprovedByQuorum
  <2> SUFFICES ASSUME Inv, NEW n \in Node, NEW v \in DOMAIN votes[n],
                      Approved(votes[n][v]) \/ votes[n][v].execution # "none"
               PROVE  3 * Cardinality({p \in Node : <<p, v>> \in approvers})
                        >= 2 * Cardinality(Node)
    BY DEF ApprovedByQuorum
  <2> DEFINE given == votes[n][v].approvals
             all == {p \in Node : <<p, v>> \in approvers}
  <2>1. Given(votes[n], proposed, approvers)
    BY DEF Inv
  <2>2. Cardinality(given) >= Required
    BY <2>1 DEF Given, Backed
  <2>3. given \subseteq all
    <3>1. votes[n][v] \in Row
      BY <2>1 DEF Given, IsTable
    <3>2. given \subseteq Node
      BY <3>1 DEF Row
    <3> QED BY <2>1, <3>2 DEF Given, Backed
  <2>4. IsFiniteSet(all)
    BY MemberAssumption, FS_Subset
  <2>5. IsFiniteSet(given) /\ Cardinality(given) <= Cardinality(all)
    BY <2>3, <2>4, FS_Subset
  <2>6. Cardinality(Node) \in Nat /\ Cardinality(all) \in Nat /\ Cardinality(given) \in Nat
    BY <2>4, <2>5, MemberAssumption, FS_CardinalityType
  <2> HIDE DEF given, all
  <2>7. 3 * Required >= 2 * Cardinality(Node)
    BY <2>6 DEF Required, RequiredApprovals
  <2>8. Required \in Nat
    BY <2>6 DEF Required, RequiredApprovals
  <2>9. 3 * Cardinality(all) >= 2 * Cardinality(Node)
    BY <2>2, <2>5, <2>6, <2>7, <2>8
  <2> QED BY <2>9 DEF all
<1> QED BY <1>1, InvHolds, PTL

-----------------------------------------------------------------------------
(* What a table holds at the same time.  A vote that is stored beside      *)
(* another on the same request finds that one approved, executing and over *)
(* by its term, since delete_expired went before; so no approval revives   *)
(* it.                                                                     *)
Lapsed(row, t) == Approved(row) /\ TimedOut(row, t)

OneLive(store, t) ==
  \A v, w \in Unconfirmed(store) :
    v # w /\ v.request = w.request => Lapsed(store[v], t) \/ Lapsed(store[w], t)

Quota(store) ==
  /\ IsFiniteSet(DOMAIN store)
  /\ \A p \in Node : Cardinality(Active(store, p)) <= MaxActive

(* While nobody restarts, heights only grow: a row was stored and approved *)
(* at heights (up to h) that its proposal is not far ahead of.             *)
Timely(store, h) ==
  \A v \in DOMAIN store :
    /\ store[v].height <= h
    /\ v.created <= store[v].height + MaxFuture
    /\ Approved(store[v]) => store[v].approvedAt >= store[v].height

(* A table of a node at height h, with the chain at t. *)
Fit(store, h, t, calm) == OneLive(store, t) /\ Quota(store) /\ (calm => Timely(store, h))

Tables(store, P, A) == Given(store, P, A) /\ P \subseteq Vote

LEMMA RowOfTable ==
  ASSUME NEW store, NEW P, NEW A, Tables(store, P, A), NEW v \in DOMAIN store
  PROVE  /\ v \in Vote /\ store[v] \in Row
         /\ store[v].height \in Nat
         /\ Approved(store[v]) => store[v].approvedAt \in Nat
         /\ store[v].execution # "none" => Approved(store[v])
  BY DEF Tables, Given, IsTable, Backed, Row, Approved

LEMMA ActiveIsFinite ==
  ASSUME NEW store, NEW p, IsFiniteSet(DOMAIN store)
  PROVE  IsFiniteSet(Active(store, p)) /\ Cardinality(Active(store, p)) \in Nat
<1>1. Active(store, p) \subseteq DOMAIN store
  BY DEF Active, Unconfirmed
<1> QED BY <1>1, FS_Subset, FS_CardinalityType

(* A table with no more active votes keeps to the quota. *)
LEMMA QuotaShrinks ==
  ASSUME NEW store, NEW new, Quota(store), DOMAIN new \subseteq DOMAIN store,
         Unconfirmed(new) \subseteq Unconfirmed(store)
  PROVE  Quota(new)
<1>1. IsFiniteSet(DOMAIN new)
  BY FS_Subset DEF Quota
<1>2. ASSUME NEW p \in Node
      PROVE  Cardinality(Active(new, p)) <= MaxActive
  <2>1. Active(new, p) \subseteq Active(store, p)
    BY DEF Active
  <2>2. IsFiniteSet(Active(store, p)) /\ Cardinality(Active(store, p)) \in Nat
    BY ActiveIsFinite DEF Quota
  <2>3. Cardinality(Active(new, p)) <= Cardinality(Active(store, p)) /\ Cardinality(Active(new, p)) \in Nat
    BY <2>1, <2>2, FS_Subset, FS_CardinalityType
  <2>4. Cardinality(Active(store, p)) <= MaxActive
    BY DEF Quota
  <2> QED BY <2>2, <2>3, <2>4, HeightAssumption
<1> QED BY <1>1, <1>2 DEF Quota

(* What is over by its term stays over. *)
LEMMA LapsedStays ==
  ASSUME NEW row \in Row, NEW h \in Nat, NEW t \in Nat, h <= t, Lapsed(row, h)
  PROVE  Lapsed(row, t)
  BY HeightAssumption DEF Lapsed, TimedOut, TimeoutStart, Approved, Row

LEMMA DeleteFits ==
  ASSUME NEW store, NEW h, NEW t, NEW calm, NEW k, Fit(store, h, t, calm)
  PROVE  Fit(DeleteExpired(store, k), h, t, calm)
<1> DEFINE new == DeleteExpired(store, k)
<1>1. DOMAIN new \subseteq DOMAIN store /\ \A v \in DOMAIN new : new[v] = store[v]
  BY DEF DeleteExpired
<1> HIDE DEF new
<1>2. Unconfirmed(new) \subseteq Unconfirmed(store)
  BY <1>1 DEF Unconfirmed
<1>3. Quota(new)
  BY <1>1, <1>2, QuotaShrinks DEF Fit
<1>4. OneLive(new, t)
  BY <1>1, <1>2 DEF Fit, OneLive, Unconfirmed
<1>5. calm => Timely(new, h)
  BY <1>1 DEF Fit, Timely
<1> QED BY <1>3, <1>4, <1>5 DEF Fit, new

(* Nothing is left to delete. *)
Swept(store, h) == \A v \in DOMAIN store : ~Deletable(store[v], h)

LEMMA DeleteSweeps == \A store, h : Swept(DeleteExpired(store, h), h)
  BY DEF Swept, DeleteExpired

LEMMA InsertFits ==
  ASSUME NEW store, NEW P, NEW A, NEW h \in Nat, NEW t \in Nat, NEW calm, NEW v \in Vote,
         Tables(store, P, A), Fit(store, h, t, calm), Swept(store, h), h <= t,
         Admissible(store, v, h), v.created <= h + MaxFuture
  PROVE  Fit(Insert(store, v, h), h, t, calm)
<1> DEFINE row == [height |-> h, approvals |-> {}, approvedAt |-> NotYet, execution |-> "none"]
           new == Insert(store, v, h)
<1>1. CASE v \in DOMAIN store
  BY <1>1 DEF Insert
<1>2. CASE v \notin DOMAIN store
  <2>1. /\ DOMAIN new = DOMAIN store \cup {v}
        /\ new[v] = row /\ \A w \in DOMAIN store : new[w] = store[w]
    BY <1>2 DEF Insert
  <2>2. row.execution = "none" /\ ~Approved(row) /\ row.height = h
    BY DEF Approved
  <2> HIDE DEF new, row
  <2>3. Unconfirmed(new) = Unconfirmed(store) \cup {v}
    BY <1>2, <2>1, <2>2 DEF Unconfirmed
  <2>4. ASSUME NEW w \in Unconfirmed(store), w.request = v.request
        PROVE  Lapsed(store[w], t)
    <3>1. w \in DOMAIN store /\ TimedOut(store[w], h) /\ ~Deletable(store[w], h)
      BY <2>4 DEF Admissible, Rival, Unconfirmed, Swept
    <3>2. store[w].execution # "none"
      BY <3>1 DEF Deletable
    <3>3. Lapsed(store[w], h) /\ store[w] \in Row
      BY <3>1, <3>2, RowOfTable DEF Lapsed
    <3> QED BY <3>3, LapsedStays
  <2>5. OneLive(new, t)
    BY <1>2, <2>1, <2>3, <2>4 DEF Fit, OneLive, Unconfirmed
  <2>6. Quota(new)
    <3>1. IsFiniteSet(DOMAIN new)
      BY <2>1, FS_AddElement DEF Fit, Quota
    <3>2. ASSUME NEW p \in Node
          PROVE  Cardinality(Active(new, p)) <= MaxActive
      <4>1. IsFiniteSet(Active(store, p)) /\ Cardinality(Active(store, p)) \in Nat
        BY ActiveIsFinite DEF Fit, Quota
      <4>2. CASE v.proposer = p
        <5>1. Active(new, p) = Active(store, p) \cup {v}
          BY <2>3, <4>2 DEF Active
        <5>2. ~(Cardinality(Active(store, p)) >= MaxActive)
          BY <4>2 DEF Admissible, QuotaReached
        <5>3. Cardinality(Active(new, p)) <= Cardinality(Active(store, p)) + 1
          <6> DEFINE S == Active(store, p)
          <6>1. IsFiniteSet(S) /\ Active(new, p) = S \cup {v} /\ Cardinality(S) \in Nat
            BY <4>1, <5>1
          <6> HIDE DEF S
          <6>2. Cardinality(S \cup {v}) = IF v \in S THEN Cardinality(S) ELSE Cardinality(S) + 1
            BY <6>1, FS_AddElement
          <6>3. Cardinality(Active(new, p)) <= Cardinality(S) + 1
            BY <6>1, <6>2
          <6> QED BY <6>3 DEF S
        <5>4. Cardinality(Active(new, p)) \in Nat
          BY <3>1, ActiveIsFinite
        <5> QED BY <4>1, <5>2, <5>3, <5>4, HeightAssumption
      <4>3. CASE v.proposer # p
        <5>1. Active(new, p) = Active(store, p)
          BY <2>3, <4>3 DEF Active
        <5> QED BY <5>1 DEF Fit, Quota
      <4> QED BY <4>2, <4>3
    <3> QED BY <3>1, <3>2 DEF Quota
  <2>7. calm => Timely(new, h)
    BY <2>1, <2>2 DEF Fit, Timely
  <2> QED BY <2>5, <2>6, <2>7 DEF Fit, new
<1> QED BY <1>1, <1>2

(* An approval leaves a row that is approved alone, but for its count. *)
LEMMA AcceptFits ==
  ASSUME NEW store, NEW P, NEW A, NEW h \in Nat, NEW t \in Nat, NEW calm, NEW v, NEW by,
         Tables(store, P, A), Fit(store, h, t, calm)
  PROVE  Fit(AcceptApprovals(store, v, by, h), h, t, calm)
<1> DEFINE row == InsertApprovals(store[v], by, h)
           new == AcceptApprovals(store, v, by, h)
<1>1. CASE v \notin DOMAIN store
  BY <1>1 DEF AcceptApprovals
<1>2. CASE v \in DOMAIN store
  <2>1. /\ DOMAIN new = DOMAIN store /\ new[v] = row
        /\ \A w \in DOMAIN store : w # v => new[w] = store[w]
    BY <1>2 DEF AcceptApprovals
  <2>2. /\ row.height = store[v].height /\ row.execution = store[v].execution
        /\ Approved(store[v]) => row.approvedAt = store[v].approvedAt
        /\ row.approvedAt \in {store[v].approvedAt, h}
    BY DEF InsertApprovals
  <2>3. store[v].height \in Nat
    BY <1>2, RowOfTable
  <2> HIDE DEF new, row
  <2>4. Unconfirmed(new) = Unconfirmed(store)
    BY <2>1, <2>2 DEF Unconfirmed
  <2>5. Lapsed(store[v], t) => Lapsed(row, t)
    BY <2>2 DEF Lapsed, TimedOut, TimeoutStart, Approved
  <2>6. OneLive(new, t)
    BY <2>1, <2>4, <2>5 DEF Fit, OneLive, Unconfirmed
  <2>7. Quota(new)
    BY <2>1, <2>4, QuotaShrinks DEF Fit
  <2>8. calm => Timely(new, h)
    <3> SUFFICES ASSUME calm, NEW w \in DOMAIN store
                 PROVE  /\ new[w].height <= h
                        /\ w.created <= new[w].height + MaxFuture
                        /\ Approved(new[w]) => new[w].approvedAt >= new[w].height
      BY <2>1 DEF Timely
    <3>1. /\ store[w].height <= h /\ w.created <= store[w].height + MaxFuture
          /\ Approved(store[w]) => store[w].approvedAt >= store[w].height
      BY DEF Fit, Timely
    <3>2. CASE w = v
      <4>1. row.approvedAt = h \/ (row.approvedAt = store[v].approvedAt)
        BY <2>2
      <4> QED BY <2>1, <2>2, <3>1, <3>2, <4>1 DEF Approved
    <3>3. CASE w # v
      BY <2>1, <3>1, <3>3
    <3> QED BY <3>2, <3>3
  <2> QED BY <2>6, <2>7, <2>8 DEF Fit, new
<1> QED BY <1>1, <1>2

(* A vote is admitted after the expired ones went. *)
LEMMA AdmitFits ==
  ASSUME NEW store, NEW P, NEW A, NEW h \in Nat, NEW t \in Nat, NEW calm, NEW v \in Vote,
         Tables(store, P, A), Fit(store, h, t, calm), h <= t, v.created <= h + MaxFuture
  PROVE  Fit(Admit(store, v, h), h, t, calm)
<1> DEFINE kept == DeleteExpired(store, h)
<1>1. Fit(kept, h, t, calm) /\ Swept(kept, h) /\ Tables(kept, P, A)
  BY DeleteFits, DeleteSweeps, DeleteKeeps DEF Tables
<1> HIDE DEF kept
<1>2. Admissible(kept, v, h) => Fit(Insert(kept, v, h), h, t, calm)
  BY <1>1, InsertFits
<1>3. Admit(store, v, h) = IF Admissible(kept, v, h) THEN Insert(kept, v, h) ELSE kept
  BY DEF Admit, kept
<1> QED BY <1>1, <1>2, <1>3

LEMMA SynchronizedFits ==
  ASSUME NEW store, NEW P, NEW A, NEW h \in Nat, NEW t \in Nat, NEW calm, NEW m,
         m.vote \in P, m.approvals \in SUBSET Node, \A p \in m.approvals : <<p, m.vote>> \in A,
         Tables(store, P, A), Fit(store, h, t, calm), h <= t
  PROVE  Fit(AcceptSynchronized(store, m, h), h, t, calm)
<1> DEFINE kept == DeleteExpired(store, h)
           v == m.vote
           known == v \in DOMAIN kept
           stored == IF known \/ TooOld(v, h) \/ TooEarly(v, h) THEN kept ELSE Admit(kept, v, h)
<1>1. Fit(kept, h, t, calm) /\ Tables(kept, P, A) /\ v \in Vote
  BY DeleteFits, DeleteKeeps DEF Tables
<1> HIDE DEF kept
<1>2. Fit(stored, h, t, calm) /\ Tables(stored, P, A)
  <2>1. CASE stored = kept
    BY <1>1, <2>1
  <2>2. CASE ~TooEarly(v, h) /\ stored = Admit(kept, v, h)
    <3>1. v.created <= h + MaxFuture
      BY <1>1, <2>2, HeightAssumption DEF TooEarly, Vote
    <3> QED BY <1>1, <2>2, <3>1, AdmitFits, AdmitKeeps DEF Tables
  <2> QED BY <2>1, <2>2
<1> HIDE DEF stored, known
<1>3. Fit(AcceptApprovals(stored, v, m.approvals, h), h, t, calm)
  BY <1>2, AcceptFits
<1>4. AcceptSynchronized(store, m, h) = kept \/
        AcceptSynchronized(store, m, h) = AcceptApprovals(stored, v, m.approvals, h)
  BY DEF AcceptSynchronized, kept, stored, known
<1> QED BY <1>1, <1>3, <1>4

(* The mark of an execution: a confirmed vote no longer counts. *)
LEMMA MarkFits ==
  ASSUME NEW store, NEW h, NEW t, NEW calm, NEW v \in DOMAIN store, NEW row,
         row.height = store[v].height, row.approvedAt = store[v].approvedAt,
         store[v].execution # "confirmed", Fit(store, h, t, calm)
  PROVE  Fit([store EXCEPT ![v] = row], h, t, calm)
<1> DEFINE new == [store EXCEPT ![v] = row]
<1>1. /\ DOMAIN new = DOMAIN store
      /\ \A w \in DOMAIN store : new[w].height = store[w].height /\ new[w].approvedAt = store[w].approvedAt
      /\ \A w \in DOMAIN store : w # v => new[w] = store[w]
  OBVIOUS
<1> HIDE DEF new
<1>2. Unconfirmed(new) \subseteq Unconfirmed(store)
  BY <1>1 DEF Unconfirmed
<1>3. Quota(new)
  BY <1>1, <1>2, QuotaShrinks DEF Fit
<1>4. \A w \in DOMAIN store : Lapsed(store[w], t) => Lapsed(new[w], t)
  BY <1>1 DEF Lapsed, TimedOut, TimeoutStart, Approved
<1>5. OneLive(new, t)
  BY <1>2, <1>4 DEF Fit, OneLive, Unconfirmed
<1>6. calm => Timely(new, h)
  BY <1>1 DEF Fit, Timely, Approved
<1> QED BY <1>3, <1>5, <1>6 DEF Fit, new

-----------------------------------------------------------------------------
(* The steps. *)
Calm == restarts = 0

FitInv == \A n \in Node : Fit(votes[n], height[n], tip, Calm)

(* A step that changes one table at most. *)
LEMMA OneFits ==
  ASSUME Inv, FitInv, NEW n \in Node, NEW store, Fit(store, height[n], tip, Calm),
         votes' = [votes EXCEPT ![n] = store], UNCHANGED <<height, tip, restarts>>
  PROVE  FitInv'
<1>1. \A k \in Node : votes'[k] = IF k = n THEN store ELSE votes[k]
  BY DEF Inv
<1> QED BY <1>1 DEF FitInv, Calm

LEMMA TableFacts ==
  ASSUME Inv, NEW n \in Node
  PROVE  /\ Tables(votes[n], proposed, approvers)
         /\ height[n] \in Nat /\ tip \in Nat /\ height[n] <= tip
  BY DEF Inv, Tables

LEMMA DeliverFits ==
  ASSUME Inv, FitInv, NEW m \in net, Deliver(m)
  PROVE  FitInv'
<1> DEFINE n == m.to
<1>1. m \in Message /\ n \in Node
  <2>1. m \in Message
    BY DEF Inv, NetOK
  <2> QED BY <2>1 DEF Message
<1>2. /\ Tables(votes[n], proposed, approvers)
      /\ height[n] \in Nat /\ tip \in Nat /\ height[n] <= tip
      /\ Fit(votes[n], height[n], tip, Calm)
  BY <1>1, TableFacts DEF FitInv
<1>3. UNCHANGED <<height, tip, restarts>>
  BY DEF Deliver, HandleRequest, HandleApproval, HandleAsk, HandleRecord
<1>4. CASE HandleRequest(m)
  <2>1. CASE TooEarly(m.vote, height[n]) \/ TooOld(m.vote, height[n])
    <3>1. UNCHANGED votes
      BY <1>4, <2>1 DEF HandleRequest
    <3> QED BY <1>3, <3>1 DEF FitInv, Calm
  <2>2. CASE ~(TooEarly(m.vote, height[n]) \/ TooOld(m.vote, height[n]))
    <3>1. m.vote \in Vote /\ m.vote \in proposed
      BY <1>4 DEF HandleRequest, Inv, NetOK
    <3>2. m.vote.created <= height[n] + MaxFuture
      BY <1>2, <2>2, <3>1, HeightAssumption DEF TooEarly, Vote
    <3>3. Fit(Admit(votes[n], m.vote, height[n]), height[n], tip, Calm)
      BY <1>2, <3>1, <3>2, AdmitFits
    <3>4. votes' = [votes EXCEPT ![n] = Admit(votes[n], m.vote, height[n])]
      BY <1>4, <2>2 DEF HandleRequest
    <3> QED BY <1>1, <1>3, <3>3, <3>4, OneFits
  <2> QED BY <2>1, <2>2
<1>5. CASE HandleApproval(m)
  <2>1. Fit(AcceptApprovals(votes[n], m.vote, {m.by}, height[n]), height[n], tip, Calm)
    BY <1>2, AcceptFits
  <2>2. votes' = [votes EXCEPT ![n] = AcceptApprovals(votes[n], m.vote, {m.by}, height[n])]
    BY <1>5 DEF HandleApproval
  <2> QED BY <1>1, <1>3, <2>1, <2>2, OneFits
<1>6. CASE HandleAsk(m)
  <2>1. Fit(DeleteExpired(votes[n], height[n]), height[n], tip, Calm)
    BY <1>2, DeleteFits
  <2>2. votes' = [votes EXCEPT ![n] = DeleteExpired(votes[n], height[n])]
    BY <1>6 DEF HandleAsk
  <2> QED BY <1>1, <1>3, <2>1, <2>2, OneFits
<1>7. CASE HandleRecord(m)
  <2>1. /\ m.vote \in proposed /\ m.approvals \in SUBSET Node
        /\ \A p \in m.approvals : <<p, m.vote>> \in approvers
    BY <1>1, <1>7 DEF HandleRecord, Inv, NetOK, Message
  <2>2. Fit(AcceptSynchronized(votes[n], m, height[n]), height[n], tip, Calm)
    BY <1>2, <2>1, SynchronizedFits
  <2>3. votes' = [votes EXCEPT ![n] = AcceptSynchronized(votes[n], m, height[n])]
    BY <1>7 DEF HandleRecord
  <2> QED BY <1>1, <1>3, <2>2, <2>3, OneFits
<1> QED BY <1>4, <1>5, <1>6, <1>7 DEF Deliver

(* The chain grows, the node indexes it, or the node restarts. *)
LEMMA FitGrows ==
  ASSUME NEW store, NEW P, NEW A, NEW h \in Nat, NEW t \in Nat, NEW calm,
         NEW k \in Nat, NEW u \in Nat, NEW now,
         Tables(store, P, A), Fit(store, h, t, calm), t <= u, now => calm /\ h <= k
  PROVE  Fit(store, k, u, now)
<1>1. \A v \in DOMAIN store : Lapsed(store[v], t) => Lapsed(store[v], u)
  BY RowOfTable, LapsedStays
<1>2. OneLive(store, u)
  BY <1>1 DEF Fit, OneLive, Unconfirmed
<1>3. now => Timely(store, k)
  <2> SUFFICES ASSUME now, NEW v \in DOMAIN store PROVE store[v].height <= k
    BY DEF Fit, Timely
  <2>1. store[v].height \in Nat /\ store[v].height <= h
    BY RowOfTable DEF Fit, Timely
  <2> QED BY <2>1
<1> QED BY <1>2, <1>3 DEF Fit

LEMMA InitFit == Init => FitInv
<1> SUFFICES ASSUME Init PROVE FitInv
  OBVIOUS
<1> DEFINE none == <<>>
<1>1. DOMAIN none = {}
  OBVIOUS
<1> HIDE DEF none
<1>2. Unconfirmed(none) = {} /\ \A p : Active(none, p) = {}
  BY <1>1 DEF Unconfirmed, Active
<1>3. Quota(none)
  <2>1. IsFiniteSet({}) /\ Cardinality({}) = 0 /\ 0 <= MaxActive
    BY FS_EmptySet, HeightAssumption
  <2> QED BY <1>1, <1>2, <2>1 DEF Quota
<1>4. \A h, t, calm : Fit(none, h, t, calm)
  BY <1>1, <1>2, <1>3 DEF Fit, OneLive, Timely
<1> QED BY <1>4 DEF Init, FitInv, none

LEMMA StepFit == Inv /\ FitInv /\ [Next]_vars => FitInv'
<1> SUFFICES ASSUME Inv, FitInv, [Next]_vars PROVE FitInv'
  OBVIOUS
<1>1. /\ tip \in Nat /\ height \in [Node -> 0 .. tip] /\ restarts \in Nat
      /\ \A n \in Node : /\ Tables(votes[n], proposed, approvers)
                          /\ Fit(votes[n], height[n], tip, Calm)
  BY DEF Inv, Tables, FitInv
<1>2. CASE NewBlock
  <2>1. tip' = tip + 1 /\ UNCHANGED <<height, votes, restarts>>
    BY <1>2 DEF NewBlock
  <2>2. \A n \in Node : Fit(votes[n], height[n], tip + 1, Calm)
    BY <1>1, FitGrows
  <2> QED BY <2>1, <2>2 DEF FitInv, Calm
<1>3. ASSUME NEW n \in Node, Index(n)
      PROVE  FitInv'
  <2>1. /\ \A k \in Node : height'[k] = IF k = n THEN tip ELSE height[k]
        /\ UNCHANGED <<tip, votes, restarts>>
    BY <1>1, <1>3 DEF Index
  <2>2. Fit(votes[n], tip, tip, Calm)
    BY <1>1, FitGrows
  <2> QED BY <1>1, <2>1, <2>2 DEF FitInv, Calm
<1>4. ASSUME NEW n \in Node, Restart(n)
      PROVE  FitInv'
  <2>1. /\ \A k \in Node : height'[k] = IF k = n THEN 0 ELSE height[k]
        /\ restarts' = restarts + 1 /\ UNCHANGED <<tip, votes>>
    BY <1>1, <1>4 DEF Restart
  <2>2. ~Calm'
    BY <1>1, <2>1 DEF Calm
  <2>3. \A k \in Node : Fit(votes[k], height'[k], tip, Calm')
    BY <1>1, <2>2 DEF Fit
  <2> QED BY <2>1, <2>3 DEF FitInv
<1>5. ASSUME NEW n \in Node, RemoveExpired(n)
      PROVE  FitInv'
  <2>1. Fit(DeleteExpired(votes[n], height[n]), height[n], tip, Calm)
    BY <1>1, DeleteFits
  <2>2. votes' = [votes EXCEPT ![n] = DeleteExpired(votes[n], height[n])]
    BY <1>5 DEF RemoveExpired
  <2> QED BY <1>5, <2>1, <2>2, OneFits DEF RemoveExpired
<1>6. ASSUME NEW n \in Node, NEW r \in Request, Create(n, r)
      PROVE  FitInv'
  <2> DEFINE v == [request |-> r, proposer |-> n, created |-> height[n]]
             kept == DeleteExpired(votes[n], height[n])
  <2>1. v \in Vote /\ v.created <= height[n] + MaxFuture
    BY <1>1, HeightAssumption DEF Vote
  <2>2. Fit(kept, height[n], tip, Calm) /\ Swept(kept, height[n]) /\ Tables(kept, proposed, approvers)
    BY <1>1, DeleteFits, DeleteSweeps, DeleteKeeps DEF Tables
  <2>3. Admissible(kept, v, height[n]) /\ votes' = [votes EXCEPT ![n] = Insert(kept, v, height[n])]
        /\ UNCHANGED <<height, tip, restarts>>
    BY <1>6 DEF Create
  <2> HIDE DEF v, kept
  <2>4. Fit(Insert(kept, v, height[n]), height[n], tip, Calm)
    BY <1>1, <2>1, <2>2, <2>3, InsertFits
  <2> QED BY <2>3, <2>4, OneFits
<1>7. ASSUME NEW n \in Node, NEW v \in DOMAIN votes[n], Approve(n, v)
      PROVE  FitInv'
  <2>1. Fit(AcceptApprovals(votes[n], v, {n}, height[n]), height[n], tip, Calm)
    BY <1>1, AcceptFits
  <2>2. votes' = [votes EXCEPT ![n] = AcceptApprovals(votes[n], v, {n}, height[n])]
    BY <1>7 DEF Approve
  <2> QED BY <1>7, <2>1, <2>2, OneFits DEF Approve
<1>8. ASSUME NEW n \in Node, NEW v \in DOMAIN votes[n], Execute(n, v)
      PROVE  FitInv'
  <2>1. PICK from, to : MarkExecution(n, v, from, to) /\ "confirmed" \notin from
    BY <1>8 DEF Execute, StartExecution, CancelExecution, RecordBroadcast, ConfirmExecution
  <2> DEFINE row == [height |-> votes[n][v].height, approvals |-> votes[n][v].approvals,
                     approvedAt |-> votes[n][v].approvedAt, execution |-> to]
  <2>2. /\ row.height = votes[n][v].height /\ row.approvedAt = votes[n][v].approvedAt
        /\ votes[n][v].execution # "confirmed"
        /\ votes' = [votes EXCEPT ![n] = [votes[n] EXCEPT ![v] = row]]
        /\ UNCHANGED <<height, tip, restarts>>
    BY <2>1 DEF MarkExecution
  <2> HIDE DEF row
  <2>3. Fit([votes[n] EXCEPT ![v] = row], height[n], tip, Calm)
    BY <1>1, <2>2, MarkFits
  <2> QED BY <2>2, <2>3, OneFits
<1>9. ASSUME NEW n \in Node, NEW p \in Node, Synchronize(n, p)
      PROVE  FitInv'
  BY <1>9 DEF Synchronize, FitInv, Calm
<1>10. CASE UNCHANGED vars
  BY <1>10 DEF vars, FitInv, Calm
<1> QED BY <1>2, <1>3, <1>4, <1>5, <1>6, <1>7, <1>8, <1>9, <1>10, DeliverFits DEF Next

LEMMA FitHolds == Spec => []FitInv
  BY InitFit, StepFit, InvHolds, PTL DEF Spec

(* Two votes on one request never run side by side in a node: what was     *)
(* admitted beside an older one cannot be joined by it again, whatever     *)
(* approvals arrive (ensure_unique_active_request).                        *)
THEOREM LiveVoteSafety == Spec => []OneLiveVote
<1>1. FitInv => OneLiveVote
  BY DEF FitInv, Fit, OneLive, Lapsed, OneLiveVote
<1> QED BY <1>1, FitHolds, PTL

(* No proposer has more unconfirmed votes in a table than its share,       *)
(* whichever way they arrive (MAX_ACTIVE_VOTINGS_PER_PROPOSER).            *)
THEOREM QuotaSafety == Spec => []ProposerQuota
<1>1. FitInv => ProposerQuota
  BY DEF FitInv, Fit, Quota, ProposerQuota
<1> QED BY <1>1, FitHolds, PTL

-----------------------------------------------------------------------------
(* A vote leaves a table only when it is deletable there. *)
LEMMA LostIsDeletable ==
  ASSUME NEW store, NEW h, NEW v \in DOMAIN store, ~Deletable(store[v], h)
  PROVE  /\ v \in DOMAIN DeleteExpired(store, h)
         /\ \A w, k : v \in DOMAIN Insert(store, w, k)
         /\ \A w, by, k : v \in DOMAIN AcceptApprovals(store, w, by, k)
         /\ \A w : v \in DOMAIN Admit(store, w, h)
         /\ \A m : v \in DOMAIN AcceptSynchronized(store, m, h)
<1>1. ASSUME NEW s, v \in DOMAIN s, s[v] = store[v]
      PROVE  v \in DOMAIN DeleteExpired(s, h) /\ DeleteExpired(s, h)[v] = store[v]
  BY <1>1 DEF DeleteExpired
<1>2. ASSUME NEW s, NEW w, NEW k, v \in DOMAIN s
      PROVE  v \in DOMAIN Insert(s, w, k)
  BY <1>2 DEF Insert
<1>3. ASSUME NEW s, NEW w, NEW by, NEW k, v \in DOMAIN s
      PROVE  v \in DOMAIN AcceptApprovals(s, w, by, k)
  BY <1>3 DEF AcceptApprovals
<1>4. ASSUME NEW s, NEW w, v \in DOMAIN s, s[v] = store[v]
      PROVE  v \in DOMAIN Admit(s, w, h)
  BY <1>1, <1>2, <1>4 DEF Admit
<1>5. ASSUME NEW m
      PROVE  v \in DOMAIN AcceptSynchronized(store, m, h)
  <2> DEFINE kept == DeleteExpired(store, h)
  <2>1. v \in DOMAIN kept /\ kept[v] = store[v]
    BY <1>1
  <2> HIDE DEF kept
  <2>2. v \in DOMAIN Admit(kept, m.vote, h)
    BY <2>1, <1>4
  <2>3. \E s : /\ s = kept \/ s = Admit(kept, m.vote, h)
               /\ \/ AcceptSynchronized(store, m, h) = kept
                  \/ AcceptSynchronized(store, m, h) = AcceptApprovals(s, m.vote, m.approvals, h)
    BY DEF AcceptSynchronized, kept
  <2> QED BY <2>1, <2>2, <2>3, <1>3
<1> QED BY <1>1, <1>2, <1>3, <1>4, <1>5

(* Every step changes a table by these operations, at its node's height.   *)
LEMMA LostByStep ==
  ASSUME Inv, Next, NEW k \in Node, NEW v \in DOMAIN votes[k], v \notin DOMAIN votes'[k]
  PROVE  Deletable(votes[k][v], height[k])
<1>0. \A n, store : votes' = [votes EXCEPT ![n] = store] =>
        votes'[k] = IF k = n THEN store ELSE votes[k]
  BY DEF Inv
<1> SUFFICES ASSUME ~Deletable(votes[k][v], height[k]) PROVE FALSE
  OBVIOUS
<1>1. ~UNCHANGED votes
  OBVIOUS
<1>2. ASSUME NEW n \in Node, RemoveExpired(n) PROVE FALSE
  BY <1>0, <1>2, LostIsDeletable DEF RemoveExpired
<1>3. ASSUME NEW n \in Node, NEW r \in Request, Create(n, r) PROVE FALSE
  <2>1. PICK w : votes' = [votes EXCEPT ![n] = Insert(DeleteExpired(votes[n], height[n]), w, height[n])]
    BY <1>3 DEF Create
  <2>2. v \in DOMAIN DeleteExpired(votes[k], height[k])
    BY LostIsDeletable
  <2>3. v \in DOMAIN Insert(DeleteExpired(votes[k], height[k]), w, height[k])
    BY <2>2 DEF Insert
  <2> QED BY <1>0, <2>1, <2>3
<1>4. ASSUME NEW n \in Node, NEW w \in DOMAIN votes[n], Approve(n, w) PROVE FALSE
  BY <1>0, <1>4, LostIsDeletable DEF Approve
<1>5. ASSUME NEW n \in Node, NEW w \in DOMAIN votes[n], Execute(n, w) PROVE FALSE
  <2>1. PICK row : votes' = [votes EXCEPT ![n] = [votes[n] EXCEPT ![w] = row]]
    BY <1>5 DEF Execute, StartExecution, CancelExecution, RecordBroadcast, ConfirmExecution,
                MarkExecution
  <2> QED BY <1>0, <2>1
<1>6. ASSUME NEW m \in net, Deliver(m) PROVE FALSE
  <2>1. CASE HandleRequest(m)
    <3>1. votes' = [votes EXCEPT ![m.to] = Admit(votes[m.to], m.vote, height[m.to])]
      BY <1>1, <2>1 DEF HandleRequest
    <3> QED BY <1>0, <3>1, LostIsDeletable
  <2>2. CASE HandleApproval(m)
    BY <1>0, <2>2, LostIsDeletable DEF HandleApproval
  <2>3. CASE HandleAsk(m)
    BY <1>0, <2>3, LostIsDeletable DEF HandleAsk
  <2>4. CASE HandleRecord(m)
    BY <1>0, <2>4, LostIsDeletable DEF HandleRecord
  <2> QED BY <1>6, <2>1, <2>2, <2>3, <2>4 DEF Deliver
<1> QED BY <1>1, <1>2, <1>3, <1>4, <1>5, <1>6 DEF Next, NewBlock, Index, Restart, Synchronize

(* A vote that is not being executed runs its term, unless a restart set a *)
(* height back (delete_expired).                                           *)
THEOREM TermSafety == Spec => RunsItsTerm
<1>1. ASSUME Inv, FitInv, [Next]_vars, NEW n \in Node, NEW v \in DOMAIN votes[n],
             restarts = 0, votes[n][v].execution = "none", v \notin DOMAIN votes'[n]
      PROVE  tip + MaxFuture >= v.created + Timeout
  <2>1. Deletable(votes[n][v], height[n])
    BY <1>1, LostByStep DEF vars
  <2>2. /\ Tables(votes[n], proposed, approvers)
        /\ height[n] \in Nat /\ tip \in Nat /\ height[n] <= tip
    BY <1>1, TableFacts
  <2>3. Timely(votes[n], height[n])
    BY <1>1 DEF FitInv, Fit, Calm
  <2>4. /\ v \in Vote /\ votes[n][v].height \in Nat
        /\ Approved(votes[n][v]) => votes[n][v].approvedAt \in Nat
    BY <2>2, RowOfTable
  <2>5. v.created \in Nat
    BY <2>4 DEF Vote
  <2>6. TimeoutStart(votes[n][v]) + Timeout <= height[n]
    BY <2>1 DEF Deletable, TimedOut
  <2>7. /\ v.created <= votes[n][v].height + MaxFuture
        /\ Approved(votes[n][v]) => votes[n][v].approvedAt >= votes[n][v].height
    BY <2>3 DEF Timely
  <2>8. TimeoutStart(votes[n][v]) \in Nat /\ TimeoutStart(votes[n][v]) >= votes[n][v].height
    BY <2>4, <2>7 DEF TimeoutStart
  <2> QED BY <2>2, <2>4, <2>5, <2>6, <2>7, <2>8, HeightAssumption
<1>2. Inv /\ FitInv /\ [Next]_vars =>
        [\A n \in Node : \A v \in DOMAIN votes[n] :
           /\ restarts = 0
           /\ votes[n][v].execution = "none"
           /\ v \notin DOMAIN votes'[n]
           => tip + MaxFuture >= v.created + Timeout]_vars
  BY <1>1
<1> QED BY <1>2, InvHolds, FitHolds, PTL DEF Spec, RunsItsTerm


(***************************************************************************)
(* Sequences of sequences.                                                 *)
(***************************************************************************)

(* A set of natural numbers that is not empty has a least element. *)
LEMMA HasLeast ==
  ASSUME NEW S, S \subseteq Nat, S # {}
  PROVE  \E n \in S : \A m \in S : n <= m
<1>1. PICK n \in S : \A m \in S : <<m, n>> \notin OpToRel(<, Nat)
  BY WFMin, NatLessThanWellFounded, Zenon
<1>2. ASSUME NEW m \in S PROVE n <= m
  <2>1. <<m, n>> \notin OpToRel(<, Nat)
    BY <1>1
  <2>2. m \in Nat /\ n \in Nat
    OBVIOUS
  <2>3. ~(m < n)
    BY <2>1, <2>2, Zenon DEF OpToRel
  <2> QED BY <2>2, <2>3
<1> QED BY <1>2

(* The recursive function by which FlattenSeq is defined. *)
IsFlat(f, c, len) ==
  f = [i \in 1 .. len |-> IF i = 1 THEN c[i] ELSE f[i - 1] \o c[i]]

LEMMA FlatExists ==
  ASSUME NEW c, NEW len \in Nat
  PROVE  \E f : IsFlat(f, c, len)
<1> DEFINE Bad == {n \in Nat : ~\E g : IsFlat(g, c, n)}
<1>1. Bad = {}
  <2>1. SUFFICES ASSUME Bad # {} PROVE FALSE
    OBVIOUS
  <2>2. PICK n \in Bad : \A m \in Bad : n <= m
    <3>1. Bad \subseteq Nat
      OBVIOUS
    <3> HIDE DEF Bad
    <3> QED BY <2>1, <3>1, HasLeast
  <2>3. n \in Nat /\ ~\E g : IsFlat(g, c, n)
    OBVIOUS
  <2>4. CASE n = 0
    <3> DEFINE g == [i \in 1 .. 0 |-> c[i]]
    <3>1. IsFlat(g, c, 0)
      BY DEF IsFlat
    <3> QED BY <2>3, <2>4, <3>1
  <2>5. CASE n # 0
    <3>1. n - 1 \in Nat /\ n - 1 \notin Bad
      <4>1. n - 1 \in Nat /\ ~(n <= n - 1)
        BY <2>3, <2>5
      <4> HIDE DEF Bad
      <4> QED BY <2>2, <4>1
    <3>2. PICK f : IsFlat(f, c, n - 1)
      BY <3>1
    <3> DEFINE Step(h, i) == IF i = 1 THEN c[i] ELSE h[i - 1] \o c[i]
               g == [i \in 1 .. n |-> IF i = n THEN Step(f, n) ELSE f[i]]
    <3> HIDE DEF Step
    <3>3. \A i \in 1 .. n - 1 : f[i] = Step(f, i)
      BY <3>2 DEF IsFlat, Step
    <3>4. \A i \in 1 .. n - 1 : g[i] = f[i]
      BY <2>3, <2>5
    <3>5. g[n] = Step(f, n)
      BY <2>3, <2>5
    <3>6. \A i \in 1 .. n : Step(g, i) = Step(f, i)
      <4>1. \A i \in 1 .. n : i # 1 => i - 1 \in 1 .. n - 1
        BY <2>3
      <4> HIDE DEF g
      <4> QED BY <3>4, <4>1 DEF Step
    <3>7. \A i \in 1 .. n : g[i] = Step(g, i)
      <4>1. \A i \in 1 .. n : i = n \/ i \in 1 .. n - 1
        BY <2>3
      <4> HIDE DEF g
      <4> QED BY <3>3, <3>4, <3>5, <3>6, <4>1
    <3>8. g = [i \in 1 .. n |-> g[i]]
      OBVIOUS
    <3> HIDE DEF g
    <3>9. IsFlat(g, c, n)
      BY <3>7, <3>8 DEF IsFlat, Step
    <3> QED BY <2>3, <3>9
  <2> QED BY <2>4, <2>5
<1> QED BY <1>1

(* Two such functions agree where their sequences do. *)
LEMMA FlatAgree ==
  ASSUME NEW c, NEW d, NEW f, NEW g, NEW m \in Nat, NEW n \in Nat, NEW k \in Nat,
         IsFlat(f, c, m), IsFlat(g, d, n), k <= m, k <= n,
         \A i \in 1 .. k : c[i] = d[i]
  PROVE  \A i \in 1 .. k : f[i] = g[i]
<1> DEFINE Bad == {i \in 1 .. k : f[i] # g[i]}
<1>1. SUFFICES ASSUME Bad # {} PROVE FALSE
  OBVIOUS
<1>2. PICK i \in Bad : \A j \in Bad : i <= j
  <2>1. Bad \subseteq Nat
    OBVIOUS
  <2> HIDE DEF Bad
  <2> QED BY <1>1, <2>1, HasLeast
<1>3. i \in 1 .. k /\ f[i] # g[i]
  OBVIOUS
<1>4. i # 1 => f[i - 1] = g[i - 1]
  <2>1. i # 1 => i - 1 \in 1 .. k /\ ~(i <= i - 1)
    BY <1>3
  <2> QED BY <1>2, <2>1
<1>5. /\ f[i] = IF i = 1 THEN c[i] ELSE f[i - 1] \o c[i]
      /\ g[i] = IF i = 1 THEN d[i] ELSE g[i - 1] \o d[i]
  <2>1. i \in 1 .. m /\ i \in 1 .. n
    BY <1>3
  <2> QED BY <2>1 DEF IsFlat
<1>6. c[i] = d[i]
  BY <1>3
<1> QED BY <1>3, <1>4, <1>5, <1>6

LEMMA FlatIs ==
  ASSUME NEW c, Len(c) \in Nat, Len(c) # 0
  PROVE  \E f : IsFlat(f, c, Len(c)) /\ FlattenSeq(c) = f[Len(c)]
<1> DEFINE F == CHOOSE f : f = [i \in 1 .. Len(c) |-> IF i = 1 THEN c[i] ELSE f[i - 1] \o c[i]]
<1>1. IsFlat(F, c, Len(c))
  BY Zenon, FlatExists DEF IsFlat
<1>2. FlattenSeq(c) = F[Len(c)]
  BY DEF FlattenSeq
<1> HIDE DEF F
<1> QED BY <1>1, <1>2

LEMMA FlatEmpty == FlattenSeq(<<>>) = <<>>
BY DEF FlattenSeq

(* The last sequence comes last. *)
LEMMA FlatAppend ==
  ASSUME NEW S, NEW c \in Seq(S), NEW p \in S
  PROVE  FlattenSeq(Append(c, p)) = IF c = <<>> THEN p ELSE FlattenSeq(c) \o p
<1> DEFINE d == Append(c, p)
<1>1. /\ Len(d) = Len(c) + 1 /\ Len(c) \in Nat
      /\ d[Len(c) + 1] = p /\ \A i \in 1 .. Len(c) : d[i] = c[i]
  OBVIOUS
<1>2. PICK g : IsFlat(g, d, Len(d)) /\ FlattenSeq(d) = g[Len(d)]
  <2> HIDE DEF d
  <2> QED BY <1>1, FlatIs
<1>3. g[Len(d)] = IF Len(d) = 1 THEN d[Len(d)] ELSE g[Len(d) - 1] \o d[Len(d)]
  <2>1. Len(d) \in 1 .. Len(d)
    BY <1>1
  <2> HIDE DEF d
  <2> QED BY <1>2, <2>1 DEF IsFlat
<1>4. CASE c = <<>>
  BY <1>1, <1>2, <1>3, <1>4
<1>5. CASE c # <<>>
  <2>1. Len(c) # 0 /\ Len(d) # 1 /\ Len(d) - 1 = Len(c)
    BY <1>1, <1>5
  <2>2. PICK f : IsFlat(f, c, Len(c)) /\ FlattenSeq(c) = f[Len(c)]
    BY <1>1, <2>1, FlatIs
  <2>3. \A i \in 1 .. Len(c) : f[i] = g[i]
    <3>1. Len(d) \in Nat /\ Len(c) <= Len(c) /\ Len(c) <= Len(d)
      BY <1>1
    <3>2. \A i \in 1 .. Len(c) : c[i] = d[i]
      BY <1>1
    <3>3. Len(c) \in Nat /\ IsFlat(f, c, Len(c)) /\ IsFlat(g, d, Len(d))
      BY <1>1, <1>2, <2>2
    <3> HIDE DEF d
    <3>4. \A m, n, k \in Nat :
            /\ IsFlat(f, c, m) /\ IsFlat(g, d, n) /\ k <= m /\ k <= n
            /\ \A i \in 1 .. k : c[i] = d[i]
            => \A i \in 1 .. k : f[i] = g[i]
      BY FlatAgree, SMTT(20)
    <3> QED BY <3>1, <3>2, <3>3, <3>4, Zenon
  <2>4. f[Len(c)] = g[Len(c)]
    BY <1>1, <2>1, <2>3
  <2> HIDE DEF d
  <2>5. FlattenSeq(d) = FlattenSeq(c) \o p
    BY <1>1, <1>2, <1>3, <2>1, <2>2, <2>4
  <2> QED BY <1>5, <2>5 DEF d
<1> QED BY <1>4, <1>5

LEMMA FlatType ==
  ASSUME NEW S, NEW c \in Seq(Seq(S))
  PROVE  FlattenSeq(c) \in Seq(S)
<1> DEFINE Bad == {n \in Nat : \E d \in Seq(Seq(S)) : Len(d) = n /\ FlattenSeq(d) \notin Seq(S)}
<1>1. SUFFICES ASSUME FlattenSeq(c) \notin Seq(S) PROVE FALSE
  OBVIOUS
<1>2. Len(c) \in Bad
  BY <1>1
<1>3. PICK n \in Bad : \A m \in Bad : n <= m
  <2>1. Bad \subseteq Nat /\ Bad # {}
    BY <1>2
  <2> HIDE DEF Bad
  <2> QED BY <2>1, HasLeast
<1>4. PICK d \in Seq(Seq(S)) : Len(d) = n /\ FlattenSeq(d) \notin Seq(S)
  OBVIOUS
<1>5. d # <<>>
  BY <1>4, FlatEmpty
<1>6. PICK e \in Seq(Seq(S)), p \in Seq(S) : d = Append(e, p)
  BY <1>5, SequenceEmptyOrAppend
<1>7. Len(e) \in Nat /\ n = Len(e) + 1
  BY <1>4, <1>6
<1>8. FlattenSeq(e) \in Seq(S)
  <2>1. Len(e) \notin Bad
    <3>1. ~(n <= Len(e))
      BY <1>7
    <3> HIDE DEF Bad
    <3> QED BY <1>3, <3>1
  <2> QED BY <1>7, <2>1
<1>9. FlattenSeq(d) \in Seq(S)
  BY <1>6, <1>8, FlatAppend, ConcatProperties
<1> QED BY <1>4, <1>9

(* A sequence may be cut anywhere. *)
LEMMA FlatSplit ==
  ASSUME NEW S, NEW c \in Seq(Seq(S)), NEW n \in 0 .. Len(c)
  PROVE  FlattenSeq(SubSeq(c, 1, n)) \o FlattenSeq(SubSeq(c, n + 1, Len(c))) = FlattenSeq(c)
<1> DEFINE L(m) == SubSeq(c, 1, m)
           R(m) == SubSeq(c, n + 1, m)
           Good(m) == FlattenSeq(L(n)) \o FlattenSeq(R(m)) = FlattenSeq(L(m))
           Bad == {m \in n .. Len(c) : ~Good(m)}
<1>0. \A x, y, z \in Seq(S) : (x \o y) \o z = x \o (y \o z)
  BY SMTT(20)
<1>1. \A m \in n .. Len(c) : L(m) \in Seq(Seq(S)) /\ R(m) \in Seq(Seq(S))
  <2>1. \A i \in 1 .. Len(c) : c[i] \in Seq(S)
    OBVIOUS
  <2> QED BY <2>1, SubSeqProperties
<1>2. \A m \in n .. Len(c) : FlattenSeq(L(m)) \in Seq(S) /\ FlattenSeq(R(m)) \in Seq(S)
  BY <1>1, FlatType
<1>3. Bad = {}
  <2>1. SUFFICES ASSUME Bad # {} PROVE FALSE
    OBVIOUS
  <2>2. PICK m \in Bad : \A j \in Bad : m <= j
    <3>1. Bad \subseteq Nat
      OBVIOUS
    <3> HIDE DEF Bad
    <3> QED BY <2>1, <3>1, HasLeast
  <2>3. m \in n .. Len(c) /\ ~Good(m)
    OBVIOUS
  <2>4. m # n
    <3>1. R(n) = <<>>
      BY SubSeqEmpty
    <3>2. Good(n)
      <4>1. FlattenSeq(L(n)) \in Seq(S)
        BY <1>2
      <4> HIDE DEF L, R
      <4> QED BY <3>1, <4>1, FlatEmpty, ConcatEmptySeq
    <3> QED BY <2>3, <3>2
  <2>5. m - 1 \in n .. Len(c) /\ m \in 1 .. Len(c) /\ ~(m <= m - 1)
    BY <2>3, <2>4
  <2>6. Good(m - 1)
    <3>1. m - 1 \notin Bad
      <4> HIDE DEF Bad
      <4> QED BY <2>2, <2>5
    <3> QED BY <2>5, <3>1
  <2>7. L(m) = Append(L(m - 1), c[m]) /\ R(m) = Append(R(m - 1), c[m]) /\ c[m] \in Seq(S)
    <3>1. c[m] \in Seq(S)
      BY <2>5
    <3>2. L(m) = L(m - 1) \o <<c[m]>>
      BY <2>5, SubSeqRecursiveSecond
    <3>3. R(m) = R(m - 1) \o <<c[m]>>
      <4>1. n + 1 \in 1 .. Len(c) /\ m \in n + 1 .. Len(c)
        BY <2>3, <2>4
      <4> QED BY <4>1, SubSeqRecursiveSecond
    <3>4. L(m - 1) \in Seq(Seq(S)) /\ R(m - 1) \in Seq(Seq(S))
      BY <1>1, <2>5
    <3> HIDE DEF L, R
    <3> QED BY <3>1, <3>2, <3>3, <3>4, AppendIsConcat
  <2> DEFINE a == FlattenSeq(L(n))
             b == FlattenSeq(R(m - 1))
             w == FlattenSeq(L(m - 1))
  <2>8. a \in Seq(S) /\ b \in Seq(S) /\ w \in Seq(S) /\ a \o b = w
    <3>1. a \o b = w
      BY <2>6
    <3>2. n \in n .. Len(c)
      OBVIOUS
    <3> HIDE DEF L, R, Good
    <3> QED BY <1>2, <2>3, <2>5, <3>1, <3>2
  <2>9. FlattenSeq(L(m)) = w \o c[m] /\ FlattenSeq(R(m)) = b \o c[m]
    <3>1. FlattenSeq(L(m)) = IF L(m - 1) = <<>> THEN c[m] ELSE w \o c[m]
      <4>1. L(m - 1) \in Seq(Seq(S))
        BY <1>1, <2>5
      <4> HIDE DEF L
      <4>2. FlattenSeq(Append(L(m - 1), c[m])) = IF L(m - 1) = <<>> THEN c[m] ELSE FlattenSeq(L(m - 1)) \o c[m]
        BY <2>7, <4>1, Zenon, FlatAppend
      <4> QED BY <2>7, <4>2
    <3>2. FlattenSeq(R(m)) = IF R(m - 1) = <<>> THEN c[m] ELSE b \o c[m]
      <4>1. R(m - 1) \in Seq(Seq(S))
        BY <1>1, <2>5
      <4> HIDE DEF R
      <4>2. FlattenSeq(Append(R(m - 1), c[m])) = IF R(m - 1) = <<>> THEN c[m] ELSE FlattenSeq(R(m - 1)) \o c[m]
        BY <2>7, <4>1, Zenon, FlatAppend
      <4> QED BY <2>7, <4>2
    <3>3. <<>> \o c[m] = c[m]
      BY <2>7, ConcatEmptySeq
    <3> HIDE DEF L, R
    <3> QED BY <3>1, <3>2, <3>3, FlatEmpty
  <2>10. a \o (b \o c[m]) = w \o c[m]
    <3>1. c[m] \in Seq(S)
      BY <2>7
    <3> HIDE DEF a, b, w
    <3>2. (a \o b) \o c[m] = a \o (b \o c[m])
      BY <1>0, <2>8, <3>1, ZenonT(40)
    <3>3. a \o b = w
      BY <2>8
    <3> QED BY <3>2, <3>3, Zenon
  <2> HIDE DEF L, R
  <2> QED BY <2>3, <2>9, <2>10
<1>4. Good(Len(c))
  <2>1. Len(c) \in n .. Len(c)
    OBVIOUS
  <2> HIDE DEF Good
  <2> QED BY <1>3, <2>1
<1>5. L(Len(c)) = c
  BY SubSeqFull
<1> HIDE DEF L, R
<1>6. FlattenSeq(L(n)) \o FlattenSeq(R(Len(c))) = FlattenSeq(c)
  BY <1>4, <1>5
<1> QED BY <1>6 DEF L, R


(***************************************************************************)
(* Numbers and sequences.                                                  *)
(***************************************************************************)
LEMMA MaxIs ==
  ASSUME NEW n \in Nat, NEW S \in SUBSET (0 .. n), S # {}
  PROVE  Max(S) \in S /\ \A x \in S : x <= Max(S)
<1> DEFINE Above == {u \in Nat : \A x \in S : x <= u}
<1>1. Above \subseteq Nat /\ n \in Above
  OBVIOUS
<1>2. PICK u \in Above : \A v \in Above : u <= v
  <2> HIDE DEF Above
  <2> QED BY <1>1, HasLeast
<1>3. u \in S
  <2>1. SUFFICES ASSUME u \notin S PROVE FALSE
    OBVIOUS
  <2>2. \A x \in S : x < u
    BY <2>1
  <2>3. u # 0
    <3>1. PICK x \in S : TRUE
      OBVIOUS
    <3>2. x < u /\ x \in 0 .. n
      BY <2>2
    <3> QED BY <3>2
  <2>4. u - 1 \in Above
    BY <2>2, <2>3
  <2>5. u - 1 \in Nat /\ ~(u <= u - 1)
    BY <2>3
  <2> HIDE DEF Above
  <2> QED BY <1>2, <2>4, <2>5
<1>4. \E x \in S : \A y \in S : x >= y
  BY <1>3
<1>5. Max(S) \in S /\ \A y \in S : Max(S) >= y
  BY <1>4 DEF Max
<1> QED BY <1>5

LEMMA MinIs == ASSUME NEW a \in Int, NEW b \in Int PROVE Min({a, b}) = IF a <= b THEN a ELSE b
<1>1. \E x \in {a, b} : \A y \in {a, b} : x <= y
  OBVIOUS
<1>2. Min({a, b}) \in {a, b} /\ \A y \in {a, b} : Min({a, b}) <= y
  BY <1>1 DEF Min
<1> QED BY <1>2

LEMMA TimesGrows ==
  \A a, b, w \in Nat : a <= b => w * a \in Nat /\ w * b \in Nat /\ w * a <= w * b
<1> SUFFICES ASSUME NEW a \in Nat, NEW b \in Nat, NEW w \in Nat, a <= b
             PROVE  w * a \in Nat /\ w * b \in Nat /\ w * a <= w * b
  OBVIOUS
<1>1. b - a \in Nat /\ b = a + (b - a)
  OBVIOUS
<1>2. w * b = w * a + w * (b - a) /\ w * (b - a) \in Nat /\ w * a \in Nat
  BY <1>1
<1> QED BY <1>2

(* A longer prefix has no fewer elements in its sequences. *)
LEMMA FlatLonger ==
  ASSUME NEW S, NEW c \in Seq(Seq(S)), NEW n \in 0 .. Len(c), NEW m \in 0 .. n
  PROVE  Len(FlattenSeq(SubSeq(c, 1, m))) <= Len(FlattenSeq(SubSeq(c, 1, n)))
<1> DEFINE d == SubSeq(c, 1, n)
<1>1. d \in Seq(Seq(S)) /\ Len(d) = n /\ SubSeq(d, 1, m) = SubSeq(c, 1, m)
  OBVIOUS
<1>2. SubSeq(d, m + 1, Len(d)) \in Seq(Seq(S)) /\ SubSeq(d, 1, m) \in Seq(Seq(S))
  <2> HIDE DEF d
  <2>1. \A i \in 1 .. Len(d) : d[i] \in Seq(S)
    BY <1>1
  <2> QED BY <1>1, <2>1, SubSeqProperties
<1> HIDE DEF d
<1>3. FlattenSeq(SubSeq(d, 1, m)) \o FlattenSeq(SubSeq(d, m + 1, Len(d))) = FlattenSeq(d)
  <2>1. m \in 0 .. Len(d)
    BY <1>1
  <2> QED BY <1>1, <2>1, FlatSplit
<1>4. FlattenSeq(SubSeq(d, 1, m)) \in Seq(S) /\ FlattenSeq(SubSeq(d, m + 1, Len(d))) \in Seq(S)
  BY <1>2, FlatType
<1>5. Len(FlattenSeq(SubSeq(d, 1, m))) <= Len(FlattenSeq(d))
  BY <1>3, <1>4, ConcatProperties, LenProperties
<1> QED BY <1>1, <1>5 DEF d

(***************************************************************************)
(* The queue: a longer prefix weighs no less.                              *)
(***************************************************************************)
ItemsOf(p) ==
  [b \in 1 .. Len(p) |-> [k \in DOMAIN p[b].kinds |->
    [kind |-> p[b].kinds[k], owner |-> p[b].owner, batch |-> b]]]
CoinsOf(p) ==
  [b \in 1 .. Len(p) |-> [f \in DOMAIN p[b].fees |->
    In(<<"fee", b, f>>, Out(Account(p[b].owner), "policy", p[b].fees[f]))]]

ItemType == [kind : {"tick", "verifier"}, owner : {1, 2}, batch : Nat]
CoinInput == [from : {"fee"} \X Nat \X Nat, issue : {0},
              out : [to : {"account"} \X {1, 2}, asset : {"policy"}, amount : Nat]]

LEMMA PartsAre ==
  ASSUME NEW p \in Seq(Batches)
  PROVE  /\ ItemsOf(p) \in Seq(Seq(ItemType)) /\ Len(ItemsOf(p)) = Len(p)
         /\ CoinsOf(p) \in Seq(Seq(CoinInput)) /\ Len(CoinsOf(p)) = Len(p)
<1>1. \A b \in 1 .. Len(p) : p[b] \in Batches
  OBVIOUS
<1>2. ASSUME NEW b \in 1 .. Len(p)
      PROVE  /\ ItemsOf(p)[b] \in Seq(ItemType)
             /\ CoinsOf(p)[b] \in Seq(CoinInput)
  <2>1. /\ p[b].owner \in {1, 2} /\ p[b].kinds \in Seq({"tick", "verifier"})
        /\ p[b].fees \in Seq(Nat)
    BY <1>1 DEF Batches
  <2> DEFINE i(k) == [kind |-> p[b].kinds[k], owner |-> p[b].owner, batch |-> b]
             c(f) == In(<<"fee", b, f>>, Out(Account(p[b].owner), "policy", p[b].fees[f]))
  <2>2. ItemsOf(p)[b] \in Seq(ItemType)
    <3>1. \A k \in DOMAIN p[b].kinds : i(k) \in ItemType
      BY <2>1 DEF ItemType
    <3>2. ItemsOf(p)[b] = [k \in DOMAIN p[b].kinds |-> i(k)]
      BY DEF ItemsOf
    <3>3. DOMAIN p[b].kinds = 1 .. Len(p[b].kinds) /\ Len(p[b].kinds) \in Nat
      BY <2>1
    <3> HIDE DEF i
    <3> QED BY <3>1, <3>2, <3>3
  <2>3. CoinsOf(p)[b] \in Seq(CoinInput)
    <3>1. ASSUME NEW f \in DOMAIN p[b].fees PROVE c(f) \in CoinInput
      <4>1. b \in Nat /\ f \in Nat /\ p[b].owner \in {1, 2} /\ p[b].fees[f] \in Nat
        BY <2>1
      <4> QED BY <4>1 DEF CoinInput, In, Out, Account
    <3>2. CoinsOf(p)[b] = [f \in DOMAIN p[b].fees |-> c(f)]
      BY DEF CoinsOf
    <3>3. DOMAIN p[b].fees = 1 .. Len(p[b].fees) /\ Len(p[b].fees) \in Nat
      BY <2>1
    <3> HIDE DEF c
    <3> QED BY <3>1, <3>2, <3>3
  <2> QED BY <2>2, <2>3
<1>4. /\ ItemsOf(p) = [b \in 1 .. Len(p) |-> ItemsOf(p)[b]]
      /\ CoinsOf(p) = [b \in 1 .. Len(p) |-> CoinsOf(p)[b]]
  BY DEF ItemsOf, CoinsOf
<1>5. Len(p) \in Nat
  OBVIOUS
<1>6. \A c, S : (c = [b \in 1 .. Len(p) |-> c[b]] /\ \A b \in 1 .. Len(p) : c[b] \in S)
                => c \in Seq(S) /\ Len(c) = Len(p)
  BY <1>5
<1> QED BY <1>2, <1>4, <1>6

LEMMA PrefixParts ==
  ASSUME NEW p \in Seq(Batches), NEW n \in 0 .. Len(p)
  PROVE  /\ Issued(SubSeq(p, 1, n)) = FlattenSeq(SubSeq(ItemsOf(p), 1, n))
         /\ FeeInputs(SubSeq(p, 1, n)) = FlattenSeq(SubSeq(CoinsOf(p), 1, n))
<1> DEFINE q == SubSeq(p, 1, n)
<1>1. DOMAIN q = 1 .. n /\ \A b \in 1 .. n : q[b] = p[b]
  OBVIOUS
<1>2. \A b \in 1 .. n : b \in 1 .. Len(p)
  OBVIOUS
<1>3. SubSeq(ItemsOf(p), 1, n) = [b \in 1 .. n |-> ItemsOf(p)[b]]
  BY PartsAre
<1>4. SubSeq(CoinsOf(p), 1, n) = [b \in 1 .. n |-> CoinsOf(p)[b]]
  BY PartsAre
<1> HIDE DEF q
<1>5. Issued(q) = FlattenSeq(SubSeq(ItemsOf(p), 1, n))
  BY <1>1, <1>2, <1>3 DEF Issued, ItemsOf
<1>6. FeeInputs(q) = FlattenSeq(SubSeq(CoinsOf(p), 1, n))
  BY <1>1, <1>2, <1>4 DEF FeeInputs, CoinsOf
<1> QED BY <1>5, <1>6 DEF q

Count(p, n) == Len(Issued(SubSeq(p, 1, n)))

LEMMA PrefixGrows ==
  ASSUME NEW p \in Seq(Batches), NEW n \in 0 .. Len(p), NEW m \in 0 .. n
  PROVE  /\ Count(p, m) \in Nat /\ Count(p, m) <= Count(p, n)
         /\ IssuanceWeight(SubSeq(p, 1, m)) \in Nat
         /\ IssuanceWeight(SubSeq(p, 1, m)) <= IssuanceWeight(SubSeq(p, 1, n))
<1> DEFINE I(i) == FlattenSeq(SubSeq(ItemsOf(p), 1, i))
           C(i) == FlattenSeq(SubSeq(CoinsOf(p), 1, i))
<1>1. m \in 0 .. Len(p)
  OBVIOUS
<1>2. /\ Issued(SubSeq(p, 1, m)) = I(m) /\ FeeInputs(SubSeq(p, 1, m)) = C(m)
      /\ Issued(SubSeq(p, 1, n)) = I(n) /\ FeeInputs(SubSeq(p, 1, n)) = C(n)
  BY <1>1, PrefixParts
<1>3. \A i \in 0 .. Len(p) : Len(I(i)) \in Nat /\ Len(C(i)) \in Nat
  <2> SUFFICES ASSUME NEW i \in 0 .. Len(p) PROVE Len(I(i)) \in Nat /\ Len(C(i)) \in Nat
    OBVIOUS
  <2>1. SubSeq(ItemsOf(p), 1, i) \in Seq(Seq(ItemType)) /\ SubSeq(CoinsOf(p), 1, i) \in Seq(Seq(CoinInput))
    BY PartsAre
  <2>2. I(i) \in Seq(ItemType) /\ C(i) \in Seq(CoinInput)
    BY <2>1, FlatType
  <2> HIDE DEF I, C
  <2> QED BY <2>2, LenProperties
<1>4. Len(I(m)) <= Len(I(n)) /\ Len(C(m)) <= Len(C(n))
  BY PartsAre, FlatLonger
<1> HIDE DEF I, C
<1>5. BaseWeight \in Nat /\ AccountWeight \in Nat /\ ItemWeight \in Nat
  BY WeightAssumption
<1>6. \A a, b, w \in Nat : a <= b => w * a \in Nat /\ w * b \in Nat /\ w * a <= w * b
  BY TimesGrows
<1>7. Len(I(m)) \in Nat /\ Len(I(n)) \in Nat /\ Len(C(m)) \in Nat /\ Len(C(n)) \in Nat
  BY <1>1, <1>3
<1>8. /\ AccountWeight * Len(C(m)) \in Nat /\ ItemWeight * Len(I(m)) \in Nat
      /\ AccountWeight * Len(C(m)) <= AccountWeight * Len(C(n))
      /\ ItemWeight * Len(I(m)) <= ItemWeight * Len(I(n))
  BY <1>4, <1>5, <1>6, <1>7
<1>9. AccountWeight * Len(C(n)) \in Nat /\ ItemWeight * Len(I(n)) \in Nat
  BY <1>5, <1>6, <1>7
<1> QED BY <1>2, <1>4, <1>5, <1>7, <1>8, <1>9 DEF Count, IssuanceWeight


(* Without batches there is nothing to issue. *)
LEMMA CountZero == ASSUME NEW p \in Seq(Batches) PROVE Count(p, 0) = 0
<1>1. 0 \in 0 .. Len(p)
  OBVIOUS
<1>2. SubSeq(ItemsOf(p), 1, 0) = <<>>
  BY PartsAre
<1>3. Issued(SubSeq(p, 1, 0)) = <<>>
  BY <1>1, <1>2, PrefixParts, FlatEmpty
<1> QED BY <1>3 DEF Count

(* What a candidate takes: as many batches as the limits allow. *)
LEMMA PrefixIs ==
  ASSUME pending \in Seq(Batches), NEW limit \in Nat \ {0}
  PROVE  \E n \in 0 .. Len(pending) :
           /\ Prefix(limit) = SubSeq(pending, 1, n) /\ Len(Prefix(limit)) = n
           /\ n <= limit /\ Count(pending, n) <= MaxItems
           /\ \A m \in n + 1 .. Len(pending) : m <= limit => Count(pending, m) > MaxItems
<1> DEFINE top == IF limit <= Len(pending) THEN limit ELSE Len(pending)
           S == {n \in 0 .. top : Count(pending, n) <= MaxItems}
<1>1. top \in Nat /\ top <= limit /\ top <= Len(pending) /\ Min({limit, Len(pending)}) = top
  BY MinIs
<1>2. Prefix(limit) = SubSeq(pending, 1, Max(S))
  BY <1>1 DEF Prefix, Count
<1>3. 0 \in S
  BY <1>1, CountZero, WeightAssumption
<1>4. S \in SUBSET (0 .. top)
  OBVIOUS
<1>5. Max(S) \in S /\ \A x \in S : x <= Max(S)
  <2> HIDE DEF S, top
  <2> QED BY <1>1, <1>3, <1>4, MaxIs
<1>6. Max(S) \in 0 .. top /\ Count(pending, Max(S)) <= MaxItems
  BY <1>5
<1>7. ASSUME NEW m \in Max(S) + 1 .. Len(pending), m <= limit
      PROVE  Count(pending, m) > MaxItems
  <2>1. m \in 0 .. top /\ m \in 0 .. Len(pending)
    BY <1>1, <1>6, <1>7
  <2>2. m \notin S
    BY <1>5, <1>6, <1>7
  <2>3. ~(Count(pending, m) <= MaxItems)
    BY <2>1, <2>2
  <2>4. Count(pending, m) \in Nat /\ MaxItems \in Nat
    BY <2>1, PrefixGrows, WeightAssumption
  <2> QED BY <2>3, <2>4
<1>8. Max(S) \in 0 .. Len(pending)
  BY <1>1, <1>6
<1> HIDE DEF S, top
<1>9. Max(S) <= limit /\ Len(SubSeq(pending, 1, Max(S))) = Max(S)
  BY <1>1, <1>6, <1>8
<1> QED BY <1>2, <1>6, <1>7, <1>8, <1>9

(***************************************************************************)
(* The search for the size of a round: what is known of the limits that    *)
(* are out of bounds.                                                      *)
(***************************************************************************)
TooMuch(p, n) ==
  IssuanceWeight(SubSeq(p, 1, n)) > LaneWeight \/ Len(Issued(SubSeq(p, 1, n))) > MaxItems

BoundsHold ==
  /\ search = [lo |-> search.lo, hi |-> search.hi, lim |-> search.lim, best |-> search.best]
  /\ search.lo \in Nat \ {0} /\ search.lim \in Nat /\ search.hi \in Nat
  /\ search.lo <= search.lim /\ search.lim <= search.hi /\ search.hi <= MaxLimit

Searching ==
  pc = "choose" =>
    /\ rows = <<>> /\ BoundsHold
    /\ search.lo - 1 <= Len(pending) /\ search.best = SubSeq(pending, 1, search.lo - 1)
    /\ search.lo > 1 => Count(pending, search.lo - 1) <= MaxItems
    /\ \A n \in search.hi + 1 .. MaxLimit : n <= Len(pending) => TooMuch(pending, n)

Chosen ==
  pc = "propose" =>
    /\ rows = <<>> /\ search.best \in Seq(Batches)
    /\ \A n \in 1 .. MaxLimit :
         n <= Len(pending) /\ n > Len(search.best) => TooMuch(pending, n)

(* With one batch more it is no less. *)
LEMMA TooMuchGrows ==
  ASSUME NEW p \in Seq(Batches), NEW n \in 0 .. Len(p), NEW m \in 0 .. n, TooMuch(p, m)
  PROVE  TooMuch(p, n)
<1>1. n \in 0 .. Len(p) /\ n \in 0 .. n /\ m \in 0 .. Len(p)
  OBVIOUS
<1>2. LaneWeight \in Nat
  BY LimitAssumption, EyesAssumption DEF LaneWeight
<1>3. /\ Count(p, m) \in Nat /\ Count(p, m) <= Count(p, n) /\ Count(p, n) \in Nat
      /\ IssuanceWeight(SubSeq(p, 1, m)) \in Nat /\ IssuanceWeight(SubSeq(p, 1, n)) \in Nat
      /\ IssuanceWeight(SubSeq(p, 1, m)) <= IssuanceWeight(SubSeq(p, 1, n))
  BY <1>1, PrefixGrows
<1> QED BY <1>2, <1>3, WeightAssumption DEF TooMuch, Count

(* The middle of the bounds. *)
LEMMA Middle ==
  ASSUME NEW a \in Nat, NEW b \in Nat, a <= b
  PROVE  a + (b - a) \div 2 \in a .. b
OBVIOUS

LEMMA ChooseStep ==
  ASSUME pending \in Seq(Batches), Searching, Choose
  PROVE  /\ pending' \in Seq(Batches) /\ Searching' /\ Chosen'
         /\ pc' \in {"choose", "propose", "done", "trapped"}
<1> DEFINE lo == search.lo
           hi == search.hi
           lim == search.lim
           taken == Prefix(lim)
<1>1. pc = "choose" /\ rows = <<>> /\ rows' = rows
  BY DEF Choose, Searching
<1>2. /\ search = [lo |-> lo, hi |-> hi, lim |-> lim, best |-> search.best]
      /\ lo \in Nat \ {0} /\ lim \in Nat \ {0} /\ hi \in Nat
      /\ lo <= lim /\ lim <= hi /\ hi <= MaxLimit
      /\ lo - 1 <= Len(pending) /\ search.best = SubSeq(pending, 1, lo - 1)
      /\ lo > 1 => Count(pending, lo - 1) <= MaxItems
      /\ \A n \in hi + 1 .. MaxLimit : n <= Len(pending) => TooMuch(pending, n)
  BY <1>1 DEF Searching, BoundsHold
<1>3. MaxLimit \in Nat \ {0} /\ Len(pending) \in Nat /\ MaxItems \in Nat /\ LaneWeight \in Nat
  BY LimitAssumption, EyesAssumption, WeightAssumption DEF LaneWeight
<1>4. PICK n \in 0 .. Len(pending) :
        /\ taken = SubSeq(pending, 1, n) /\ Len(taken) = n
        /\ n <= lim /\ Count(pending, n) <= MaxItems
        /\ \A m \in n + 1 .. Len(pending) : m <= lim => Count(pending, m) > MaxItems
  BY <1>2, PrefixIs
<1>5. taken \in Seq(Batches) /\ search.best \in Seq(Batches) /\ Len(search.best) = lo - 1
  BY <1>2, <1>4, SMTT(20)
<1>6. (taken = <<>>) <=> (n = 0)
  BY <1>4, <1>5
<1>7. CASE taken = <<>> /\ Settle(search.best, "propose") /\ UNCHANGED pending
  <2>1. lo = 1
    <3>1. SUFFICES ASSUME lo > 1 PROVE FALSE
      BY <1>2
    <3>2. lo - 1 \in 0 .. Len(pending) /\ 1 \in 0 .. lo - 1 /\ 1 \in 0 .. Len(pending) /\ lo - 1 \in 0 .. lo - 1
      BY <1>2, <1>3, <3>1
    <3>3. Count(pending, 1) <= Count(pending, lo - 1) /\ Count(pending, 1) \in Nat /\ Count(pending, lo - 1) \in Nat
      BY <3>2, PrefixGrows
    <3>4. Count(pending, 1) > MaxItems
      BY <1>2, <1>3, <1>4, <1>6, <1>7, <3>2, SMTT(20)
    <3> QED BY <1>2, <1>3, <3>1, <3>3, <3>4
  <2>2. search.best = <<>>
    BY <1>5, <2>1
  <2>3. pc' = "done" /\ pending' = pending
    BY <1>7, <2>2 DEF Settle
  <2> QED BY <2>3 DEF Searching, Chosen
<1>8. CASE Len(taken) = 1 /\ pending' = Tail(pending) /\ search' = Fresh /\ UNCHANGED pc
  <2>1. pending # <<>>
    BY <1>4, <1>8
  <2>2. pending' \in Seq(Batches) /\ Len(pending') \in Nat
    BY <1>8, <2>1
  <2>3. SubSeq(pending', 1, 0) = <<>>
    BY <2>2
  <2>4. search' = [lo |-> 1, hi |-> MaxLimit, lim |-> MaxLimit, best |-> <<>>]
    BY <1>8 DEF Fresh
  <2>5. BoundsHold'
    BY <1>3, <2>4 DEF BoundsHold
  <2>6. Searching'
    BY <1>1, <1>3, <2>2, <2>3, <2>4, <2>5 DEF Searching
  <2> QED BY <1>1, <1>8, <2>2, <2>6 DEF Chosen
<1>9. CASE /\ taken # <<>> /\ ~(Len(taken) = 1 /\ IssuanceWeight(taken) > LaneWeight)
           /\ Weigh(taken, Len(taken), IssuanceWeight(taken), "propose")
           /\ UNCHANGED pending
  <2> DEFINE w == IssuanceWeight(taken)
  <2>0. n # 0 /\ pending' = pending /\ Count(pending', 0) = Count(pending, 0)
    BY <1>6, <1>9
  <2>1. \A m \in 0 .. Len(pending) : Count(pending, m) \in Nat
    <3> TAKE m \in 0 .. Len(pending)
    <3> QED BY PrefixGrows, m \in 0 .. m
  <2> SUFFICES ASSUME pc' # "trapped"
               PROVE  /\ pending' \in Seq(Batches) /\ Searching' /\ Chosen'
                      /\ pc' \in {"choose", "propose", "done", "trapped"}
    BY <2>0 DEF Searching, Chosen
  <2>2. CASE w <= LaneWeight /\ (n < lim \/ lim = MaxLimit) /\ Settle(taken, "propose")
    <3>1. pc' = "propose" /\ search'.best = taken
      BY <1>2, <1>9, <2>2 DEF Settle
    <3>2. ASSUME NEW m \in 1 .. MaxLimit, m <= Len(pending), m > n
          PROVE  TooMuch(pending, m)
      <4>1. n < lim
        BY <1>2, <1>4, <2>2, <3>2
      <4>2. n + 1 \in 0 .. Len(pending) /\ n + 1 \in 0 .. m /\ m \in 0 .. Len(pending) /\ n + 1 \in n + 1 .. Len(pending)
        BY <1>3, <3>2
      <4>3. Count(pending, n + 1) > MaxItems
        BY <1>2, <1>4, <4>1, <4>2
      <4>4. TooMuch(pending, n + 1)
        BY <4>3 DEF TooMuch, Count
      <4> QED BY <4>2, <4>4, TooMuchGrows
    <3> QED BY <1>1, <1>4, <1>5, <2>0, <3>1, <3>2 DEF Searching, Chosen
  <2>3. CASE w <= LaneWeight /\ ~(n < lim \/ lim = MaxLimit) /\ Narrow(n + 1, hi, taken, "propose")
    <3>1. n = lim
      BY <1>2, <1>4, <2>3
    <3>2. CASE n + 1 <= hi
      <4> DEFINE mid == (n + 1) + (hi - (n + 1)) \div 2
      <4>1. /\ search' = [lo |-> n + 1, hi |-> hi, best |-> taken, lim |-> mid]
            /\ pc' = pc
        BY <2>3, <3>2 DEF Narrow
      <4>2. mid \in n + 1 .. hi
        <5>1. n + 1 \in Nat /\ hi \in Nat
          BY <1>2, <1>3
        <5> QED BY <3>2, <5>1, Middle
      <4>3. BoundsHold'
        <5> HIDE DEF mid, taken
        <5> QED BY <1>2, <4>1, <4>2 DEF BoundsHold
      <4>4. /\ search'.lo - 1 = n /\ search'.hi = hi
        BY <4>1
      <4>5. Searching'
        <5> HIDE DEF mid
        <5> QED BY <1>1, <1>2, <1>4, <2>0, <4>1, <4>3, <4>4 DEF Searching
      <4> QED BY <1>1, <2>0, <4>1, <4>5 DEF Chosen
    <3>3. CASE ~(n + 1 <= hi)
      <4>1. pc' = "propose" /\ search'.best = taken
        BY <1>2, <2>3, <3>3 DEF Narrow
      <4>2. \A m \in 1 .. MaxLimit : m > n => m \in hi + 1 .. MaxLimit
        BY <1>2, <1>3, <3>1, <3>3
      <4> QED BY <1>1, <1>2, <1>4, <1>5, <2>0, <4>1, <4>2 DEF Searching, Chosen
    <3> QED BY <3>2, <3>3
  <2>4. CASE w > LaneWeight /\ Narrow(lo, n - 1, search.best, "propose")
    <3>1. n - 1 \in Nat /\ n - 1 <= MaxLimit
      BY <1>2, <1>3, <1>4, <2>0
    <3>2. ASSUME NEW m \in n .. MaxLimit, m <= Len(pending) PROVE TooMuch(pending, m)
      <4>1. TooMuch(pending, n)
        BY <1>4, <2>4 DEF TooMuch
      <4>2. n \in 0 .. m /\ m \in 0 .. Len(pending)
        BY <1>3, <3>2
      <4> QED BY <4>1, <4>2, TooMuchGrows
    <3>3. CASE lo <= n - 1
      <4> DEFINE mid == lo + ((n - 1) - lo) \div 2
      <4>1. /\ search' = [lo |-> lo, hi |-> n - 1, best |-> search.best, lim |-> mid]
            /\ pc' = pc
        BY <2>4, <3>3 DEF Narrow
      <4>2. mid \in lo .. n - 1
        BY <1>2, <3>1, <3>3, Middle
      <4>3. BoundsHold'
        <5> HIDE DEF mid
        <5> QED BY <1>2, <3>1, <4>1, <4>2 DEF BoundsHold
      <4>4. \A m \in search'.hi + 1 .. MaxLimit : m <= Len(pending) => TooMuch(pending, m)
        <5>1. search'.hi + 1 = n
          BY <4>1, <3>1
        <5> QED BY <5>1, <3>2
      <4>5. Searching'
        <5> HIDE DEF mid
        <5> QED BY <1>1, <1>2, <1>4, <2>0, <4>1, <4>3, <4>4 DEF Searching
      <4> QED BY <1>1, <2>0, <4>1, <4>5 DEF Chosen
    <3>4. CASE ~(lo <= n - 1)
      <4>1. pc' = "propose" /\ search'.best = search.best
        BY <1>2, <2>4, <3>4 DEF Narrow
      <4>2. \A m \in 1 .. MaxLimit : m > lo - 1 => m \in n .. MaxLimit
        BY <1>2, <1>3, <3>4
      <4> QED BY <1>1, <1>2, <1>5, <2>0, <3>2, <4>1, <4>2 DEF Searching, Chosen
    <3> QED BY <3>3, <3>4
  <2>5. \/ w <= LaneWeight /\ (n < lim \/ lim = MaxLimit) /\ Settle(taken, "propose")
        \/ w <= LaneWeight /\ ~(n < lim \/ lim = MaxLimit) /\ Narrow(n + 1, hi, taken, "propose")
        \/ w > LaneWeight /\ Narrow(lo, n - 1, search.best, "propose")
    BY <1>4, <1>9 DEF Weigh, Below
  <2> QED BY <2>2, <2>3, <2>4, <2>5
<1>10. \/ taken = <<>> /\ Settle(search.best, "propose") /\ UNCHANGED pending
       \/ Len(taken) = 1 /\ pending' = Tail(pending) /\ search' = Fresh /\ UNCHANGED pc
       \/ /\ taken # <<>> /\ ~(Len(taken) = 1 /\ IssuanceWeight(taken) > LaneWeight)
          /\ Weigh(taken, Len(taken), IssuanceWeight(taken), "propose")
          /\ UNCHANGED pending
  BY DEF Choose
<1> QED BY <1>7, <1>8, <1>9, <1>10

(***************************************************************************)
(* What a sequence has at some places.                                     *)
(***************************************************************************)
LEMMA FlatPrefix ==
  ASSUME NEW S, NEW c \in Seq(Seq(S)), NEW n \in Nat, n < Len(c)
  PROVE  /\ FlattenSeq(SubSeq(c, 1, n)) \in Seq(S) /\ c[n + 1] \in Seq(S)
         /\ FlattenSeq(SubSeq(c, 1, n + 1)) = FlattenSeq(SubSeq(c, 1, n)) \o c[n + 1]
<1> DEFINE d == SubSeq(c, 1, n)
           e == c[n + 1]
<1>1. d \in Seq(Seq(S)) /\ e \in Seq(S) /\ SubSeq(c, 1, n + 1) = Append(d, e)
  OBVIOUS
<1> HIDE DEF d, e
<1>2. FlattenSeq(d) \in Seq(S)
  BY <1>1, FlatType
<1>3. FlattenSeq(Append(d, e)) = IF d = <<>> THEN e ELSE FlattenSeq(d) \o e
  <2>1. d \in Seq(Seq(S)) /\ e \in Seq(S)
    BY <1>1
  <2> QED BY <2>1, FlatAppend
<1>4. d = <<>> => FlattenSeq(d) \o e = e
  BY <1>1, FlatEmpty
<1> QED BY <1>1, <1>2, <1>3, <1>4 DEF d, e

(* The elements of sequences, one after the other. *)
LEMMA FlatSet ==
  ASSUME NEW S, NEW c \in Seq(Seq(S))
  PROVE  ToSet(FlattenSeq(c)) = UNION {ToSet(c[k]) : k \in 1 .. Len(c)}
<1> DEFINE F(n) == FlattenSeq(SubSeq(c, 1, n))
           Good(n) == ToSet(F(n)) = UNION {ToSet(c[k]) : k \in 1 .. n}
           Bad == {n \in 0 .. Len(c) : ~Good(n)}
<1>1. SUFFICES ASSUME Bad # {} PROVE FALSE
  <2>1. Len(c) \in 0 .. Len(c) /\ SubSeq(c, 1, Len(c)) = c
    OBVIOUS
  <2>2. Good(Len(c))
    BY <1>1, <2>1
  <2> QED BY <2>1, <2>2
<1>2. PICK n \in Bad : \A m \in Bad : n <= m
  <2>1. Bad \subseteq Nat
    OBVIOUS
  <2> HIDE DEF Bad
  <2> QED BY <1>1, <2>1, HasLeast
<1>3. Good(0)
  <2>1. SubSeq(c, 1, 0) = <<>>
    OBVIOUS
  <2>2. F(0) = <<>>
    BY <2>1, FlatEmpty
  <2> HIDE DEF F
  <2> QED BY <2>2 DEF ToSet
<1>4. n # 0 /\ n - 1 \in 0 .. Len(c) /\ n - 1 < Len(c) /\ n - 1 \in Nat /\ n \in Nat
  BY <1>2, <1>3
<1>5. Good(n - 1)
  <2>1. n - 1 \notin Bad
    <3> HIDE DEF Bad
    <3> QED BY <1>2, <1>4
  <2> HIDE DEF Good
  <2> QED BY <1>4, <2>1
<1>6. F(n - 1) \in Seq(S) /\ c[n] \in Seq(S) /\ F(n) = F(n - 1) \o c[n]
  <2>1. (n - 1) + 1 = n
    BY <1>4
  <2> HIDE DEF Bad
  <2> QED BY <1>4, <2>1, FlatPrefix
<1>7. ToSet(F(n)) = ToSet(F(n - 1)) \cup ToSet(c[n])
  <2> HIDE DEF F
  <2>1. \A x, y \in Seq(S) : ToSet(x \o y) = ToSet(x) \cup ToSet(y)
    <3> SUFFICES ASSUME NEW x \in Seq(S), NEW y \in Seq(S) PROVE ToSet(x \o y) = ToSet(x) \cup ToSet(y)
      OBVIOUS
    <3>1. /\ DOMAIN x = 1 .. Len(x) /\ DOMAIN y = 1 .. Len(y) /\ Len(x) \in Nat /\ Len(y) \in Nat
          /\ DOMAIN (x \o y) = 1 .. Len(x) + Len(y)
          /\ \A i \in 1 .. Len(x) : (x \o y)[i] = x[i]
          /\ \A i \in 1 .. Len(y) : (x \o y)[Len(x) + i] = y[i]
      BY SMTT(20)
    <3>2. \A i \in 1 .. Len(x) + Len(y) : i \in 1 .. Len(x) \/ (i - Len(x) \in 1 .. Len(y) /\ i = Len(x) + (i - Len(x)))
      BY <3>1
    <3>3. \A i \in 1 .. Len(x) : i \in 1 .. Len(x) + Len(y)
      BY <3>1
    <3>4. \A i \in 1 .. Len(y) : Len(x) + i \in 1 .. Len(x) + Len(y)
      BY <3>1
    <3>5. ASSUME NEW v \in ToSet(x \o y) PROVE v \in ToSet(x) \cup ToSet(y)
      BY <3>1, <3>2 DEF ToSet
    <3>6. ASSUME NEW v \in ToSet(x) \cup ToSet(y) PROVE v \in ToSet(x \o y)
      <4>1. CASE v \in ToSet(x)
        BY <3>1, <3>3, <4>1 DEF ToSet
      <4>2. CASE v \in ToSet(y)
        BY <3>1, <3>4, <4>2 DEF ToSet
      <4> QED BY <3>6, <4>1, <4>2
    <3> QED BY <3>5, <3>6
  <2> QED BY <1>6, <2>1
<1>8. UNION {ToSet(c[k]) : k \in 1 .. n} = (UNION {ToSet(c[k]) : k \in 1 .. n - 1}) \cup ToSet(c[n])
  <2>1. 1 .. n = (1 .. n - 1) \cup {n}
    BY <1>4
  <2> QED BY <2>1
<1>9. Good(n)
  <2> HIDE DEF F, Bad
  <2> QED BY <1>5, <1>7, <1>8
<1>10. ~Good(n)
  <2> HIDE DEF Good
  <2> QED BY <1>2
<1> QED BY <1>9, <1>10

(* Of sequences that are each no shorter there are no fewer elements. *)
LEMMA FlatWider ==
  ASSUME NEW S, NEW c \in Seq(Seq(S)), NEW d \in Seq(Seq(S)), Len(c) = Len(d),
         \A k \in 1 .. Len(c) : Len(c[k]) <= Len(d[k])
  PROVE  Len(FlattenSeq(c)) <= Len(FlattenSeq(d))
<1> DEFINE F(n) == FlattenSeq(SubSeq(c, 1, n))
           G(n) == FlattenSeq(SubSeq(d, 1, n))
           Good(n) == Len(F(n)) <= Len(G(n))
           Bad == {n \in 0 .. Len(c) : ~Good(n)}
<1>1. SUFFICES ASSUME Bad # {} PROVE FALSE
  <2>1. Len(c) \in 0 .. Len(c) /\ SubSeq(c, 1, Len(c)) = c /\ SubSeq(d, 1, Len(c)) = d
    OBVIOUS
  <2>2. Good(Len(c))
    BY <1>1, <2>1
  <2> QED BY <2>1, <2>2
<1>2. PICK n \in Bad : \A m \in Bad : n <= m
  <2>1. Bad \subseteq Nat
    OBVIOUS
  <2> HIDE DEF Bad
  <2> QED BY <1>1, <2>1, HasLeast
<1>3. Good(0)
  <2>1. SubSeq(c, 1, 0) = <<>> /\ SubSeq(d, 1, 0) = <<>>
    OBVIOUS
  <2>2. F(0) = <<>> /\ G(0) = <<>>
    BY <2>1, FlatEmpty
  <2> HIDE DEF F, G
  <2> QED BY <2>2
<1>4. n # 0 /\ n - 1 \in 0 .. Len(c) /\ n - 1 < Len(c) /\ n - 1 \in Nat /\ n \in 1 .. Len(c)
  BY <1>2, <1>3
<1>5. Good(n - 1)
  <2>1. n - 1 \notin Bad
    <3> HIDE DEF Bad
    <3> QED BY <1>2, <1>4
  <2> HIDE DEF Good
  <2> QED BY <1>4, <2>1
<1>6. (n - 1) + 1 = n
  BY <1>4
<1>7. F(n - 1) \in Seq(S) /\ c[n] \in Seq(S) /\ F(n) = F(n - 1) \o c[n]
  <2> HIDE DEF Bad
  <2> QED BY <1>4, <1>6, FlatPrefix
<1>8. G(n - 1) \in Seq(S) /\ d[n] \in Seq(S) /\ G(n) = G(n - 1) \o d[n]
  <2> HIDE DEF Bad
  <2> QED BY <1>4, <1>6, FlatPrefix
<1>9. Len(c[n]) <= Len(d[n])
  BY <1>4
<1>10. ~(Len(F(n)) <= Len(G(n)))
  <2>1. ~Good(n)
    <3> HIDE DEF Good
    <3> QED BY <1>2
  <2> QED BY <2>1
<1> HIDE DEF F, G, Bad
<1>11. Len(F(n)) = Len(F(n - 1)) + Len(c[n]) /\ Len(G(n)) = Len(G(n - 1)) + Len(d[n])
  BY <1>7, <1>8, ConcatProperties
<1>12. Len(F(n - 1)) \in Nat /\ Len(c[n]) \in Nat /\ Len(G(n - 1)) \in Nat /\ Len(d[n]) \in Nat
  BY <1>7, <1>8, LenProperties
<1>13. \A x, y, z, t \in Nat : x <= y /\ z <= t => x + z <= y + t
  OBVIOUS
<1>14. Len(F(n - 1)) + Len(c[n]) <= Len(G(n - 1)) + Len(d[n])
  <2>1. Len(F(n - 1)) <= Len(G(n - 1))
    BY <1>5
  <2> HIDE DEF Good
  <2> QED BY <1>9, <1>12, <1>13, <2>1
<1> QED BY <1>10, <1>11, <1>14

LEMMA PickedIs ==
  ASSUME NEW S, NEW s \in Seq(S), NEW P \in SUBSET DOMAIN s
  PROVE  Picked(s)[P] \in Seq(S) /\ ToSet(Picked(s)[P]) = {s[k] : k \in P}
<1> DEFINE c == [k \in DOMAIN s |-> IF k \in P THEN <<s[k]>> ELSE <<>>]
<1>1. Picked(s)[P] = FlattenSeq(c)
  BY DEF Picked
<1>2. DOMAIN s = 1 .. Len(s) /\ Len(s) \in Nat /\ \A k \in DOMAIN s : s[k] \in S
  OBVIOUS
<1>3. c \in Seq(Seq(S)) /\ Len(c) = Len(s)
  <2>1. \A k \in DOMAIN s : c[k] \in Seq(S)
    BY <1>2
  <2>2. c = [k \in 1 .. Len(s) |-> c[k]]
    BY <1>2
  <2> HIDE DEF c
  <2> QED BY <1>2, <2>1, <2>2
<1>4. \A k \in 1 .. Len(s) : ToSet(c[k]) = IF k \in P THEN {s[k]} ELSE {}
  <2> SUFFICES ASSUME NEW k \in 1 .. Len(s) PROVE ToSet(c[k]) = IF k \in P THEN {s[k]} ELSE {}
    OBVIOUS
  <2>1. c[k] = IF k \in P THEN <<s[k]>> ELSE <<>>
    BY <1>2
  <2>2. DOMAIN <<s[k]>> = {1} /\ <<s[k]>>[1] = s[k] /\ DOMAIN <<>> = {}
    OBVIOUS
  <2> QED BY <2>1, <2>2 DEF ToSet
<1> HIDE DEF c
<1>5. FlattenSeq(c) \in Seq(S)
  BY <1>3, FlatType
<1>6. ToSet(FlattenSeq(c)) = UNION {ToSet(c[k]) : k \in 1 .. Len(s)}
  BY <1>3, FlatSet
<1>7. UNION {ToSet(c[k]) : k \in 1 .. Len(s)} = {s[k] : k \in P}
  <2>1. ASSUME NEW v \in UNION {ToSet(c[k]) : k \in 1 .. Len(s)} PROVE v \in {s[k] : k \in P}
    <3>1. PICK k \in 1 .. Len(s) : v \in ToSet(c[k])
      BY <2>1
    <3>2. k \in P /\ v = s[k]
      BY <1>4, <3>1
    <3> QED BY <3>2
  <2>2. ASSUME NEW v \in {s[k] : k \in P} PROVE v \in UNION {ToSet(c[k]) : k \in 1 .. Len(s)}
    <3>1. PICK k \in P : v = s[k]
      BY <2>2
    <3>2. k \in 1 .. Len(s) /\ v \in ToSet(c[k])
      BY <1>2, <1>4, <3>1
    <3> QED BY <3>2
  <2> QED BY <2>1, <2>2
<1> QED BY <1>1, <1>5, <1>6, <1>7

(* At more places there are no fewer elements. *)
LEMMA PickedGrows ==
  ASSUME NEW S, NEW s \in Seq(S), NEW P \in SUBSET DOMAIN s, NEW Q \in SUBSET DOMAIN s, P \subseteq Q
  PROVE  Len(Picked(s)[P]) <= Len(Picked(s)[Q])
<1> DEFINE c(T) == [k \in DOMAIN s |-> IF k \in T THEN <<s[k]>> ELSE <<>>]
<1>1. Picked(s)[P] = FlattenSeq(c(P)) /\ Picked(s)[Q] = FlattenSeq(c(Q))
  BY DEF Picked
<1>2. DOMAIN s = 1 .. Len(s) /\ Len(s) \in Nat /\ \A k \in DOMAIN s : s[k] \in S
  OBVIOUS
<1>3. ASSUME NEW T PROVE c(T) \in Seq(Seq(S)) /\ Len(c(T)) = Len(s)
  <2>1. \A k \in DOMAIN s : c(T)[k] \in Seq(S)
    BY <1>2
  <2>2. c(T) = [k \in 1 .. Len(s) |-> c(T)[k]]
    BY <1>2
  <2> HIDE DEF c
  <2> QED BY <1>2, <2>1, <2>2
<1>4. \A k \in 1 .. Len(s) : Len(c(P)[k]) <= Len(c(Q)[k])
  BY <1>2
<1>5. /\ c(P) \in Seq(Seq(S)) /\ Len(c(P)) = Len(s)
      /\ c(Q) \in Seq(Seq(S)) /\ Len(c(Q)) = Len(s)
  BY <1>3
<1> HIDE DEF c
<1> QED BY <1>1, <1>4, <1>5, FlatWider

(***************************************************************************)
(* Ranks: n numbers of a finite set are among its n least.                 *)
(***************************************************************************)
RankIn(R, x) == Cardinality({y \in R : y <= x})

LEMMA RanksAre ==
  ASSUME NEW R \in SUBSET Nat, IsFiniteSet(R)
  PROVE  [x \in R |-> RankIn(R, x)] \in Bijection(R, 1 .. Cardinality(R))
<1> DEFINE N == Cardinality(R)
           f == [x \in R |-> RankIn(R, x)]
           Least(x) == {y \in R : y <= x}
<1>1. N \in Nat
  BY FS_CardinalityType
<1>2. \A x \in R : IsFiniteSet(Least(x)) /\ Cardinality(Least(x)) \in Nat /\ Cardinality(Least(x)) <= N
  <2> TAKE x \in R
  <2>1. Least(x) \in SUBSET R
    OBVIOUS
  <2> HIDE DEF Least
  <2> QED BY <2>1, FS_Subset, FS_CardinalityType
<1>3. \A x \in R : Cardinality(Least(x)) # 0
  <2> TAKE x \in R
  <2>1. x \in Least(x)
    OBVIOUS
  <2> HIDE DEF Least
  <2> QED BY <1>2, <2>1, FS_EmptySet
<1>4. \A x \in R : f[x] = Cardinality(Least(x))
  BY DEF RankIn
<1>5. f \in [R -> 1 .. N]
  <2>1. \A x \in R : f[x] \in 1 .. N
    <3> HIDE DEF f, Least
    <3> QED BY <1>1, <1>2, <1>3, <1>4
  <2>2. f = [x \in R |-> f[x]]
    OBVIOUS
  <2> HIDE DEF f
  <2> QED BY <2>1, <2>2
<1>6. ASSUME NEW x \in R, NEW y \in R, x < y PROVE f[x] # f[y]
  <2>0. x \in Nat /\ y \in Nat /\ \A z \in R : z \in Nat
    OBVIOUS
  <2>1. Least(x) \in SUBSET Least(y) /\ y \in Least(y) /\ y \notin Least(x)
    <3>1. \A z \in R : z <= x => z <= y
      BY <1>6, <2>0
    <3>2. y <= y /\ ~(y <= x)
      BY <1>6, <2>0
    <3> QED BY <3>1, <3>2
  <2>2. Least(x) # Least(y)
    BY <2>1
  <2>3. IsFiniteSet(Least(y))
    BY <1>2
  <2> HIDE DEF Least
  <2>4. Cardinality(Least(x)) # Cardinality(Least(y))
    BY <2>1, <2>2, <2>3, FS_Subset
  <2> HIDE DEF f
  <2> QED BY <1>4, <2>4
<1>7. \A x, y \in R : f[x] = f[y] => x = y
  <2> HIDE DEF f
  <2>1. \A x, y \in R : x # y => x < y \/ y < x
    OBVIOUS
  <2> QED BY <1>6, <2>1
<1>8. f \in Injection(R, 1 .. N)
  <2> HIDE DEF f
  <2> QED BY <1>5, <1>7 DEF Injection, IsInjective
<1>9. IsFiniteSet(1 .. N) /\ Cardinality(1 .. N) = N
  BY <1>1, FS_Interval
<1>10. f \in Surjection(R, 1 .. N)
  <2> HIDE DEF f
  <2> QED BY <1>8, <1>9, FS_Injection
<1> HIDE DEF f
<1>11. f \in Bijection(R, 1 .. N)
  BY <1>8, <1>10 DEF Bijection
<1> QED BY <1>11 DEF f

LEMMA LowestAre ==
  ASSUME NEW R \in SUBSET Nat, IsFiniteSet(R), NEW n \in Nat
  PROVE  Cardinality({x \in R : RankIn(R, x) <= n})
           = IF n <= Cardinality(R) THEN n ELSE Cardinality(R)
<1> DEFINE N == Cardinality(R)
           f == [x \in R |-> RankIn(R, x)]
           m == IF n <= N THEN n ELSE N
           A == {x \in R : RankIn(R, x) <= n}
           g == [x \in A |-> f[x]]
<1>1. N \in Nat
  BY FS_CardinalityType
<1>2. f \in Bijection(R, 1 .. N)
  BY RanksAre
<1>3. /\ f \in [R -> 1 .. N] /\ \A x, y \in R : f[x] = f[y] => x = y
      /\ \A k \in 1 .. N : \E x \in R : f[x] = k
  <2> HIDE DEF f
  <2> QED BY <1>2 DEF Bijection, Injection, Surjection, IsInjective
<1>4. m \in Nat /\ 1 .. m = {k \in 1 .. N : k <= n}
  BY <1>1
<1>5. A = {x \in R : f[x] <= n}
  OBVIOUS
<1>6. g \in [A -> 1 .. m]
  <2> HIDE DEF f, m
  <2> QED BY <1>3, <1>4, <1>5
<1>7. \A x, y \in A : g[x] = g[y] => x = y
  <2> HIDE DEF f, m
  <2> QED BY <1>3, <1>5
<1>8. \A k \in 1 .. m : \E x \in A : g[x] = k
  <2> HIDE DEF f, m
  <2> QED BY <1>3, <1>4, <1>5
<1> HIDE DEF g, A, m
<1>9. g \in Bijection(A, 1 .. m)
  BY <1>6, <1>7, <1>8 DEF Bijection, Injection, Surjection, IsInjective
<1>10. IsFiniteSet(A) /\ IsFiniteSet(1 .. m) /\ Cardinality(1 .. m) = m
  <2>1. A \in SUBSET R
    BY <1>5
  <2>2. IsFiniteSet(A)
    BY <2>1, FS_Subset
  <2>3. IsFiniteSet(1 .. m) /\ Cardinality(1 .. m) = IF 1 > m THEN 0 ELSE m - 1 + 1
    BY <1>4, FS_Interval
  <2> QED BY <1>4, <2>2, <2>3
<1>11. Cardinality(1 .. m) = Cardinality(A)
  BY <1>9, <1>10, FS_Bijection DEF ExistsBijection
<1> QED BY <1>10, <1>11 DEF A, m

(***************************************************************************)
(* The groups to burn, oldest first: what a candidate takes of them.       *)
(***************************************************************************)
ReserveSet(s) == {r.reserve : r \in ToSet(s)}
RowsAre == rows \in Seq(ToSet(rows)) /\ \A k \in DOMAIN rows : rows[k].reserve \in Nat
Groups == Len(ReservesOf(rows))

LEMMA ReservesAre ==
  ASSUME NEW S, NEW s \in Seq(S), \A k \in DOMAIN s : s[k].reserve \in Nat
  PROVE  /\ ReserveSet(s) \in SUBSET Nat /\ IsFiniteSet(ReserveSet(s))
         /\ Cardinality(ReserveSet(s)) \in Nat
         /\ Len(ReservesOf(s)) = Cardinality(ReserveSet(s))
         /\ (ReserveSet(s) = {}) <=> (s = <<>>)
<1> DEFINE f == [k \in DOMAIN s |-> s[k].reserve]
<1>1. DOMAIN s = 1 .. Len(s) /\ Len(s) \in Nat
  OBVIOUS
<1>2. ReserveSet(s) = {s[k].reserve : k \in DOMAIN s}
  BY DEF ReserveSet, ToSet
<1>3. ReserveSet(s) \in SUBSET Nat
  BY <1>2
<1>4. IsFiniteSet(ReserveSet(s))
  <2>1. f \in Surjection(DOMAIN s, ReserveSet(s))
    BY <1>2 DEF Surjection
  <2>2. IsFiniteSet(DOMAIN s)
    <3>1. 1 \in Int /\ Len(s) \in Int
      BY <1>1
    <3>2. IsFiniteSet(1 .. Len(s))
      BY <3>1, FS_Interval
    <3> QED BY <1>1, <3>2
  <2> HIDE DEF f
  <2> QED BY <2>1, <2>2, FS_Surjection
<1>5. Cardinality(ReserveSet(s)) \in Nat
  BY <1>4, FS_CardinalityType
<1>6. Len(ReservesOf(s)) = Cardinality(ReserveSet(s))
  <2>1. ReservesOf(s) = Ascending[ReserveSet(s)]
    BY DEF ReservesOf, ReserveSet
  <2>2. DOMAIN ReservesOf(s) = 1 .. Cardinality(ReserveSet(s))
    BY <1>3, <2>1 DEF Ascending
  <2>3. ReservesOf(s) = [k \in 1 .. Cardinality(ReserveSet(s)) |-> ReservesOf(s)[k]]
    BY <1>3, <2>1 DEF Ascending
  <2> QED BY <1>5, <2>3
<1>7. (ReserveSet(s) = {}) <=> (s = <<>>)
  <2>1. ReserveSet(s) = {} => DOMAIN s = {}
    BY <1>2
  <2>2. DOMAIN s = {} <=> s = <<>>
    BY <1>1
  <2>3. DOMAIN s = {} => ReserveSet(s) = {}
    BY <1>2
  <2> QED BY <2>1, <2>2, <2>3
<1> QED BY <1>3, <1>4, <1>5, <1>6, <1>7

LEMMA GroupsAre ==
  ASSUME RowsAre, busy = {}, NEW n \in Nat
  PROVE  /\ Groups \in Nat /\ GroupsOf(n) \in Seq(ToSet(rows))
         /\ \A k \in DOMAIN GroupsOf(n) : GroupsOf(n)[k].reserve \in Nat
         /\ Len(ReservesOf(GroupsOf(n))) = IF n <= Groups THEN n ELSE Groups
         /\ (GroupsOf(n) = <<>>) <=> (n = 0 \/ Groups = 0)
<1> DEFINE R == ReserveSet(rows)
           P == {k \in DOMAIN rows : Age(rows[k].reserve) <= n}
           taken == GroupsOf(n)
<1>1. /\ R \in SUBSET Nat /\ IsFiniteSet(R) /\ Cardinality(R) \in Nat
      /\ Groups = Cardinality(R)
  BY ReservesAre DEF RowsAre, Groups
<1>2. taken = Picked(rows)[P] /\ P \in SUBSET DOMAIN rows
  BY DEF GroupsOf
<1>3. \A x : Age(x) = RankIn(R, x)
  BY DEF Age, RankIn, ReserveSet
<1>4. taken \in Seq(ToSet(rows)) /\ ToSet(taken) = {rows[k] : k \in P}
  <2> HIDE DEF P, taken
  <2> QED BY <1>2, PickedIs, ZenonT(40) DEF RowsAre
<1>5. \A k \in DOMAIN taken : taken[k] \in ToSet(taken) /\ taken[k].reserve \in Nat
  <2> HIDE DEF taken
  <2> QED BY <1>2, <1>4 DEF ToSet, RowsAre
<1>6. R = {rows[k].reserve : k \in DOMAIN rows}
  BY DEF ReserveSet, ToSet
<1>7. ReserveSet(taken) = {x \in R : RankIn(R, x) <= n}
  <2>1. ReserveSet(taken) = {rows[k].reserve : k \in P}
    <3> HIDE DEF P, taken
    <3> QED BY <1>4 DEF ReserveSet
  <2>2. P = {k \in DOMAIN rows : RankIn(R, rows[k].reserve) <= n}
    BY <1>3
  <2> HIDE DEF P, taken, R
  <2> QED BY <1>6, <2>1, <2>2
<1>8. Cardinality(ReserveSet(taken)) = IF n <= Groups THEN n ELSE Groups
  <2> HIDE DEF R, taken
  <2> QED BY <1>1, <1>7, LowestAre
<1>9. /\ Len(ReservesOf(taken)) = Cardinality(ReserveSet(taken))
      /\ (ReserveSet(taken) = {}) <=> (taken = <<>>)
      /\ IsFiniteSet(ReserveSet(taken))
  <2> HIDE DEF taken
  <2> QED BY <1>4, <1>5, ReservesAre
<1>10. (ReserveSet(taken) = {}) <=> (Cardinality(ReserveSet(taken)) = 0)
  BY <1>9, FS_EmptySet
<1> HIDE DEF R, P, taken
<1>11. (taken = <<>>) <=> (n = 0 \/ Groups = 0)
  BY <1>1, <1>8, <1>9, <1>10
<1> QED BY <1>1, <1>4, <1>5, <1>8, <1>9, <1>11 DEF taken

(* Past the last group there is no other. *)
LEMMA GroupsEnd ==
  ASSUME RowsAre, NEW n \in Nat, Groups <= n
  PROVE  GroupsOf(n) = GroupsOf(Groups)
<1> DEFINE R == ReserveSet(rows)
<1>1. /\ R \in SUBSET Nat /\ IsFiniteSet(R) /\ Cardinality(R) \in Nat
      /\ Groups = Cardinality(R)
  BY ReservesAre DEF RowsAre, Groups
<1>2. \A k \in DOMAIN rows : rows[k].reserve \in R
  BY DEF ReserveSet, ToSet
<1>3. \A x : Age(x) = RankIn(R, x)
  BY DEF Age, RankIn, ReserveSet
<1> HIDE DEF R
<1>4. \A x \in R : RankIn(R, x) \in 1 .. Groups
  BY <1>1, RanksAre DEF Bijection, Injection
<1>5. \A k \in DOMAIN rows : Age(rows[k].reserve) <= n /\ Age(rows[k].reserve) <= Groups
  BY <1>1, <1>2, <1>3, <1>4
<1> QED BY <1>5 DEF GroupsOf

LEMMA BurnGrows ==
  ASSUME RowsAre, busy = {}, NEW n \in Nat, NEW m \in 0 .. n
  PROVE  /\ BurnWeight(GroupsOf(m)) \in Nat
         /\ BurnWeight(GroupsOf(m)) <= BurnWeight(GroupsOf(n))
<1> DEFINE P(i) == {k \in DOMAIN rows : Age(rows[k].reserve) <= i}
           W(i) == Len(ReservesOf(GroupsOf(i)))
           L(i) == Len(GroupsOf(i))
<1>1. \A i \in Nat : GroupsOf(i) = Picked(rows)[P(i)] /\ P(i) \in SUBSET DOMAIN rows
  BY DEF GroupsOf
<1>2. P(m) \subseteq P(n)
  <2>1. \A k \in DOMAIN rows : Age(rows[k].reserve) \in Nat
    <3> TAKE k \in DOMAIN rows
    <3> DEFINE R == ReserveSet(rows)
               T == {x \in R : x <= rows[k].reserve}
    <3>1. IsFiniteSet(R)
      BY ReservesAre DEF RowsAre
    <3>2. T \in SUBSET R
      OBVIOUS
    <3>3. Age(rows[k].reserve) = Cardinality(T)
      BY DEF Age, ReserveSet
    <3> HIDE DEF T, R
    <3> QED BY <3>1, <3>2, <3>3, FS_Subset, FS_CardinalityType
  <2> QED BY <2>1
<1>3. L(m) <= L(n)
  <2> HIDE DEF P
  <2>1. m \in Nat
    OBVIOUS
  <2> QED BY <1>1, <1>2, <2>1, PickedGrows DEF RowsAre
<1>4. /\ L(m) \in Nat /\ L(n) \in Nat /\ W(m) \in Nat /\ W(n) \in Nat /\ W(m) <= W(n)
  <2>1. m \in Nat
    OBVIOUS
  <2>2. GroupsOf(m) \in Seq(ToSet(rows)) /\ GroupsOf(n) \in Seq(ToSet(rows))
    BY <2>1, GroupsAre
  <2>3. L(m) \in Nat /\ L(n) \in Nat
    BY <2>2, LenProperties
  <2>4. /\ W(m) = IF m <= Groups THEN m ELSE Groups
        /\ W(n) = IF n <= Groups THEN n ELSE Groups
        /\ Groups \in Nat
    BY <2>1, GroupsAre
  <2> HIDE DEF L, W
  <2> QED BY <2>3, <2>4
<1> HIDE DEF L, W
<1>5. BaseWeight \in Nat /\ AccountWeight \in Nat /\ ItemWeight + 1 \in Nat
  BY WeightAssumption
<1>6. \A a, b, w \in Nat : a <= b => w * a \in Nat /\ w * b \in Nat /\ w * a <= w * b
  BY TimesGrows
<1>7. /\ BurnWeight(GroupsOf(m)) = BaseWeight + AccountWeight * W(m) + (ItemWeight + 1) * L(m)
      /\ BurnWeight(GroupsOf(n)) = BaseWeight + AccountWeight * W(n) + (ItemWeight + 1) * L(n)
  BY DEF BurnWeight, W, L
<1>8. /\ AccountWeight * W(m) \in Nat /\ AccountWeight * W(n) \in Nat
      /\ AccountWeight * W(m) <= AccountWeight * W(n)
  BY <1>4, <1>5, <1>6
<1>9. /\ (ItemWeight + 1) * L(m) \in Nat /\ (ItemWeight + 1) * L(n) \in Nat
      /\ (ItemWeight + 1) * L(m) <= (ItemWeight + 1) * L(n)
  BY <1>3, <1>4, <1>5, <1>6 DEF L
<1> DEFINE a == AccountWeight * W(m)
           b == AccountWeight * W(n)
           c == (ItemWeight + 1) * L(m)
           d == (ItemWeight + 1) * L(n)
<1>10. BaseWeight + a + c \in Nat /\ BaseWeight + a + c <= BaseWeight + b + d
  <2>1. a \in Nat /\ b \in Nat /\ c \in Nat /\ d \in Nat /\ a <= b /\ c <= d
    BY <1>8, <1>9
  <2> HIDE DEF a, b, c, d
  <2> QED BY <1>5, <2>1
<1> QED BY <1>7, <1>10

(* The limits that are out of bounds for a burn. *)
TooHeavy(n) ==
  \/ BurnWeight(GroupsOf(n)) > LaneWeight
  \/ \E m \in 1 .. n : ~Covered(utxo, GroupsOf(m))

SearchingBurn ==
  pc = "burn" /\ busy = {} =>
    /\ BoundsHold
    /\ Len(ReservesOf(search.best)) = search.lo - 1
    /\ \A n \in search.hi + 1 .. MaxLimit : n <= Groups => TooHeavy(n)

BurnChosen ==
  pc = "fire" /\ busy = {} =>
    \A n \in 1 .. MaxLimit :
      n <= Groups /\ n > Len(ReservesOf(search.best)) => TooHeavy(n)

(* With one group more it is no less. *)
LEMMA TooHeavyGrows ==
  ASSUME RowsAre, busy = {}, NEW n \in Nat, NEW m \in 0 .. n, TooHeavy(m)
  PROVE  TooHeavy(n)
<1>1. LaneWeight \in Nat
  BY LimitAssumption, EyesAssumption DEF LaneWeight
<1>2. CASE BurnWeight(GroupsOf(m)) > LaneWeight
  <2>1. n \in 0 .. n
    OBVIOUS
  <2>2. /\ BurnWeight(GroupsOf(m)) \in Nat /\ BurnWeight(GroupsOf(n)) \in Nat
        /\ BurnWeight(GroupsOf(m)) <= BurnWeight(GroupsOf(n))
    BY <2>1, BurnGrows
  <2>3. BurnWeight(GroupsOf(n)) > LaneWeight
    BY <1>1, <1>2, <2>2
  <2> QED BY <2>3 DEF TooHeavy
<1>3. CASE \E k \in 1 .. m : ~Covered(utxo, GroupsOf(k))
  <2>1. \A k \in 1 .. m : k \in 1 .. n
    OBVIOUS
  <2> QED BY <1>3, <2>1 DEF TooHeavy
<1> QED BY <1>2, <1>3 DEF TooHeavy

LEMMA ChooseBurnStep ==
  ASSUME RowsAre, busy = {}, SearchingBurn, ChooseBurn
  PROVE  SearchingBurn' /\ BurnChosen'
<1> DEFINE lo == search.lo
           hi == search.hi
           lim == search.lim
           taken == GroupsOf(lim)
           count == Len(ReservesOf(taken))
           w == BurnWeight(taken)
<1> SUFFICES ASSUME pc' # "trapped" PROVE SearchingBurn' /\ BurnChosen'
  BY DEF SearchingBurn, BurnChosen
<1>1. pc = "burn" /\ busy' = busy /\ rows' = rows /\ utxo' = utxo
  BY DEF ChooseBurn
<1>2. /\ search = [lo |-> lo, hi |-> hi, lim |-> lim, best |-> search.best]
      /\ lo \in Nat \ {0} /\ lim \in Nat \ {0} /\ hi \in Nat
      /\ lo <= lim /\ lim <= hi /\ hi <= MaxLimit
      /\ Len(ReservesOf(search.best)) = lo - 1
      /\ \A n \in hi + 1 .. MaxLimit : n <= Groups => TooHeavy(n)
  BY <1>1 DEF SearchingBurn, BoundsHold
<1>3. MaxLimit \in Nat \ {0} /\ Groups \in Nat /\ LaneWeight \in Nat
  <2>1. Groups \in Nat
    BY <1>2, GroupsAre
  <2> QED BY <2>1, LimitAssumption, EyesAssumption DEF LaneWeight
<1>4. /\ count = IF lim <= Groups THEN lim ELSE Groups
      /\ (taken = <<>>) <=> Groups = 0
  BY <1>2, GroupsAre
<1>5. count \in Nat /\ count <= lim /\ count <= Groups
  <2> HIDE DEF count, lim
  <2> QED BY <1>2, <1>3, <1>4
<1>6. taken = GroupsOf(count)
  <2>1. CASE lim <= Groups
    BY <1>4, <2>1
  <2>2. CASE ~(lim <= Groups)
    <3>1. Groups <= lim /\ lim \in Nat
      BY <1>2, <1>3, <2>2
    <3>2. count = Groups
      BY <1>4, <2>2
    <3> QED BY <3>1, <3>2, GroupsEnd
  <2> QED BY <2>1, <2>2
<1>7. /\ Groups' = Groups
      /\ \A n : GroupsOf(n)' = GroupsOf(n)
      /\ \A n : TooHeavy(n)' <=> TooHeavy(n)
  BY <1>1 DEF Groups, GroupsOf, Age, TooHeavy
<1> HIDE DEF count, taken, w
<1>8. CASE taken = <<>> /\ pc' \in {"live", "fire"} /\ UNCHANGED search
  <2>1. Groups = 0
    BY <1>4, <1>8
  <2>2. \A n \in 1 .. MaxLimit : ~(n <= Groups')
    BY <1>3, <1>7, <2>1
  <2> QED BY <1>8, <2>2 DEF SearchingBurn, BurnChosen
<1>9. CASE ~Covered(utxo, taken) /\ lim > 1 /\ Narrow(lo, lim - 1, search.best, "fire")
  <2>1. TooHeavy(lim)
    <3>1. lim \in 1 .. lim
      BY <1>2
    <3> QED BY <1>9, <3>1 DEF TooHeavy, taken
  <2>2. ASSUME NEW n \in lim .. MaxLimit PROVE TooHeavy(n)
    <3>1. n \in Nat /\ lim \in 0 .. n
      BY <1>2, <1>3
    <3> QED BY <2>1, <3>1, TooHeavyGrows
  <2>3. CASE lo <= lim - 1
    <3> DEFINE mid == lo + ((lim - 1) - lo) \div 2
    <3>1. /\ search' = [lo |-> lo, hi |-> lim - 1, best |-> search.best, lim |-> mid]
          /\ pc' = pc
      BY <1>9, <2>3 DEF Narrow
    <3>2. mid \in lo .. lim - 1
      <4>1. lo \in Nat /\ lim - 1 \in Nat
        BY <1>2
      <4> QED BY <2>3, <4>1, Middle
    <3>3. BoundsHold'
      <4> HIDE DEF mid
      <4> QED BY <1>2, <1>3, <3>1, <3>2 DEF BoundsHold
    <3>4. search'.hi + 1 = lim /\ search'.lo = lo /\ search'.best = search.best
      BY <1>2, <3>1
    <3>5. \A n \in search'.hi + 1 .. MaxLimit : n <= Groups' => TooHeavy(n)'
      BY <1>7, <2>2, <3>4
    <3>6. Len(ReservesOf(search'.best)) = search'.lo - 1
      BY <1>2, <3>4
    <3>7. SearchingBurn'
      BY <3>3, <3>5, <3>6 DEF SearchingBurn
    <3> QED BY <1>1, <3>1, <3>7 DEF BurnChosen
  <2>4. CASE ~(lo <= lim - 1)
    <3>1. pc' = "fire" /\ search'.best = search.best
      BY <1>2, <1>9, <2>4 DEF Narrow
    <3>2. \A n \in 1 .. MaxLimit : n > lo - 1 => n \in lim .. MaxLimit
      BY <1>2, <1>3, <2>4
    <3>3. \A n \in 1 .. MaxLimit :
            n <= Groups' /\ n > Len(ReservesOf(search'.best)) => TooHeavy(n)'
      BY <1>2, <1>7, <2>2, <3>1, <3>2
    <3> QED BY <3>1, <3>3 DEF SearchingBurn, BurnChosen
  <2> QED BY <2>3, <2>4
<1>10. CASE pc' = "live" /\ UNCHANGED search
  BY <1>10 DEF SearchingBurn, BurnChosen
(* Once taken is too heavy, so is what takes count groups or more. *)
<1>11. ASSUME w > LaneWeight, NEW n \in Nat, count <= n PROVE TooHeavy(n)
  <2>1. TooHeavy(count)
    BY <1>6, <1>11 DEF TooHeavy, w
  <2>2. count \in 0 .. n
    BY <1>5, <1>11
  <2> QED BY <2>1, <2>2, TooHeavyGrows
<1>12. CASE count = 1 /\ w > LaneWeight /\ Settle(taken, "fire")
  <2>1. search'.best = taken /\ pc' \in {"done", "fire"}
    BY <1>2, <1>12 DEF Settle
  <2>2. Len(ReservesOf(search'.best)) = count
    BY <2>1 DEF count
  <2>3. \A n \in 1 .. MaxLimit : n \in Nat /\ (n > count => count <= n)
    BY <1>5
  <2>4. \A n \in 1 .. MaxLimit :
          n <= Groups' /\ n > Len(ReservesOf(search'.best)) => TooHeavy(n)'
    BY <1>7, <1>11, <1>12, <2>2, <2>3
  <2> QED BY <2>1, <2>4 DEF SearchingBurn, BurnChosen
<1>13. CASE taken # <<>> /\ ~(count = 1 /\ w > LaneWeight) /\ Weigh(taken, count, w, "fire")
  <2>1. count # 0
    BY <1>2, <1>3, <1>4, <1>13
  <2>2. CASE w <= LaneWeight /\ (count < lim \/ lim = MaxLimit) /\ Settle(taken, "fire")
    <3>1. pc' = "fire" /\ search'.best = taken
      BY <1>2, <1>13, <2>2 DEF Settle
    <3>2. Len(ReservesOf(search'.best)) = count
      BY <3>1 DEF count
    <3>3. \A n \in 1 .. MaxLimit : ~(n <= Groups /\ n > count)
      BY <1>2, <1>3, <1>4, <2>2
    <3> QED BY <1>7, <3>1, <3>2, <3>3 DEF SearchingBurn, BurnChosen
  <2>3. CASE w <= LaneWeight /\ ~(count < lim \/ lim = MaxLimit)
             /\ Narrow(count + 1, hi, taken, "fire")
    <3>1. count = lim
      BY <1>2, <1>5, <2>3
    <3>2. CASE count + 1 <= hi
      <4> DEFINE mid == (count + 1) + (hi - (count + 1)) \div 2
      <4>1. /\ search' = [lo |-> count + 1, hi |-> hi, best |-> taken, lim |-> mid]
            /\ pc' = pc
        BY <2>3, <3>2 DEF Narrow
      <4>2. mid \in count + 1 .. hi
        <5>1. count + 1 \in Nat /\ hi \in Nat
          BY <1>2, <1>5
        <5> QED BY <3>2, <5>1, Middle
      <4>3. BoundsHold'
        <5> HIDE DEF mid
        <5> QED BY <1>2, <1>3, <1>5, <4>1, <4>2 DEF BoundsHold
      <4>4. search'.hi = hi /\ search'.lo - 1 = count /\ search'.best = taken
        BY <1>5, <4>1
      <4>5. Len(ReservesOf(search'.best)) = search'.lo - 1
        BY <4>4 DEF count
      <4>6. \A n \in search'.hi + 1 .. MaxLimit : n <= Groups' => TooHeavy(n)'
        BY <1>2, <1>7, <4>4
      <4>7. SearchingBurn'
        BY <4>3, <4>5, <4>6 DEF SearchingBurn
      <4> QED BY <1>1, <4>1, <4>7 DEF BurnChosen
    <3>3. CASE ~(count + 1 <= hi)
      <4>1. pc' = "fire" /\ search'.best = taken
        BY <1>2, <2>3, <3>3 DEF Narrow
      <4>2. Len(ReservesOf(search'.best)) = count
        BY <4>1 DEF count
      <4>3. \A n \in 1 .. MaxLimit : n > count => n \in hi + 1 .. MaxLimit
        BY <1>2, <1>3, <3>1, <3>3
      <4>4. \A n \in 1 .. MaxLimit :
              n <= Groups' /\ n > Len(ReservesOf(search'.best)) => TooHeavy(n)'
        BY <1>2, <1>7, <4>2, <4>3
      <4> QED BY <4>1, <4>4 DEF SearchingBurn, BurnChosen
    <3> QED BY <3>2, <3>3
  <2>4. CASE w > LaneWeight /\ Narrow(lo, count - 1, search.best, "fire")
    <3>1. count - 1 \in Nat /\ count - 1 <= MaxLimit
      BY <1>2, <1>3, <1>5, <2>1
    <3>2. \A n \in count .. MaxLimit : TooHeavy(n)
      <4> TAKE n \in count .. MaxLimit
      <4>1. n \in Nat /\ count <= n
        BY <1>3, <1>5
      <4> QED BY <1>11, <2>4, <4>1
    <3>3. CASE lo <= count - 1
      <4> DEFINE mid == lo + ((count - 1) - lo) \div 2
      <4>1. /\ search' = [lo |-> lo, hi |-> count - 1, best |-> search.best, lim |-> mid]
            /\ pc' = pc
        BY <2>4, <3>3 DEF Narrow
      <4>2. mid \in lo .. count - 1
        BY <1>2, <3>1, <3>3, Middle
      <4>3. BoundsHold'
        <5> HIDE DEF mid
        <5> QED BY <1>2, <3>1, <4>1, <4>2 DEF BoundsHold
      <4>4. search'.hi + 1 = count /\ search'.lo = lo /\ search'.best = search.best
        BY <1>5, <4>1
      <4>5. \A n \in search'.hi + 1 .. MaxLimit : n <= Groups' => TooHeavy(n)'
        BY <1>7, <3>2, <4>4
      <4>6. Len(ReservesOf(search'.best)) = search'.lo - 1
        BY <1>2, <4>4
      <4>7. SearchingBurn'
        BY <4>3, <4>5, <4>6 DEF SearchingBurn
      <4> QED BY <1>1, <4>1, <4>7 DEF BurnChosen
    <3>4. CASE ~(lo <= count - 1)
      <4>1. pc' = "fire" /\ search'.best = search.best
        BY <1>2, <2>4, <3>4 DEF Narrow
      <4>2. \A n \in 1 .. MaxLimit : n > lo - 1 => n \in count .. MaxLimit
        BY <1>2, <1>3, <1>5, <3>4
      <4>3. \A n \in 1 .. MaxLimit :
              n <= Groups' /\ n > Len(ReservesOf(search'.best)) => TooHeavy(n)'
        BY <1>2, <1>7, <3>2, <4>1, <4>2
      <4> QED BY <4>1, <4>3 DEF SearchingBurn, BurnChosen
    <3> QED BY <3>3, <3>4
  <2>5. \/ w <= LaneWeight /\ (count < lim \/ lim = MaxLimit) /\ Settle(taken, "fire")
        \/ w <= LaneWeight /\ ~(count < lim \/ lim = MaxLimit)
           /\ Narrow(count + 1, hi, taken, "fire")
        \/ w > LaneWeight /\ Narrow(lo, count - 1, search.best, "fire")
    BY <1>13 DEF Weigh, Below
  <2> QED BY <2>2, <2>3, <2>4, <2>5
<1>14. \/ taken = <<>> /\ pc' \in {"live", "fire"} /\ UNCHANGED search
       \/ ~Covered(utxo, taken) /\ lim > 1 /\ Narrow(lo, lim - 1, search.best, "fire")
       \/ pc' = "live" /\ UNCHANGED search
       \/ count = 1 /\ w > LaneWeight /\ Settle(taken, "fire")
       \/ taken # <<>> /\ ~(count = 1 /\ w > LaneWeight) /\ Weigh(taken, count, w, "fire")
  BY DEF ChooseBurn, taken, count, w
<1> QED BY <1>8, <1>9, <1>10, <1>12, <1>13, <1>14

(***************************************************************************)
(* The invariant.                                                          *)
(***************************************************************************)
RoundsInv ==
  /\ pending \in Seq(Batches) /\ RowsAre
  /\ Searching /\ Chosen /\ SearchingBurn /\ BurnChosen
  /\ pc = "sign" => search.best \in Seq(Batches)

(* What is read from an issuance is a sequence of rows. *)
LEMMA RowsRead ==
  ASSUME NEW t, Readable(t)
  PROVE  Rows(t) \in Seq(ToSet(Rows(t))) /\ \A k \in DOMAIN Rows(t) : Rows(t)[k].reserve \in Nat
<1> DEFINE ds == t.outputs[CHOOSE k \in DescribingOutputs(t) : TRUE].to[2]
<1>1. Len(ds) \in 1 .. MaxItems /\ \A k \in 1 .. Len(ds) : ds[k].reserve \in 1 .. Len(t.outputs)
  BY ZenonT(40) DEF Readable
<1> DEFINE RowAt(k) ==
      [out |-> ds[k].out, kind |-> KindOf(ds[k]), owner |-> ds[k].owner,
       signer |-> ds[k].signer, reserve |-> ds[k].reserve,
       amount |-> t.outputs[ds[k].out].amount]
<1>2. Rows(t) = [k \in 1 .. Len(ds) |-> RowAt(k)]
  BY DEF Rows
<1>3. \A k \in 1 .. Len(ds) : RowAt(k).reserve \in Nat
  <2>1. \A k : RowAt(k).reserve = ds[k].reserve
    OBVIOUS
  <2>2. \A b, x : x \in 1 .. b => x \in Nat
    OBVIOUS
  <2> HIDE DEF RowAt, ds
  <2> QED BY <1>1, <2>1, <2>2
<1> HIDE DEF RowAt, ds
<1>4. Len(ds) \in Nat
  BY <1>1, WeightAssumption
<1>5. \A s, n : n \in Nat /\ s = [k \in 1 .. n |-> RowAt(k)] => s \in Seq(ToSet(s))
  <2> SUFFICES ASSUME NEW s, NEW n \in Nat, s = [k \in 1 .. n |-> RowAt(k)] PROVE s \in Seq(ToSet(s))
    OBVIOUS
  <2>1. DOMAIN s = 1 .. n /\ s = [k \in 1 .. n |-> s[k]] /\ \A k \in 1 .. n : s[k] \in ToSet(s)
    BY DEF ToSet
  <2> QED BY <2>1
<1> QED BY <1>2, <1>3, <1>4, <1>5, ZenonT(40)

(* And so is what is left of them. *)
LEMMA RowsLeft ==
  ASSUME RowsAre, NEW P \in SUBSET DOMAIN rows, NEW s, s = Picked(rows)[P]
  PROVE  s \in Seq(ToSet(s)) /\ \A k \in DOMAIN s : s[k].reserve \in Nat
<1>1. s \in Seq(ToSet(rows)) /\ ToSet(s) = {rows[k] : k \in P}
  <2>1. rows \in Seq(ToSet(rows))
    BY DEF RowsAre
  <2>2. Picked(rows)[P] \in Seq(ToSet(rows)) /\ ToSet(Picked(rows)[P]) = {rows[k] : k \in P}
    BY <2>1, PickedIs, ZenonT(40)
  <2> QED BY <2>2
<1>2. DOMAIN s = 1 .. Len(s) /\ Len(s) \in Nat /\ \A k \in DOMAIN s : s[k] \in ToSet(s)
  BY <1>1 DEF ToSet
<1>3. s \in Seq(ToSet(s))
  BY <1>1, <1>2
<1> QED BY <1>1, <1>2, <1>3 DEF RowsAre

LEMMA NothingReserved == Len(ReservesOf(<<>>)) = 0
<1>1. <<>> \in Seq({}) /\ \A k \in DOMAIN <<>> : <<>>[k].reserve \in Nat
  OBVIOUS
<1>2. Len(ReservesOf(<<>>)) = Cardinality(ReserveSet(<<>>)) /\ ReserveSet(<<>>) = {}
  BY <1>1, ReservesAre
<1> QED BY <1>2, FS_EmptySet

LEMMA RoundsInit == InitRounds => RoundsInv
<1> SUFFICES ASSUME InitRounds PROVE RoundsInv
  OBVIOUS
<1>1. pc = "choose" /\ pending \in Seq(Batches) /\ rows = <<>> /\ search = Fresh
  BY QueueAssumption DEF InitRounds
<1>2. MaxLimit \in Nat \ {0} /\ Len(pending) \in Nat /\ SubSeq(pending, 1, 0) = <<>>
  BY <1>1, LimitAssumption
<1>3. BoundsHold
  BY <1>1, <1>2 DEF BoundsHold, Fresh
<1>4. search.lo = 1 /\ search.hi = MaxLimit /\ search.best = <<>>
  BY <1>1 DEF Fresh
<1>5. Searching
  BY <1>1, <1>2, <1>3, <1>4 DEF Searching
<1>6. RowsAre
  BY <1>1 DEF RowsAre
<1> QED BY <1>1, <1>5, <1>6 DEF RoundsInv, Chosen, SearchingBurn, BurnChosen

LEMMA RoundsStep ==
  ASSUME RoundsInv, [NextRounds]_roundsVars
  PROVE  RoundsInv'
<1>1. pending \in Seq(Batches) /\ RowsAre
  BY DEF RoundsInv
<1>2. CASE Choose
  <2>1. /\ pending' \in Seq(Batches) /\ Searching' /\ Chosen'
        /\ pc' \in {"choose", "propose", "done", "trapped"}
    BY <1>2, ChooseStep DEF RoundsInv
  <2>2. RowsAre'
    BY <1>1, <1>2 DEF Choose, RowsAre
  <2> QED BY <2>1, <2>2 DEF RoundsInv, SearchingBurn, BurnChosen
<1>3. CASE Propose
  <2>1. pc = "propose" /\ search.best \in Seq(Batches)
    BY <1>3 DEF Propose, RoundsInv, Chosen
  <2>2. pc' = "sign" /\ UNCHANGED <<pending, search, rows>>
    BY <1>3 DEF Propose
  <2> QED BY <1>1, <2>1, <2>2 DEF RoundsInv, RowsAre, Searching, Chosen, SearchingBurn, BurnChosen
<1>4. ASSUME NEW clock \in Clocks, Sign(clock) PROVE RoundsInv'
  <2>1. search.best \in Seq(Batches) /\ UNCHANGED <<search, rows>> /\ pc' \in {"signed", "refused"}
    BY <1>4 DEF Sign, RoundsInv
  <2>2. pending' = pending \/ pending' = SubSeq(pending, Len(search.best) + 1, Len(pending))
    BY <1>4 DEF Sign
  <2>3. SubSeq(pending, Len(search.best) + 1, Len(pending)) \in Seq(Batches)
    <3>1. Len(search.best) \in Nat /\ Len(pending) \in Nat
      BY <1>1, <2>1
    <3>2. \A i \in 1 .. Len(pending) : pending[i] \in Batches
      BY <1>1
    <3>3. \A i \in Len(search.best) + 1 .. Len(pending) : pending[i] \in Batches
      BY <3>1, <3>2
    <3> QED BY <3>1, <3>3, SubSeqProperties
  <2>4. pending' \in Seq(Batches)
    BY <1>1, <2>2, <2>3
  <2> QED BY <1>1, <2>1, <2>4 DEF RoundsInv, RowsAre, Searching, Chosen, SearchingBurn, BurnChosen
<1>5. CASE IndexIssuance
  <2>1. pc' \in {"live", "stopped"} /\ pending' = pending
    BY <1>5 DEF IndexIssuance
  <2>2. \/ Readable(tx) /\ rows' = Rows(tx)
        \/ rows' = rows
    BY <1>5 DEF IndexIssuance
  <2>3. RowsAre'
    BY <1>1, <2>2, RowsRead DEF RowsAre
  <2> QED BY <1>1, <2>1, <2>3 DEF RoundsInv, Searching, Chosen, SearchingBurn, BurnChosen
<1>6. ASSUME NEW spent, NEW taken, Expire(spent, taken) PROVE RoundsInv'
  <2>1. /\ pc' \in {"done", "burn"} /\ pending' = pending /\ search' = Fresh
        /\ rows' = Picked(rows)[{k \in DOMAIN rows : rows[k].out \notin spent}]
    BY <1>6 DEF Expire
  <2>2. RowsAre'
    <3> DEFINE P == {k \in DOMAIN rows : rows[k].out \notin spent}
    <3>1. P \in SUBSET DOMAIN rows /\ rows' = Picked(rows)[P]
      BY <2>1
    <3> HIDE DEF P
    <3> QED BY <1>1, <3>1, RowsLeft DEF RowsAre
  <2>3. MaxLimit \in Nat \ {0}
    BY LimitAssumption
  <2>4. BoundsHold'
    BY <2>1, <2>3 DEF BoundsHold, Fresh
  <2>5. search'.lo = 1 /\ search'.hi = MaxLimit /\ search'.best = <<>>
    BY <2>1 DEF Fresh
  <2>6. Len(ReservesOf(search'.best)) = search'.lo - 1
    BY <2>5, NothingReserved
  <2>7. SearchingBurn'
    BY <2>3, <2>4, <2>5, <2>6 DEF SearchingBurn
  <2> QED BY <1>1, <2>1, <2>2, <2>7 DEF RoundsInv, Searching, Chosen, BurnChosen
<1>7. CASE ChooseBurn
  <2>1. UNCHANGED <<pending, rows, busy>> /\ pc = "burn"
    BY <1>7 DEF ChooseBurn
  <2>2. pc' \in {"burn", "live", "fire", "done", "trapped"}
    BY <1>7 DEF ChooseBurn, Narrow, Settle, Weigh
  <2>3. SearchingBurn' /\ BurnChosen'
    <3>1. CASE busy = {}
      BY <1>1, <1>7, <3>1, ChooseBurnStep DEF RoundsInv
    <3>2. CASE busy # {}
      BY <2>1, <3>2 DEF SearchingBurn, BurnChosen
    <3> QED BY <3>1, <3>2
  <2> QED BY <1>1, <2>1, <2>2, <2>3 DEF RoundsInv, RowsAre, Searching, Chosen
<1>8. CASE Fire \/ SignBurn
  <2>1. UNCHANGED <<pending, rows>> /\ pc' \in {"sign burn", "burned", "live"}
    BY <1>8 DEF Fire, SignBurn
  <2> QED BY <1>1, <2>1 DEF RoundsInv, RowsAre, Searching, Chosen, SearchingBurn, BurnChosen
<1>9. CASE Burned
  <2> DEFINE spent == {tx.inputs[k].from : k \in DOMAIN tx.inputs}
             P == {k \in DOMAIN rows : <<"out", rows[k].out>> \notin spent}
  <2>1. pc' \in {"done", "live"} /\ pending' = pending /\ rows' = Picked(rows)[P]
    BY <1>9 DEF Burned
  <2>2. P \in SUBSET DOMAIN rows
    OBVIOUS
  <2> HIDE DEF P
  <2>3. RowsAre'
    BY <1>1, <2>1, <2>2, RowsLeft DEF RowsAre
  <2> QED BY <1>1, <2>1, <2>3 DEF RoundsInv, Searching, Chosen, SearchingBurn, BurnChosen
<1>10. ASSUME NEW t, LayOutOtherwise(t) PROVE RoundsInv'
  <2>1. UNCHANGED <<pc, pending, search, rows>> /\ pc \in {"sign", "sign burn"}
    BY <1>10 DEF LayOutOtherwise
  <2> QED BY <1>1, <2>1 DEF RoundsInv, RowsAre, Searching, Chosen, SearchingBurn, BurnChosen
<1>11. CASE UNCHANGED roundsVars
  <2>1. UNCHANGED <<pc, pending, search, rows, utxo, busy>>
    BY <1>11 DEF roundsVars
  <2>2. /\ Searching' <=> Searching
        /\ Chosen' <=> Chosen
    BY <2>1 DEF Searching, Chosen, BoundsHold
  <2>3. \A n : GroupsOf(n)' = GroupsOf(n)
    BY <2>1 DEF GroupsOf, Age
  <2>4. Groups' = Groups /\ \A n : TooHeavy(n)' <=> TooHeavy(n)
    BY <2>1, <2>3 DEF Groups, TooHeavy
  <2>5. /\ SearchingBurn' <=> SearchingBurn
        /\ BurnChosen' <=> BurnChosen
    BY <2>1, <2>4 DEF SearchingBurn, BurnChosen, BoundsHold
  <2> QED BY <1>1, <2>1, <2>2, <2>5 DEF RoundsInv, RowsAre
<1> QED BY <1>2, <1>3, <1>4, <1>5, <1>6, <1>7, <1>8, <1>9, <1>10, <1>11 DEF NextRounds, Round

(* Only a build that checks for overflow is trapped. *)
Untrapped == pc # "trapped"

LEMMA NeverTrapped ==
  ASSUME ~Checked, Untrapped, [NextRounds]_roundsVars
  PROVE  Untrapped'
<1> USE DEF Untrapped
<1>1. CASE Choose
  BY <1>1 DEF Choose, Weigh, Narrow, Settle
<1>2. CASE ChooseBurn
  BY <1>2 DEF ChooseBurn, Weigh, Narrow, Settle
<1>3. CASE Propose \/ IndexIssuance \/ Fire \/ SignBurn \/ Burned
  BY <1>3 DEF Propose, IndexIssuance, Fire, SignBurn, Burned
<1>4. ASSUME NEW clock \in Clocks, Sign(clock) PROVE Untrapped'
  BY <1>4 DEF Sign
<1>5. ASSUME NEW spent, NEW taken, Expire(spent, taken) PROVE Untrapped'
  BY <1>5 DEF Expire
<1>6. ASSUME NEW t, LayOutOtherwise(t) PROVE Untrapped'
  BY <1>6 DEF LayOutOtherwise
<1> QED BY <1>1, <1>2, <1>3, <1>4, <1>5, <1>6 DEF NextRounds, Round, roundsVars

LEMMA RoundsInvImplies ==
  ASSUME RoundsInv, Untrapped
  PROVE  RoundIsLargest
<1>1. pending \in Seq(Batches) /\ RowsAre /\ MaxLimit \in Nat
  BY LimitAssumption DEF RoundsInv
<1>2. Len(pending) \in Nat /\ Groups \in Nat
  BY <1>1, ReservesAre DEF RowsAre, Groups
<1>3. \A n \in 1 .. Min({MaxLimit, Len(pending)}) : n \in 1 .. MaxLimit /\ n <= Len(pending)
  BY <1>1, <1>2, MinIs
<1>4. \A n \in 1 .. Min({MaxLimit, Groups}) : n \in 1 .. MaxLimit /\ n <= Groups
  BY <1>1, <1>2, MinIs
<1>5. Chosen /\ BurnChosen
  BY DEF RoundsInv
<1>6. pc = "propose" =>
        \A n \in 1 .. Min({MaxLimit, Len(pending)}) :
          n > Len(search.best) => TooMuch(pending, n)
  BY <1>3, <1>5 DEF Chosen
<1>7. pc = "fire" /\ busy = {} =>
        \A n \in 1 .. Min({MaxLimit, Groups}) :
          n > Len(ReservesOf(search.best)) => TooHeavy(n)
  BY <1>4, <1>5 DEF BurnChosen
<1> QED BY <1>1, <1>6, <1>7 DEF RoundIsLargest, TooMuch, TooHeavy, Groups, Untrapped

(* A round takes the largest prefix of the queue, and the largest number of *)
(* groups, that its limits allow (prepare_round), in every build but those  *)
(* that check for overflow, where Narrow ends the node.                     *)
THEOREM RoundsAreLargest ==
  ASSUME ~Checked
  PROVE  SpecRounds => []RoundIsLargest
<1>1. RoundsInv /\ Untrapped => RoundIsLargest
  BY RoundsInvImplies
<1>2. RoundsInv /\ [NextRounds]_roundsVars => RoundsInv'
  BY RoundsStep
<1>3. InitRounds => RoundsInv /\ Untrapped
  BY RoundsInit DEF InitRounds, Untrapped
<1>4. Untrapped /\ [NextRounds]_roundsVars => Untrapped'
  BY NeverTrapped
<1> QED BY <1>1, <1>2, <1>3, <1>4, PTL DEF SpecRounds

(***************************************************************************)
(* Functions defined step by step, and the sum of a sequence.              *)
(***************************************************************************)
LEMMA StepsExist ==
  ASSUME NEW a \in Int, NEW len \in Nat, NEW g \in [(1 .. len) \X Int -> Int]
  PROVE  \E F \in [0 .. len -> Int] : F[0] = a /\ \A n \in 1 .. len : F[n] = g[<<n, F[n - 1]>>]
<1> DEFINE Is(F, m) == F[0] = a /\ \A n \in 1 .. m : F[n] = g[<<n, F[n - 1]>>]
           Bad == {m \in 0 .. len : ~\E F \in [0 .. m -> Int] : Is(F, m)}
<1>1. SUFFICES ASSUME Bad # {} PROVE FALSE
  <2>1. len \in 0 .. len
    OBVIOUS
  <2>2. \E F \in [0 .. len -> Int] : Is(F, len)
    <3> HIDE DEF Is
    <3> QED BY <1>1, <2>1
  <2> QED BY <2>2
<1>2. PICK m \in Bad : \A k \in Bad : m <= k
  <2>1. Bad \subseteq Nat
    OBVIOUS
  <2> HIDE DEF Bad
  <2> QED BY <1>1, <2>1, HasLeast
<1>3. m \in 0 .. len /\ ~\E F \in [0 .. m -> Int] : Is(F, m)
  <2> HIDE DEF Is
  <2> QED BY <1>2
<1>4. m # 0
  <2>1. SUFFICES ASSUME m = 0 PROVE FALSE
    OBVIOUS
  <2> DEFINE F == [n \in 0 .. 0 |-> a]
  <2>2. F \in [0 .. 0 -> Int] /\ F[0] = a /\ 1 .. 0 = {}
    OBVIOUS
  <2>3. Is(F, 0)
    BY <2>2
  <2> HIDE DEF F, Is
  <2> QED BY <1>3, <2>1, <2>2, <2>3
<1>5. m - 1 \in 0 .. len /\ ~(m <= m - 1) /\ m \in 1 .. len
  BY <1>3, <1>4
<1>6. m - 1 \notin Bad
  <2> HIDE DEF Bad
  <2> QED BY <1>2, <1>5
<1>7. PICK G \in [0 .. m - 1 -> Int] : Is(G, m - 1)
  <2> HIDE DEF Is
  <2> QED BY <1>5, <1>6
<1> DEFINE F == [n \in 0 .. m |-> IF n = m THEN g[<<m, G[m - 1]>>] ELSE G[n]]
<1>8. \A n \in 0 .. m - 1 : F[n] = G[n] /\ G[n] \in Int
  BY <1>5, <1>7
<1>9. F[m] = g[<<m, G[m - 1]>>] /\ F[m] \in Int
  <2>1. m \in 0 .. m /\ m - 1 \in 0 .. m - 1
    BY <1>5
  <2>2. <<m, G[m - 1]>> \in (1 .. len) \X Int
    BY <1>5, <1>8, <2>1
  <2> QED BY <2>1, <2>2
<1>10. F \in [0 .. m -> Int]
  <2>1. F = [n \in 0 .. m |-> F[n]]
    OBVIOUS
  <2>2. \A n \in 0 .. m : n = m \/ n \in 0 .. m - 1
    BY <1>5
  <2> HIDE DEF F
  <2> QED BY <1>8, <1>9, <2>1, <2>2
<1>11. Is(F, m)
  <2>1. F[0] = a
    <3>1. 0 \in 0 .. m - 1
      BY <1>5
    <3> HIDE DEF F
    <3> QED BY <1>7, <1>8, <3>1
  <2>2. ASSUME NEW n \in 1 .. m PROVE F[n] = g[<<n, F[n - 1]>>]
    <3>1. n - 1 \in 0 .. m - 1 /\ (n = m \/ n \in 1 .. m - 1)
      BY <1>5
    <3>2. F[n - 1] = G[n - 1]
      <4> HIDE DEF F
      <4> QED BY <1>8, <3>1
    <3>3. CASE n = m
      <4> HIDE DEF F
      <4> QED BY <1>9, <3>2, <3>3
    <3>4. CASE n \in 1 .. m - 1
      <4>1. n \in 0 .. m - 1
        BY <3>4
      <4> HIDE DEF F
      <4> QED BY <1>7, <1>8, <3>2, <3>4, <4>1
    <3> QED BY <3>1, <3>3, <3>4
  <2> HIDE DEF F
  <2> QED BY <2>1, <2>2
<1> HIDE DEF F, Is
<1> QED BY <1>3, <1>10, <1>11

LEMMA SumIs ==
  ASSUME NEW s \in Seq(Int)
  PROVE  \E F \in [0 .. Len(s) -> Int] :
           /\ F[0] = 0 /\ Sum(s) = F[Len(s)]
           /\ \A n \in 1 .. Len(s) : F[n] = F[n - 1] + s[n]
<1> DEFINE len == Len(s)
           g == [p \in (1 .. len) \X Int |-> p[2] + s[p[1]]]
           IsSum(F) == F = [n \in 0 .. len |-> IF n = 0 THEN 0 ELSE F[n - 1] + s[n]]
           C == CHOOSE F : IsSum(F)
<1>1. len \in Nat /\ \A n \in 1 .. len : s[n] \in Int
  OBVIOUS
<1>2. g \in [(1 .. len) \X Int -> Int] /\ \A n \in 1 .. len, v \in Int : g[<<n, v>>] = v + s[n]
  <2>1. \A p \in (1 .. len) \X Int : g[p] = p[2] + s[p[1]] /\ p[1] \in 1 .. len /\ p[2] \in Int
    OBVIOUS
  <2>2. \A p \in (1 .. len) \X Int : g[p] \in Int
    <3> HIDE DEF g, len
    <3> QED BY <1>1, <2>1
  <2>3. g = [p \in (1 .. len) \X Int |-> g[p]]
    OBVIOUS
  <2>4. \A n \in 1 .. len, v \in Int : <<n, v>> \in (1 .. len) \X Int
    OBVIOUS
  <2>5. \A n \in 1 .. len, v \in Int : g[<<n, v>>] = v + s[n]
    BY <2>4
  <2> HIDE DEF g, len
  <2> QED BY <2>2, <2>3, <2>5
<1>3. PICK F \in [0 .. len -> Int] : F[0] = 0 /\ \A n \in 1 .. len : F[n] = g[<<n, F[n - 1]>>]
  <2>1. 0 \in Int /\ len \in Nat
    BY <1>1
  <2> HIDE DEF g, len
  <2> QED BY <1>2, <2>1, StepsExist, ZenonT(40)
<1>4. \A n \in 1 .. len : n - 1 \in 0 .. len /\ F[n - 1] \in Int /\ F[n] = F[n - 1] + s[n]
  <2> TAKE n \in 1 .. len
  <2>1. n - 1 \in 0 .. len
    BY <1>1
  <2>2. F[n - 1] \in Int
    BY <1>3, <2>1
  <2> HIDE DEF g, len
  <2> QED BY <1>2, <1>3, <2>1, <2>2
<1>5. IsSum(F)
  <2>1. F = [n \in 0 .. len |-> F[n]]
    BY <1>3
  <2>2. \A n \in 0 .. len : F[n] = IF n = 0 THEN 0 ELSE F[n - 1] + s[n]
    <3> HIDE DEF g, len
    <3>1. \A n \in 0 .. len : n = 0 \/ n \in 1 .. len
      BY <1>1
    <3> QED BY <1>3, <1>4, <3>1
  <2> HIDE DEF g, len
  <2> QED BY <2>1, <2>2
<1>6. IsSum(C)
  <2> HIDE DEF IsSum
  <2> QED BY <1>5
<1>7. Sum(s) = C[len]
  BY DEF Sum
<1> HIDE DEF C, g, len
<1>8. C[0] = 0 /\ \A n \in 1 .. len : C[n] = C[n - 1] + s[n]
  BY <1>1, <1>6
<1> HIDE DEF IsSum
<1>9. \A n \in 0 .. len : F[n] = C[n]
  <2> DEFINE Bad == {n \in 0 .. len : F[n] # C[n]}
  <2>1. SUFFICES ASSUME Bad # {} PROVE FALSE
    OBVIOUS
  <2>2. PICK n \in Bad : \A k \in Bad : n <= k
    <3>1. Bad \subseteq Nat
      OBVIOUS
    <3> HIDE DEF Bad
    <3> QED BY <2>1, <3>1, HasLeast
  <2>3. n \in 0 .. len /\ F[n] # C[n]
    BY <2>2
  <2>4. n \in 1 .. len /\ n - 1 \in 0 .. len /\ ~(n <= n - 1)
    <3>1. n # 0
      BY <1>3, <1>8, <2>3
    <3>2. n \in Nat /\ n <= len
      BY <2>3
    <3> QED BY <1>1, <3>1, <3>2
  <2>5. n - 1 \notin Bad
    <3> HIDE DEF Bad
    <3> QED BY <2>2, <2>4
  <2>6. F[n - 1] = C[n - 1]
    BY <2>4, <2>5
  <2> QED BY <1>4, <1>8, <2>3, <2>4, <2>6
<1>10. Sum(s) = F[len]
  BY <1>1, <1>7, <1>9
<1> QED BY <1>3, <1>4, <1>10 DEF len

(* The sum is what grows by each element. *)
LEMMA SumEquals ==
  ASSUME NEW s \in Seq(Int), NEW h \in [0 .. Len(s) -> Int],
         h[0] = 0, \A n \in 1 .. Len(s) : h[n] = h[n - 1] + s[n]
  PROVE  Sum(s) = h[Len(s)]
<1>1. PICK F \in [0 .. Len(s) -> Int] :
        /\ F[0] = 0 /\ Sum(s) = F[Len(s)]
        /\ \A n \in 1 .. Len(s) : F[n] = F[n - 1] + s[n]
  BY SumIs
<1> DEFINE Bad == {n \in 0 .. Len(s) : F[n] # h[n]}
<1>2. SUFFICES ASSUME Bad # {} PROVE FALSE
  <2>1. Len(s) \in 0 .. Len(s)
    OBVIOUS
  <2>2. F[Len(s)] = h[Len(s)]
    BY <1>2, <2>1
  <2> QED BY <1>1, <2>2
<1>3. PICK n \in Bad : \A k \in Bad : n <= k
  <2>1. Bad \subseteq Nat
    OBVIOUS
  <2> HIDE DEF Bad
  <2> QED BY <1>2, <2>1, HasLeast
<1>4. n \in 0 .. Len(s) /\ F[n] # h[n]
  BY <1>3
<1>5. n # 0
  BY <1>1, <1>4
<1>6. n \in 1 .. Len(s) /\ n - 1 \in 0 .. Len(s) /\ ~(n <= n - 1)
  <2>1. n \in Nat /\ n <= Len(s) /\ Len(s) \in Nat
    BY <1>4
  <2> QED BY <1>5, <2>1
<1>7. n - 1 \notin Bad
  <2> HIDE DEF Bad
  <2> QED BY <1>3, <1>6
<1>8. F[n - 1] = h[n - 1]
  BY <1>6, <1>7
<1> QED BY <1>1, <1>4, <1>6, <1>8

LEMMA SumType == ASSUME NEW s \in Seq(Int) PROVE Sum(s) \in Int
<1>1. PICK F \in [0 .. Len(s) -> Int] : Sum(s) = F[Len(s)]
  BY SumIs
<1>2. Len(s) \in 0 .. Len(s)
  OBVIOUS
<1> QED BY <1>1, <1>2

LEMMA SumZero ==
  ASSUME NEW s \in Seq(Int), \A n \in 1 .. Len(s) : s[n] = 0
  PROVE  Sum(s) = 0
<1> DEFINE h == [n \in 0 .. Len(s) |-> 0]
<1>1. Len(s) \in 0 .. Len(s) /\ 0 \in 0 .. Len(s) /\ \A n \in 1 .. Len(s) : n - 1 \in 0 .. Len(s) /\ n \in 0 .. Len(s)
  OBVIOUS
<1>2. h \in [0 .. Len(s) -> Int] /\ h[0] = 0 /\ h[Len(s)] = 0 /\ \A n \in 1 .. Len(s) : h[n] = h[n - 1] + s[n]
  BY <1>1
<1> HIDE DEF h
<1> QED BY <1>2, SumEquals

(* Nothing but zeros around it. *)
LEMMA SumInside ==
  ASSUME NEW s \in Seq(Int), NEW u \in Seq(Int), NEW a \in Nat, a + Len(u) <= Len(s),
         \A n \in 1 .. Len(s) : s[n] = IF n - a \in 1 .. Len(u) THEN u[n - a] ELSE 0
  PROVE  Sum(s) = Sum(u)
<1> DEFINE b == Len(u)
           len == Len(s)
<1>1. PICK F \in [0 .. b -> Int] :
        /\ F[0] = 0 /\ Sum(u) = F[b]
        /\ \A n \in 1 .. b : F[n] = F[n - 1] + u[n]
  BY SumIs
<1> DEFINE at(n) == IF n <= a THEN 0 ELSE IF n <= a + b THEN n - a ELSE b
           h == [n \in 0 .. len |-> F[at(n)]]
<1>2. b \in Nat /\ len \in Nat /\ a + b <= len
  OBVIOUS
<1>3. \A n \in 0 .. len : at(n) \in 0 .. b
  BY <1>2
<1>4. \A n \in 1 .. b : u[n] \in Int
  OBVIOUS
<1>5. \A n \in 1 .. len : s[n] = IF n - a \in 1 .. b THEN u[n - a] ELSE 0
  OBVIOUS
<1>6. at(0) = 0 /\ at(len) = b
  BY <1>2
<1>7. \A n \in 1 .. len : \/ n - a \in 1 .. b /\ at(n) = n - a /\ at(n - 1) = (n - a) - 1
                          \/ n - a \notin 1 .. b /\ at(n) = at(n - 1)
  BY <1>2
<1>8. \A n \in 0 .. len : h[n] = F[at(n)] /\ F[at(n)] \in Int
  BY <1>1, <1>3
<1>9. h \in [0 .. len -> Int]
  <2>1. h = [n \in 0 .. len |-> h[n]]
    OBVIOUS
  <2> HIDE DEF h, at, len, b
  <2> QED BY <1>8, <2>1
<1>10. 0 \in 0 .. len /\ len \in 0 .. len /\ \A n \in 1 .. len : n \in 0 .. len /\ n - 1 \in 0 .. len
  BY <1>2
<1>11. h[0] = 0 /\ h[len] = Sum(u)
  <2> HIDE DEF h, at, len, b
  <2> QED BY <1>1, <1>6, <1>8, <1>10
<1>12. ASSUME NEW n \in 1 .. len PROVE h[n] = h[n - 1] + s[n]
  <2> HIDE DEF h, at, len, b
  <2>1. h[n] = F[at(n)] /\ h[n - 1] = F[at(n - 1)] /\ h[n - 1] \in Int
    BY <1>8, <1>10
  <2>2. CASE n - a \in 1 .. b
    BY <1>1, <1>5, <1>7, <2>1, <2>2
  <2>3. CASE n - a \notin 1 .. b
    BY <1>5, <1>7, <2>1, <2>3
  <2> QED BY <2>2, <2>3
<1> HIDE DEF h
<1>13. h \in [0 .. Len(s) -> Int] /\ h[0] = 0 /\ \A n \in 1 .. Len(s) : h[n] = h[n - 1] + s[n]
  BY <1>9, <1>11, <1>12
<1>14. Sum(s) = h[Len(s)]
  BY <1>13, SumEquals
<1> QED BY <1>11, <1>14

LEMMA SumOne == ASSUME NEW x \in Int PROVE <<x>> \in Seq(Int) /\ Sum(<<x>>) = x
<1> DEFINE s == <<x>>
           h == [n \in 0 .. 1 |-> IF n = 0 THEN 0 ELSE x]
<1>1. s \in Seq(Int) /\ Len(s) = 1 /\ s[1] = x
  OBVIOUS
<1>2. h \in [0 .. 1 -> Int] /\ h[0] = 0 /\ h[1] = x
  OBVIOUS
<1> HIDE DEF s, h
<1>3. \A n \in 1 .. Len(s) : n = 1 /\ n - 1 = 0
  BY <1>1
<1>4. \A n \in 1 .. Len(s) : h[n] = h[n - 1] + s[n]
  BY <1>1, <1>2, <1>3
<1>5. h \in [0 .. Len(s) -> Int]
  BY <1>1, <1>2
<1>6. Sum(s) = h[Len(s)]
  BY <1>1, <1>2, <1>4, <1>5, SumEquals
<1> QED BY <1>1, <1>2, <1>6 DEF s

(***************************************************************************)
(* The fee of a burn, and the shares of its accounts.                      *)
(***************************************************************************)
LEMMA BurnFeeType == ASSUME NEW n \in Nat, NEW m \in Nat PROVE BurnFee(n, m) \in Nat
<1> DEFINE w == BaseWeight + ItemWeight * n + AccountWeight * m
           a == MinBurnFee
           b == Ceil(w, FeeWeight)
<1>1. a \in Nat /\ FeeWeight \in Nat \ {0} /\ BaseWeight \in Nat /\ ItemWeight \in Nat /\ AccountWeight \in Nat
  BY FeeAssumption, WeightAssumption
<1>2. ItemWeight * n \in Nat /\ AccountWeight * m \in Nat
  <2>1. \A x, y \in Nat : x * y \in Nat
    OBVIOUS
  <2> QED BY <1>1, <2>1
<1>3. w \in Nat
  BY <1>1, <1>2
<1>4. b \in Nat
  <2>1. (w + FeeWeight - 1) \in Nat
    BY <1>1, <1>3
  <2> HIDE DEF w
  <2>2. (w + FeeWeight - 1) \div FeeWeight \in Nat
    <3>1. \A x \in Nat, y \in Nat \ {0} : x \div y \in Nat
      OBVIOUS
    <3> QED BY <1>1, <2>1, <3>1
  <2> QED BY <2>2 DEF Ceil
<1> HIDE DEF a, b
<1>5. {a, b} \in SUBSET (0 .. a + b) /\ {a, b} # {} /\ a + b \in Nat
  BY <1>1, <1>4
<1>6. Max({a, b}) \in {a, b}
  BY <1>5, MaxIs
<1>7. BurnFee(n, m) = Max({a, b})
  BY DEF BurnFee, a, b
<1> QED BY <1>1, <1>4, <1>6, <1>7

LEMMA SharesAre ==
  ASSUME NEW total \in Nat, NEW groups \in Nat \ {0}
  PROVE  /\ \A g \in 1 .. groups : FeeShare(total, groups, g) \in Int
         /\ \A g, h \in 1 .. groups :
              FeeShare(total, groups, g) - FeeShare(total, groups, h) \in {-1, 0, 1}
         /\ Sum([g \in 1 .. groups |-> FeeShare(total, groups, g)]) = total
<1> DEFINE q == total \div groups
           r == total % groups
           s == [g \in 1 .. groups |-> FeeShare(total, groups, g)]
           h == [n \in 0 .. groups |-> n * q + (IF n <= r THEN n ELSE r)]
<1>1. q \in Nat /\ r \in Nat /\ r < groups /\ total = groups * q + r
  OBVIOUS
<1> HIDE DEF q, r
<1>2. \A g : FeeShare(total, groups, g) = q + (IF g <= r THEN 1 ELSE 0)
  BY DEF FeeShare, q, r
<1>3. \A g \in 1 .. groups : FeeShare(total, groups, g) \in Int
  BY <1>1, <1>2
<1>4. ASSUME NEW g \in 1 .. groups, NEW k \in 1 .. groups
      PROVE  FeeShare(total, groups, g) - FeeShare(total, groups, k) \in {-1, 0, 1}
  BY <1>1, <1>2
<1>5. s \in Seq(Int) /\ Len(s) = groups /\ \A g \in 1 .. groups : s[g] = FeeShare(total, groups, g)
  <2>1. \A g \in 1 .. groups : s[g] = FeeShare(total, groups, g) /\ s[g] \in Int
    BY <1>3
  <2>2. s = [g \in 1 .. groups |-> s[g]]
    OBVIOUS
  <2> HIDE DEF s
  <2> QED BY <2>1, <2>2
<1> HIDE DEF s
<1>6. \A n \in 0 .. groups : h[n] = n * q + (IF n <= r THEN n ELSE r) /\ n * q \in Nat
  <2>1. \A x, y \in Nat : x * y \in Nat
    OBVIOUS
  <2> QED BY <1>1, <2>1
<1>7. h \in [0 .. groups -> Int]
  <2>1. h = [n \in 0 .. groups |-> h[n]]
    OBVIOUS
  <2>2. \A n \in 0 .. groups : h[n] \in Int
    <3> HIDE DEF h
    <3> QED BY <1>1, <1>6
  <2> HIDE DEF h
  <2> QED BY <2>1, <2>2
<1>8. h[0] = 0
  <2>1. 0 \in 0 .. groups /\ 0 * q = 0 /\ 0 <= r
    BY <1>1
  <2> HIDE DEF h
  <2> QED BY <1>6, <2>1
<1>9. \A n \in 1 .. groups : h[n] = h[n - 1] + s[n]
  <2> TAKE n \in 1 .. groups
  <2>1. n \in Nat /\ n - 1 \in 0 .. groups /\ n \in 0 .. groups /\ n - 1 \in Nat
    OBVIOUS
  <2>2. n * q = (n - 1) * q + q
    BY <1>1, <2>1
  <2>3. s[n] = q + (IF n <= r THEN 1 ELSE 0)
    BY <1>2, <1>5
  <2> HIDE DEF h
  <2>4. /\ h[n] = n * q + (IF n <= r THEN n ELSE r) /\ n * q \in Nat
        /\ h[n - 1] = (n - 1) * q + (IF n - 1 <= r THEN n - 1 ELSE r) /\ (n - 1) * q \in Nat
    BY <1>6, <2>1
  <2> DEFINE a == n * q
             b == (n - 1) * q
  <2>5. a = b + q /\ a \in Nat /\ b \in Nat
        /\ h[n] = a + (IF n <= r THEN n ELSE r)
        /\ h[n - 1] = b + (IF n - 1 <= r THEN n - 1 ELSE r)
    BY <2>2, <2>4
  <2> HIDE DEF a, b
  <2> QED BY <1>1, <2>1, <2>3, <2>5
<1>10. h[groups] = total
  <2>1. groups \in 0 .. groups /\ ~(groups <= r)
    BY <1>1
  <2> HIDE DEF h
  <2> QED BY <1>1, <1>6, <2>1
<1> HIDE DEF h
<1>11. Sum(s) = total
  BY <1>5, <1>7, <1>8, <1>9, <1>10, SumEquals
<1> QED BY <1>3, <1>4, <1>11 DEF s

(***************************************************************************)
(* What transactions, and the rows of the index, are.                      *)
(***************************************************************************)
IsSeq(s) == s \in Seq(ToSet(s))
IsOut(o) == o = [to |-> o.to, asset |-> o.asset, amount |-> o.amount] /\ o.amount \in Int
IsTx(t) ==
  t = [inputs |-> t.inputs, outputs |-> t.outputs] /\ IsSeq(t.inputs) /\ IsSeq(t.outputs)
AmountsAre(t) == \A k \in DOMAIN t.outputs : IsOut(t.outputs[k])
RowTyped(r) == r.reserve \in Nat /\ r.kind \in {"tick", "verifier"} /\ r.amount \in Int
RowsTyped(s) == IsSeq(s) /\ \A k \in DOMAIN s : RowTyped(s[k])

LEMMA SeqIs == ASSUME NEW S, NEW s \in Seq(S) PROVE IsSeq(s)
<1>1. DOMAIN s = 1 .. Len(s) /\ Len(s) \in Nat /\ \A k \in DOMAIN s : s[k] \in ToSet(s)
  BY DEF ToSet
<1> QED BY <1>1 DEF IsSeq

LEMMA IsSeqProperties ==
  ASSUME NEW s, IsSeq(s)
  PROVE  /\ DOMAIN s = 1 .. Len(s) /\ Len(s) \in Nat /\ ToSet(s) = {s[k] : k \in DOMAIN s}
BY DEF IsSeq, ToSet

LEMMA IsSeqConcat ==
  ASSUME NEW s, NEW t, IsSeq(s), IsSeq(t)
  PROVE  /\ IsSeq(s \o t) /\ Len(s \o t) = Len(s) + Len(t)
         /\ \A k \in 1 .. Len(s) : (s \o t)[k] = s[k]
         /\ \A k \in 1 .. Len(t) : (s \o t)[Len(s) + k] = t[k]
         /\ \A k \in 1 .. Len(s) + Len(t) :
              (k \in 1 .. Len(s) /\ (s \o t)[k] = s[k])
              \/ (k - Len(s) \in 1 .. Len(t) /\ (s \o t)[k] = t[k - Len(s)])
<1> DEFINE S == ToSet(s) \cup ToSet(t)
<1>1. s \in Seq(ToSet(s)) /\ t \in Seq(ToSet(t))
  BY DEF IsSeq
<1>2. s \in Seq(S) /\ t \in Seq(S)
  <2>1. \A A, B, z : A \subseteq B /\ z \in Seq(A) => z \in Seq(B)
    OBVIOUS
  <2>2. ToSet(s) \subseteq S /\ ToSet(t) \subseteq S
    OBVIOUS
  <2> HIDE DEF S
  <2> QED BY <1>1, <2>1, <2>2
<1> HIDE DEF S
<1>3. s \o t \in Seq(S)
  BY <1>2
<1>4. IsSeq(s \o t)
  BY <1>3, SeqIs
<1>5. /\ Len(s \o t) = Len(s) + Len(t) /\ Len(s) \in Nat /\ Len(t) \in Nat
      /\ \A k \in 1 .. Len(s) : (s \o t)[k] = s[k]
      /\ \A k \in 1 .. Len(t) : (s \o t)[Len(s) + k] = t[k]
  BY <1>2
<1>6. \A k \in 1 .. Len(s) + Len(t) :
        k \in 1 .. Len(s) \/ (k - Len(s) \in 1 .. Len(t) /\ k = Len(s) + (k - Len(s)))
  BY <1>5
<1> QED BY <1>4, <1>5, <1>6

LEMMA IsSeqSub ==
  ASSUME NEW s, IsSeq(s), NEW a \in Nat \ {0}, NEW b \in Nat, b <= Len(s)
  PROVE  /\ IsSeq(SubSeq(s, a, b)) /\ Len(SubSeq(s, a, b)) = IF a <= b THEN b - a + 1 ELSE 0
         /\ \A k \in 1 .. b - a + 1 : SubSeq(s, a, b)[k] = s[a + k - 1]
         /\ \A k \in DOMAIN SubSeq(s, a, b) : SubSeq(s, a, b)[k] = s[a + k - 1] /\ a + k - 1 \in DOMAIN s
<1>1. s \in Seq(ToSet(s)) /\ DOMAIN s = 1 .. Len(s) /\ Len(s) \in Nat
  BY DEF IsSeq
<1>2. \A k \in a .. b : s[k] \in ToSet(s)
  <2>1. \A k \in a .. b : k \in DOMAIN s
    BY <1>1
  <2> QED BY <2>1 DEF ToSet
<1>3. SubSeq(s, a, b) \in Seq(ToSet(s))
  BY <1>1, <1>2, SubSeqProperties
<1>4. IsSeq(SubSeq(s, a, b))
  BY <1>3, SeqIs
<1>5. SubSeq(s, a, b) = [k \in 1 .. b - a + 1 |-> s[a + k - 1]]
  OBVIOUS
<1>6. Len(SubSeq(s, a, b)) = IF a <= b THEN b - a + 1 ELSE 0
  <2>1. CASE a <= b
    <3>1. b - a + 1 \in Nat
      BY <2>1
    <3> QED BY <1>5, <2>1, <3>1
  <2>2. CASE ~(a <= b)
    <3>1. 1 .. b - a + 1 = {}
      BY <2>2
    <3>2. SubSeq(s, a, b) = <<>>
      BY <1>5, <3>1
    <3> QED BY <2>2, <3>2
  <2> QED BY <2>1, <2>2
<1>7. \A k \in 1 .. b - a + 1 : a + k - 1 \in DOMAIN s
  BY <1>1
<1> QED BY <1>4, <1>5, <1>6, <1>7

OutsAre(s) == IsSeq(s) /\ \A k \in DOMAIN s : IsOut(s[k])

LEMMA OutsConcat ==
  ASSUME NEW s, NEW t, OutsAre(s), OutsAre(t)
  PROVE  OutsAre(s \o t)
<1>1. IsSeq(s) /\ IsSeq(t)
  BY DEF OutsAre
<1>2. /\ IsSeq(s \o t) /\ Len(s \o t) = Len(s) + Len(t)
      /\ \A k \in 1 .. Len(s) + Len(t) :
           (k \in 1 .. Len(s) /\ (s \o t)[k] = s[k])
           \/ (k - Len(s) \in 1 .. Len(t) /\ (s \o t)[k] = t[k - Len(s)])
  BY <1>1, IsSeqConcat
<1>3. /\ DOMAIN s = 1 .. Len(s) /\ DOMAIN t = 1 .. Len(t) /\ DOMAIN (s \o t) = 1 .. Len(s) + Len(t)
  BY <1>1, <1>2, IsSeqProperties
<1> DEFINE w == s \o t
<1> HIDE DEF w
<1>4. ASSUME NEW k \in DOMAIN w PROVE IsOut(w[k])
  <2>1. \/ k \in DOMAIN s /\ w[k] = s[k]
        \/ k - Len(s) \in DOMAIN t /\ w[k] = t[k - Len(s)]
    BY <1>2, <1>3 DEF w
  <2> QED BY <2>1 DEF OutsAre
<1> QED BY <1>2, <1>4 DEF OutsAre, w

LEMMA MapIs ==
  ASSUME NEW n \in Nat, NEW s, s = [k \in 1 .. n |-> s[k]]
  PROVE  IsSeq(s) /\ Len(s) = n /\ DOMAIN s = 1 .. n
<1>1. DOMAIN s = 1 .. n /\ \A k \in 1 .. n : s[k] \in ToSet(s)
  BY DEF ToSet
<1>2. s \in Seq(ToSet(s)) /\ Len(s) = n
  BY <1>1
<1> QED BY <1>1, <1>2 DEF IsSeq

LEMMA OutIs ==
  ASSUME NEW to, NEW asset, NEW amount \in Int
  PROVE  IsOut(Out(to, asset, amount))
BY DEF IsOut, Out

LEMMA OneOut == ASSUME NEW o, IsOut(o) PROVE OutsAre(<<o>>)
<1>1. <<o>> \in Seq({o}) /\ DOMAIN <<o>> = {1} /\ <<o>>[1] = o
  OBVIOUS
<1>2. IsSeq(<<o>>)
  BY <1>1, SeqIs
<1> QED BY <1>1, <1>2 DEF OutsAre

LEMMA InOrderIs ==
  ASSUME NEW K \in SUBSET {"tick", "verifier"}
  PROVE  /\ InOrder[K] \in Seq({"tick", "verifier"}) /\ ToSet(InOrder[K]) = K
         /\ \A t, u \in DOMAIN InOrder[K] : InOrder[K][t] = InOrder[K][u] => t = u
<1> DEFINE x == IF "tick" \in K THEN <<"tick">> ELSE <<>>
           y == IF "verifier" \in K THEN <<"verifier">> ELSE <<>>
<1>1. InOrder[K] = x \o y
  BY DEF InOrder
<1>2. x \in Seq({"tick", "verifier"}) /\ y \in Seq({"tick", "verifier"})
  <2> DEFINE S == {"tick", "verifier"}
  <2>1. "tick" \in S /\ "verifier" \in S
    OBVIOUS
  <2> HIDE DEF S
  <2>2. <<>> \in Seq(S) /\ <<"tick">> \in Seq(S) /\ <<"verifier">> \in Seq(S)
    BY <2>1
  <2>3. x \in Seq(S) /\ y \in Seq(S)
    BY <2>2, Zenon
  <2> QED BY <2>3 DEF S
<1>3. CASE K = {}
  <2>1. x \o y = <<>> /\ DOMAIN <<>> = {}
    BY <1>3
  <2> QED BY <1>1, <1>2, <1>3, <2>1 DEF ToSet
<1>4. CASE K = {"tick"}
  <2>1. x \o y = <<"tick">> /\ DOMAIN <<"tick">> = {1} /\ <<"tick">>[1] = "tick"
    BY <1>4
  <2> QED BY <1>1, <1>2, <1>4, <2>1 DEF ToSet
<1>5. CASE K = {"verifier"}
  <2>1. x \o y = <<"verifier">> /\ DOMAIN <<"verifier">> = {1} /\ <<"verifier">>[1] = "verifier"
    BY <1>5
  <2> QED BY <1>1, <1>2, <1>5, <2>1 DEF ToSet
<1>6. CASE K = {"tick", "verifier"}
  <2> DEFINE z == x \o y
  <2>1. x = <<"tick">> /\ y = <<"verifier">>
    BY <1>6
  <2>2. Len(x) = 1 /\ Len(y) = 1 /\ x[1] = "tick" /\ y[1] = "verifier"
    BY <2>1
  <2> HIDE DEF x, y
  <2>3. z \in Seq({"tick", "verifier"}) /\ Len(z) = 2 /\ z[1] = x[1] /\ z[1 + 1] = y[1]
    BY <1>2, <2>2, ConcatProperties
  <2> HIDE DEF z
  <2>4. DOMAIN z = {1, 2} /\ z[1] = "tick" /\ z[2] = "verifier"
    BY <2>2, <2>3
  <2>5. InOrder[K] = z
    BY <1>1 DEF z
  <2> QED BY <1>6, <2>3, <2>4, <2>5 DEF ToSet
<1>7. K = {} \/ K = {"tick"} \/ K = {"verifier"} \/ K = {"tick", "verifier"}
  OBVIOUS
<1> QED BY <1>3, <1>4, <1>5, <1>6, <1>7

LEMMA IssuedIs ==
  ASSUME NEW p \in Seq(Batches)
  PROVE  Issued(p) \in Seq(ItemType) /\ FeeInputs(p) \in Seq(CoinInput)
<1>1. Len(p) \in 0 .. Len(p) /\ SubSeq(p, 1, Len(p)) = p
  OBVIOUS
<1>2. SubSeq(ItemsOf(p), 1, Len(p)) = ItemsOf(p) /\ SubSeq(CoinsOf(p), 1, Len(p)) = CoinsOf(p)
  BY PartsAre
<1>3. Issued(p) = FlattenSeq(ItemsOf(p)) /\ FeeInputs(p) = FlattenSeq(CoinsOf(p))
  <2>1. /\ Issued(SubSeq(p, 1, Len(p))) = FlattenSeq(SubSeq(ItemsOf(p), 1, Len(p)))
        /\ FeeInputs(SubSeq(p, 1, Len(p))) = FlattenSeq(SubSeq(CoinsOf(p), 1, Len(p)))
    BY <1>1, PrefixParts
  <2> QED BY <1>1, <1>2, <2>1
<1>4. ItemsOf(p) \in Seq(Seq(ItemType)) /\ CoinsOf(p) \in Seq(Seq(CoinInput))
  BY PartsAre
<1> QED BY <1>3, <1>4, FlatType

LEMMA TokensAre ==
  ASSUME NEW p \in Seq(Batches)
  PROVE  Tokens(p) \in Seq({"tick", "verifier"})
<1> DEFINE K == {i.kind : i \in ToSet(Issued(p))}
<1>1. Issued(p) \in Seq(ItemType)
  BY IssuedIs
<1>2. \A i \in ToSet(Issued(p)) : i \in ItemType
  BY <1>1 DEF ToSet
<1>3. K \in SUBSET {"tick", "verifier"}
  BY <1>2 DEF ItemType
<1> HIDE DEF K
<1>4. InOrder[K] \in Seq({"tick", "verifier"})
  BY <1>3, InOrderIs
<1> QED BY <1>4 DEF Tokens, K

(* What a batch pays, and what is left of the miner's fee. *)
LEMMA BatchIs ==
  ASSUME NEW p \in Seq(Batches), NEW n \in 1 .. Len(p)
  PROVE  /\ p[n].owner \in {1, 2} /\ p[n].kinds \in Seq({"tick", "verifier"})
         /\ p[n].fees \in Seq(Nat) /\ Len(p[n].kinds) \in Nat
         /\ Sum(p[n].fees) \in Int /\ Available(p[n]) \in Int
<1>1. p[n] \in Batches
  OBVIOUS
<1>2. p[n].owner \in {1, 2} /\ p[n].kinds \in Seq({"tick", "verifier"}) /\ p[n].fees \in Seq(Nat)
  BY <1>1 DEF Batches
<1>3. Len(p[n].kinds) \in Nat
  BY <1>2
<1>4. p[n].fees \in Seq(Int)
  BY <1>2
<1>5. Sum(p[n].fees) \in Int
  BY <1>4, SumType
<1>6. Available(p[n]) \in Int
  <2>1. OperationalFee \in Nat /\ BurnReserve \in Nat
    BY FeeAssumption
  <2>2. (OperationalFee + BurnReserve) * Len(p[n].kinds) \in Int
    BY <1>3, <2>1
  <2> QED BY <1>5, <2>2 DEF Available
<1> QED BY <1>2, <1>3, <1>5, <1>6

LEMMA FeeLeftIs ==
  ASSUME NEW p \in Seq(Batches)
  PROVE  /\ FeeLeft(p) \in [0 .. Len(p) -> Int]
         /\ FeeLeft(p)[0] = IssuanceFee
         /\ \A n \in 1 .. Len(p) :
              FeeLeft(p)[n] = FeeLeft(p)[n - 1] - Min({Available(p[n]), FeeLeft(p)[n - 1]})
<1> DEFINE len == Len(p)
           step(n, v) == v - Min({Available(p[n]), v})
           g == [q \in (1 .. len) \X Int |-> step(q[1], q[2])]
           IsLeft(F) == F = [n \in 0 .. len |-> IF n = 0 THEN IssuanceFee ELSE step(n, F[n - 1])]
           C == CHOOSE F : IsLeft(F)
<1>1. len \in Nat
  OBVIOUS
<1>2. \A n \in 1 .. len, v \in Int : step(n, v) \in Int
  <2> TAKE n \in 1 .. len, v \in Int
  <2>1. Available(p[n]) \in Int
    BY BatchIs
  <2>2. Min({Available(p[n]), v}) = IF Available(p[n]) <= v THEN Available(p[n]) ELSE v
    BY <2>1, MinIs
  <2> QED BY <2>1, <2>2
<1> HIDE DEF step
<1>3. g \in [(1 .. len) \X Int -> Int] /\ \A n \in 1 .. len, v \in Int : g[<<n, v>>] = step(n, v)
  <2>1. \A q \in (1 .. len) \X Int : g[q] = step(q[1], q[2]) /\ q[1] \in 1 .. len /\ q[2] \in Int
    OBVIOUS
  <2>2. \A q \in (1 .. len) \X Int : g[q] \in Int
    <3> HIDE DEF g, len
    <3> QED BY <1>2, <2>1
  <2>3. g = [q \in (1 .. len) \X Int |-> g[q]]
    OBVIOUS
  <2>4. \A n \in 1 .. len, v \in Int : <<n, v>> \in (1 .. len) \X Int
    OBVIOUS
  <2>5. \A n \in 1 .. len, v \in Int : g[<<n, v>>] = step(n, v)
    BY <2>4
  <2> HIDE DEF g, len
  <2> QED BY <2>2, <2>3, <2>5
<1>4. PICK F \in [0 .. len -> Int] : F[0] = IssuanceFee /\ \A n \in 1 .. len : F[n] = g[<<n, F[n - 1]>>]
  <2>1. IssuanceFee \in Int /\ len \in Nat
    BY <1>1, FeeAssumption
  <2> HIDE DEF g, len
  <2> QED BY <1>3, <2>1, StepsExist, ZenonT(40)
<1>5. \A n \in 1 .. len : n - 1 \in 0 .. len /\ F[n - 1] \in Int /\ F[n] = step(n, F[n - 1])
  <2> TAKE n \in 1 .. len
  <2>1. n - 1 \in 0 .. len
    BY <1>1
  <2>2. F[n - 1] \in Int
    BY <1>4, <2>1
  <2> HIDE DEF g, len
  <2> QED BY <1>3, <1>4, <2>1, <2>2
<1>6. IsLeft(F)
  <2>1. F = [n \in 0 .. len |-> F[n]]
    BY <1>4
  <2>2. \A n \in 0 .. len : F[n] = IF n = 0 THEN IssuanceFee ELSE step(n, F[n - 1])
    <3> HIDE DEF g, len
    <3>1. \A n \in 0 .. len : n = 0 \/ n \in 1 .. len
      BY <1>1
    <3> QED BY <1>4, <1>5, <3>1
  <2> HIDE DEF g, len
  <2> QED BY <2>1, <2>2
<1>7. IsLeft(C)
  <2> HIDE DEF IsLeft
  <2> QED BY <1>6
<1>8. FeeLeft(p) = C
  BY DEF FeeLeft, step
<1> HIDE DEF C, g, len
<1>9. DOMAIN C = 0 .. len /\ C[0] = IssuanceFee /\ \A n \in 1 .. len : C[n] = step(n, C[n - 1])
  BY <1>1, <1>7
<1>10. C = [n \in 0 .. len |-> C[n]]
  BY <1>7
<1> HIDE DEF IsLeft
<1>11. \A n \in 0 .. len : F[n] = C[n]
  <2> DEFINE Bad == {n \in 0 .. len : F[n] # C[n]}
  <2>1. SUFFICES ASSUME Bad # {} PROVE FALSE
    OBVIOUS
  <2>2. PICK n \in Bad : \A k \in Bad : n <= k
    <3>1. Bad \subseteq Nat
      OBVIOUS
    <3> HIDE DEF Bad
    <3> QED BY <2>1, <3>1, HasLeast
  <2>3. n \in 0 .. len /\ F[n] # C[n]
    BY <2>2
  <2>4. n \in 1 .. len /\ n - 1 \in 0 .. len /\ ~(n <= n - 1)
    <3>1. n # 0
      BY <1>4, <1>9, <2>3
    <3>2. n \in Nat /\ n <= len
      BY <2>3
    <3> QED BY <1>1, <3>1, <3>2
  <2>5. n - 1 \notin Bad
    <3> HIDE DEF Bad
    <3> QED BY <2>2, <2>4
  <2>6. F[n - 1] = C[n - 1]
    BY <2>4, <2>5
  <2> QED BY <1>5, <1>9, <2>3, <2>4, <2>6
<1>12. C \in [0 .. len -> Int]
  <2>1. \A n \in 0 .. len : C[n] \in Int
    BY <1>4, <1>11
  <2> QED BY <1>10, <2>1
<1> QED BY <1>8, <1>9, <1>12 DEF len, step

(***************************************************************************)
(* What a member reads from a burn: the items it takes.                    *)
(***************************************************************************)
LEMMA RowsTypedIs ==
  ASSUME NEW s, RowsTyped(s)
  PROVE  /\ s \in Seq(ToSet(s)) /\ DOMAIN s = 1 .. Len(s) /\ Len(s) \in Nat
         /\ \A k \in DOMAIN s : RowTyped(s[k]) /\ s[k] \in ToSet(s) /\ s[k].reserve \in Nat
         /\ \A r \in ToSet(s) : RowTyped(r)
BY DEF RowsTyped, RowTyped, IsSeq, ToSet

LEMMA ItemsAre ==
  ASSUME NEW t, NEW expired, IsSeq(t.inputs), RowsTyped(expired), Len(t.inputs) >= 3
  PROVE  RowsTyped(ItemsIn(t, expired)) /\ ToSet(ItemsIn(t, expired)) \subseteq ToSet(expired)
<1> DEFINE item(k) == \E r \in ToSet(expired) : t.inputs[k].from = <<"out", r.out>>
           top == Len(t.inputs)
           Leads(n) == /\ \A k \in 2 .. n + 1 : item(k)
                       /\ n + 1 < top => ~item(n + 2)
           count == CHOOSE n \in 0 .. top - 1 : Leads(n)
           RowAt(k) == CHOOSE r \in ToSet(expired) : t.inputs[1 + k].from = <<"out", r.out>>
           items == ItemsIn(t, expired)
<1>1. top \in Nat /\ top >= 3
  BY IsSeqProperties
<1>2. items = [k \in 1 .. count |-> RowAt(k)]
  BY DEF ItemsIn
<1>3. \E n \in 0 .. top - 1 : Leads(n)
  <2> DEFINE Rest == {n \in 0 .. top - 2 : ~item(n + 2)}
  <2>1. CASE Rest = {}
    <3>1. \A k \in 2 .. top : k - 2 \in 0 .. top - 2 /\ (k - 2) + 2 = k
      BY <1>1
    <3>2. \A k \in 2 .. top : item(k)
      <4> HIDE DEF item, top
      <4> QED BY <2>1, <3>1
    <3>3. top - 1 \in 0 .. top - 1 /\ (top - 1) + 1 = top /\ ~(top < top)
      BY <1>1
    <3>4. Leads(top - 1)
      <4> HIDE DEF item, top
      <4> QED BY <3>2, <3>3
    <3> HIDE DEF Leads, top
    <3> QED BY <3>3, <3>4
  <2>2. CASE Rest # {}
    <3>1. Rest \subseteq Nat
      OBVIOUS
    <3>2. PICK n \in Rest : \A m \in Rest : n <= m
      <4> HIDE DEF Rest
      <4> QED BY <2>2, <3>1, HasLeast
    <3>3. n \in 0 .. top - 2 /\ ~item(n + 2)
      BY <3>2
    <3>4. \A k \in 2 .. n + 1 : k - 2 \in 0 .. top - 2 /\ ~(n <= k - 2) /\ (k - 2) + 2 = k
      BY <1>1, <3>3
    <3>5. \A k \in 2 .. n + 1 : k - 2 \notin Rest
      <4> HIDE DEF Rest, top
      <4> QED BY <3>2, <3>4
    <3>6. \A k \in 2 .. n + 1 : item(k)
      <4> HIDE DEF item, top
      <4> QED BY <3>4, <3>5
    <3>7. n \in 0 .. top - 1
      BY <1>1, <3>3
    <3>8. Leads(n)
      <4> HIDE DEF item, top
      <4> QED BY <3>3, <3>6
    <3> HIDE DEF Leads, top
    <3> QED BY <3>7, <3>8
  <2> QED BY <2>1, <2>2
<1>4. count \in 0 .. top - 1 /\ Leads(count)
  <2> HIDE DEF Leads, top
  <2> QED BY <1>3
<1> HIDE DEF count
<1>5. count \in Nat /\ \A k \in 1 .. count : 1 + k \in 2 .. count + 1
  BY <1>1, <1>4
<1>6. \A k \in 1 .. count : RowAt(k) \in ToSet(expired)
  <2>1. \A k \in 2 .. count + 1 : item(k)
    BY <1>4
  <2> QED BY <1>5, <2>1
<1> HIDE DEF RowAt, items
<1>7. items = [k \in 1 .. count |-> items[k]] /\ \A k \in 1 .. count : items[k] = RowAt(k)
  BY <1>2
<1>8. IsSeq(items) /\ DOMAIN items = 1 .. count
  BY <1>5, <1>7, MapIs
<1>9. ToSet(items) \subseteq ToSet(expired)
  <2>1. ToSet(items) = {items[k] : k \in 1 .. count}
    BY <1>8, IsSeqProperties
  <2> QED BY <1>6, <1>7, <2>1
<1>10. \A k \in DOMAIN items : RowTyped(items[k])
  BY <1>6, <1>7, <1>8, RowsTypedIs
<1> QED BY <1>8, <1>9, <1>10 DEF RowsTyped, items

(* The reserves of rows, one after another. *)
LEMMA EachReserve ==
  ASSUME NEW s, RowsTyped(s)
  PROVE  /\ Len(ReservesOf(s)) \in Nat /\ DOMAIN ReservesOf(s) = 1 .. Len(ReservesOf(s))
         /\ IsSeq(ReservesOf(s))
         /\ \A g \in DOMAIN ReservesOf(s) :
              \E r \in ToSet(s) : ReservesOf(s)[g] = r.reserve
         /\ s # <<>> => Len(ReservesOf(s)) # 0
<1> DEFINE R == ReserveSet(s)
           N == Cardinality(R)
           a == ReservesOf(s)
<1>1. /\ R \in SUBSET Nat /\ IsFiniteSet(R) /\ N \in Nat /\ Len(a) = N
      /\ (R = {}) <=> (s = <<>>)
  BY RowsTypedIs, ReservesAre
<1>2. a = [k \in 1 .. N |-> CHOOSE x \in R : Cardinality({y \in R : y <= x}) = k]
  <2>1. a = Ascending[R]
    BY DEF ReservesOf, ReserveSet
  <2> HIDE DEF a, R
  <2> QED BY <1>1, <2>1 DEF Ascending
<1>3. R = {r.reserve : r \in ToSet(s)}
  BY DEF ReserveSet
<1>4. ASSUME NEW g \in 1 .. N PROVE a[g] \in R
  <2> HIDE DEF R, a
  <2>1. [x \in R |-> RankIn(R, x)] \in Bijection(R, 1 .. N)
    BY <1>1, RanksAre
  <2>2. PICK x \in R : RankIn(R, x) = g
    BY <2>1 DEF Bijection, Surjection
  <2>3. Cardinality({y \in R : y <= x}) = g
    BY <2>2 DEF RankIn
  <2>4. a[g] = CHOOSE z \in R : Cardinality({y \in R : y <= z}) = g
    BY <1>2
  <2> QED BY <2>3, <2>4
<1>5. IsSeq(a) /\ DOMAIN a = 1 .. N
  <2> DEFINE at(k) == CHOOSE x \in R : Cardinality({y \in R : y <= x}) = k
  <2>1. a = [k \in 1 .. N |-> a[k]]
    <3>1. a = [k \in 1 .. N |-> at(k)]
      BY <1>2
    <3> HIDE DEF at, R, a
    <3> QED BY <3>1
  <2> HIDE DEF R, a
  <2> QED BY <1>1, <2>1, MapIs
<1>6. N = 0 => R = {}
  <2> HIDE DEF R
  <2> QED BY <1>1, FS_EmptySet
<1>7. \A g \in DOMAIN a : \E r \in ToSet(s) : a[g] = r.reserve
  <2> HIDE DEF a
  <2> QED BY <1>3, <1>4, <1>5
<1> HIDE DEF R, a
<1> QED BY <1>1, <1>5, <1>6, <1>7 DEF a

(* What the rows of a kind hold, and what a burn destroys of it. *)
KindsIn(s) == {r.kind : r \in ToSet(s)}
Held(s, kind) == [k \in DOMAIN s |-> IF s[k].kind = kind THEN s[k].amount ELSE 0]

LEMMA HeldIs ==
  ASSUME NEW s, RowsTyped(s), NEW kind
  PROVE  /\ Held(s, kind) \in Seq(Int) /\ Len(Held(s, kind)) = Len(s) /\ Sum(Held(s, kind)) \in Int
         /\ \A k \in 1 .. Len(s) : Held(s, kind)[k] = IF s[k].kind = kind THEN s[k].amount ELSE 0
         /\ kind \notin KindsIn(s) => Sum(Held(s, kind)) = 0
<1> DEFINE h == Held(s, kind)
<1>1. /\ DOMAIN s = 1 .. Len(s) /\ Len(s) \in Nat
      /\ \A k \in DOMAIN s : s[k].amount \in Int /\ s[k] \in ToSet(s)
  BY RowsTypedIs DEF RowTyped
<1>2. h = [k \in 1 .. Len(s) |-> IF s[k].kind = kind THEN s[k].amount ELSE 0]
  BY <1>1 DEF Held
<1> HIDE DEF h
<1>3. \A k \in 1 .. Len(s) : h[k] = (IF s[k].kind = kind THEN s[k].amount ELSE 0) /\ h[k] \in Int
  BY <1>1, <1>2
<1>4. h = [k \in 1 .. Len(s) |-> h[k]]
  BY <1>2
<1>5. h \in Seq(Int) /\ Len(h) = Len(s)
  BY <1>1, <1>3, <1>4
<1>6. Sum(h) \in Int
  BY <1>5, SumType
<1>7. ASSUME kind \notin KindsIn(s) PROVE Sum(h) = 0
  <2>1. \A k \in 1 .. Len(s) : s[k].kind # kind
    BY <1>1, <1>7 DEF KindsIn
  <2>2. \A k \in 1 .. Len(h) : h[k] = 0
    BY <1>3, <1>5, <2>1
  <2> QED BY <1>5, <2>2, SumZero
<1> QED BY <1>3, <1>5, <1>6, <1>7 DEF h

LEMMA BurnOutputsAre ==
  ASSUME NEW s, RowsTyped(s)
  PROVE  /\ IsSeq(BurnOutputs(s)) /\ Len(BurnOutputs(s)) = Len(InOrder[KindsIn(s)])
         /\ DOMAIN BurnOutputs(s) = 1 .. Len(BurnOutputs(s)) /\ Len(BurnOutputs(s)) \in Nat
         /\ ToSet(InOrder[KindsIn(s)]) = KindsIn(s)
         /\ \A t, u \in DOMAIN BurnOutputs(s) :
              InOrder[KindsIn(s)][t] = InOrder[KindsIn(s)][u] => t = u
         /\ \A v \in KindsIn(s) : \E t \in DOMAIN BurnOutputs(s) : InOrder[KindsIn(s)][t] = v
         /\ \A t \in DOMAIN BurnOutputs(s) :
              BurnOutputs(s)[t] = Out(OpReturn, InOrder[KindsIn(s)][t],
                                      Sum(Held(s, InOrder[KindsIn(s)][t])))
<1> DEFINE K == KindsIn(s)
           kinds == InOrder[K]
           b == BurnOutputs(s)
           Burnt(t) == Out(OpReturn, kinds[t], Sum(Held(s, kinds[t])))
<1>1. K \in SUBSET {"tick", "verifier"}
  BY RowsTypedIs DEF KindsIn, RowTyped
<1>2. /\ kinds \in Seq({"tick", "verifier"}) /\ ToSet(kinds) = K
      /\ \A t, u \in DOMAIN kinds : kinds[t] = kinds[u] => t = u
  <2> HIDE DEF K
  <2> QED BY <1>1, InOrderIs
<1>3. b = [t \in DOMAIN kinds |-> Burnt(t)]
  BY DEF BurnOutputs, KindsIn, Held
<1> HIDE DEF kinds, K, b, Burnt
<1>4. Len(kinds) \in Nat /\ DOMAIN kinds = 1 .. Len(kinds)
  BY <1>2
<1>5. \A t \in DOMAIN kinds : b[t] = Burnt(t)
  BY <1>3
<1>6. b = [t \in 1 .. Len(kinds) |-> b[t]]
  BY <1>3, <1>4
<1>7. IsSeq(b) /\ Len(b) = Len(kinds) /\ DOMAIN b = 1 .. Len(kinds)
  BY <1>4, <1>6, MapIs
<1>8. \A v \in K : \E t \in DOMAIN b : kinds[t] = v
  BY <1>2, <1>4, <1>7 DEF ToSet
<1> QED BY <1>2, <1>4, <1>5, <1>7, <1>8 DEF kinds, K, b, Burnt

(* Either nothing of a kind is burned and nothing destroyed, or what its    *)
(* rows hold.                                                              *)
LEMMA Destroyed ==
  ASSUME NEW s, RowsTyped(s), NEW kind, NEW d \in Seq(Int), Len(d) = Len(BurnOutputs(s)),
         \A t \in 1 .. Len(d) :
           d[t] = IF InOrder[KindsIn(s)][t] = kind
                  THEN Sum(Held(s, InOrder[KindsIn(s)][t])) ELSE 0
  PROVE  Sum(d) = Sum(Held(s, kind))
<1> DEFINE kinds == InOrder[KindsIn(s)]
           total == Sum(Held(s, kind))
<1>1. DOMAIN BurnOutputs(s) = 1 .. Len(d) /\ Len(d) \in Nat
  BY BurnOutputsAre
<1>2. CASE kind \notin KindsIn(s)
  <2>1. \A t \in 1 .. Len(d) : kinds[t] \in KindsIn(s)
    <3>1. ToSet(kinds) = KindsIn(s) /\ Len(kinds) = Len(d)
      BY BurnOutputsAre
    <3>2. DOMAIN kinds = 1 .. Len(d)
      <4>1. KindsIn(s) \in SUBSET {"tick", "verifier"}
        BY RowsTypedIs DEF KindsIn, RowTyped
      <4>2. kinds \in Seq({"tick", "verifier"})
        BY <4>1, InOrderIs
      <4> QED BY <3>1, <4>2
    <3> QED BY <3>1, <3>2 DEF ToSet
  <2>2. \A t \in 1 .. Len(d) : d[t] = 0
    BY <1>2, <2>1
  <2>3. Sum(d) = 0
    BY <2>2, SumZero
  <2>4. total = 0
    BY <1>2, HeldIs
  <2> QED BY <2>3, <2>4
<1>3. CASE kind \in KindsIn(s)
  <2>1. PICK i \in 1 .. Len(d) : kinds[i] = kind
    BY <1>1, <1>3, BurnOutputsAre
  <2>2. \A t \in 1 .. Len(d) : kinds[t] = kind => t = i
    BY <1>1, <2>1, BurnOutputsAre
  <2>3. \A t \in 1 .. Len(d) : d[t] = IF t = i THEN total ELSE 0
    BY <2>1, <2>2
  <2>4. total \in Int
    BY HeldIs
  <2> DEFINE u == <<total>>
  <2> HIDE DEF total
  <2>5. u \in Seq(Int) /\ Sum(u) = total
    BY <2>4, SumOne
  <2>6. Len(u) = 1 /\ u[1] = total
    OBVIOUS
  <2> HIDE DEF u
  <2>7. \A n \in 1 .. Len(d) : d[n] = IF n - (i - 1) \in 1 .. Len(u) THEN u[n - (i - 1)] ELSE 0
    <3> TAKE n \in 1 .. Len(d)
    <3>1. n - (i - 1) \in 1 .. Len(u) <=> n = i
      BY <2>6
    <3>2. i - (i - 1) = 1
      OBVIOUS
    <3> QED BY <2>3, <2>6, <3>1, <3>2
  <2>8. i - 1 \in Nat /\ (i - 1) + Len(u) <= Len(d)
    BY <2>6
  <2>9. Sum(d) = Sum(u)
    BY <2>5, <2>7, <2>8, SumInside
  <2> QED BY <2>5, <2>9 DEF total
<1> QED BY <1>2, <1>3

(***************************************************************************)
(* A burn that a member signs.                                             *)
(***************************************************************************)
UtxoIs == \A r \in ToSet(rows) : utxo[r.reserve] \in Int

LEMMA BurnIsFair ==
  ASSUME IsSeq(tx.inputs), IsSeq(tx.outputs), RowsTyped(rows), UtxoIs, ValidBurn(tx, rows, utxo)
  PROVE  BurnsAreFair
<1> DEFINE taken == ItemsIn(tx, rows)
           groups == ReservesOf(taken)
           n == Len(taken)
           G == Len(groups)
           T == Len(BurnOutputs(taken))
           fee == BurnFee(n, G)
           kinds == InOrder[KindsIn(taken)]
           ins == tx.inputs
           outs == tx.outputs
           paid(g) == utxo[groups[g]] - outs[1 + T + g].amount
<1>1. /\ Len(ins) >= 3 /\ ins[1].out = EyeOut /\ outs[1] = EyeOut
      /\ n \in 1 .. MaxItems
      /\ \A k \in DOMAIN taken : ins[1 + k] = ItemInput(taken[k])
      /\ Len(ins) = 1 + n + G /\ Len(outs) = 1 + T + G + 1
      /\ SubSeq(outs, 2, 1 + T) = BurnOutputs(taken)
      /\ \A g \in DOMAIN groups :
           /\ ins[1 + n + g] = ReserveInput(utxo, taken, groups[g])
           /\ outs[1 + T + g] = Out(Account(OwnerOf(taken, groups[g])), "policy",
                                    Remaining(utxo, taken, g))
      /\ Last(outs) = Out(MinerFee, "policy", fee)
  BY DEF ValidBurn
<1>2. RowsTyped(taken) /\ ToSet(taken) \subseteq ToSet(rows)
  BY <1>1, ItemsAre
<1>3. /\ DOMAIN ins = 1 .. 1 + n + G /\ DOMAIN outs = 1 .. 1 + T + G + 1
      /\ DOMAIN taken = 1 .. n /\ DOMAIN groups = 1 .. G
      /\ n \in Nat \ {0} /\ G \in Nat \ {0} /\ T \in Nat
  <2>1. DOMAIN taken = 1 .. n /\ n \in Nat /\ n # 0
    BY <1>1, <1>2, RowsTypedIs
  <2>2. taken # <<>>
    BY <1>2, <2>1, RowsTypedIs
  <2>3. G \in Nat \ {0} /\ DOMAIN groups = 1 .. G
    BY <1>2, <2>2, EachReserve
  <2>4. T \in Nat
    BY <1>2, BurnOutputsAre
  <2>5. DOMAIN ins = 1 .. Len(ins) /\ DOMAIN outs = 1 .. Len(outs)
    BY IsSeqProperties
  <2> HIDE DEF taken, groups, n, G, T, ins, outs
  <2> QED BY <1>1, <2>1, <2>3, <2>4, <2>5
<1>4. fee \in Nat
  BY <1>3, BurnFeeType
<1>5. \A g \in 1 .. G : paid(g) = FeeShare(fee, G, g)
  <2> TAKE g \in 1 .. G
  <2>1. PICK r \in ToSet(taken) : groups[g] = r.reserve
    BY <1>2, <1>3, EachReserve
  <2>2. utxo[groups[g]] \in Int
    <3> HIDE DEF taken, groups
    <3> QED BY <1>2, <2>1 DEF UtxoIs
  <2>3. Remaining(utxo, taken, g) = utxo[groups[g]] - FeeShare(fee, G, g)
    BY DEF Remaining
  <2>4. FeeShare(fee, G, g) \in Int
    <3> HIDE DEF fee, G
    <3> QED BY <1>3, <1>4, SharesAre
  <2>5. outs[1 + T + g].amount = Remaining(utxo, taken, g)
    <3>1. outs[1 + T + g] = Out(Account(OwnerOf(taken, groups[g])), "policy", Remaining(utxo, taken, g))
      BY <1>1, <1>3
    <3> HIDE DEF taken, groups, outs, T, G
    <3> QED BY <3>1 DEF Out
  <2> HIDE DEF taken, groups, outs, T, G, fee
  <2> QED BY <2>2, <2>3, <2>4, <2>5
<1>6. Sum([g \in DOMAIN groups |-> paid(g)]) = fee
  <2> HIDE DEF taken, groups, outs, T, G, fee, paid
  <2>1. [g \in DOMAIN groups |-> paid(g)] = [g \in 1 .. G |-> FeeShare(fee, G, g)]
    BY <1>3, <1>5
  <2> QED BY <1>3, <1>4, <2>1, SharesAre
<1>7. \A g, h \in DOMAIN groups : paid(g) - paid(h) \in {-1, 0, 1}
  <2> TAKE g, h \in DOMAIN groups
  <2> HIDE DEF taken, groups, outs, T, G, fee, paid
  <2>1. g \in 1 .. G /\ h \in 1 .. G
    BY <1>3
  <2>2. FeeShare(fee, G, g) - FeeShare(fee, G, h) \in {-1, 0, 1}
    BY <1>3, <1>4, <2>1, SharesAre
  <2> QED BY <1>5, <2>1, <2>2
<1>8. ASSUME NEW kind \in {"tick", "verifier"}
      PROVE  Sum([k \in DOMAIN ins |-> IF ins[k].out.asset = kind THEN ins[k].out.amount ELSE 0])
             = Sum([k \in DOMAIN outs |-> IF outs[k].asset = kind /\ outs[k].to = OpReturn
                                          THEN outs[k].amount ELSE 0])
  <2> DEFINE I == [k \in DOMAIN ins |-> IF ins[k].out.asset = kind THEN ins[k].out.amount ELSE 0]
             O == [k \in DOMAIN outs |-> IF outs[k].asset = kind /\ outs[k].to = OpReturn
                                         THEN outs[k].amount ELSE 0]
             h == Held(taken, kind)
             d == [t \in 1 .. T |-> IF kinds[t] = kind THEN Sum(Held(taken, kinds[t])) ELSE 0]
  <2>1. /\ h \in Seq(Int) /\ Len(h) = n
        /\ \A k \in 1 .. n : h[k] = IF taken[k].kind = kind THEN taken[k].amount ELSE 0
    BY <1>2, HeldIs
  <2>2. \A k \in 1 .. 1 + n + G : I[k] = IF k - 1 \in 1 .. Len(h) THEN h[k - 1] ELSE 0
    <3> HIDE DEF taken, groups, n, G, h, ins
    <3>1. \A k \in 1 .. 1 + n + G : I[k] = IF ins[k].out.asset = kind THEN ins[k].out.amount ELSE 0
      BY <1>3
    <3> HIDE DEF I
    <3> TAKE k \in 1 .. 1 + n + G
    <3>2. CASE k = 1
      <4>1. k - 1 \notin 1 .. Len(h) /\ ins[k].out.asset # kind
        BY <1>1, <3>2 DEF EyeOut, Out
      <4> QED BY <3>1, <4>1
    <3>3. CASE k - 1 \in 1 .. n
      <4> DEFINE at == k - 1
      <4>1. at \in 1 .. n /\ 1 + at = k
        BY <3>3
      <4> HIDE DEF at
      <4>2. ins[1 + at] = ItemInput(taken[at])
        BY <1>1, <1>3, <4>1
      <4>3. ins[k].out.asset = taken[at].kind /\ ins[k].out.amount = taken[at].amount
        BY <4>1, <4>2 DEF ItemInput, In, Out
      <4>4. h[at] = IF taken[at].kind = kind THEN taken[at].amount ELSE 0
        BY <2>1, <4>1
      <4> QED BY <2>1, <3>1, <3>3, <4>3, <4>4 DEF at
    <3>4. CASE k - (1 + n) \in 1 .. G
      <4> DEFINE g == k - (1 + n)
      <4>1. g \in 1 .. G /\ 1 + n + g = k /\ k - 1 \notin 1 .. n
        BY <1>3, <3>4
      <4> HIDE DEF g
      <4>2. ins[1 + n + g] = ReserveInput(utxo, taken, groups[g])
        BY <1>1, <1>3, <4>1
      <4>3. ins[k].out.asset = "policy"
        BY <4>1, <4>2 DEF ReserveInput, In, Out
      <4> QED BY <2>1, <3>1, <4>1, <4>3
    <3>5. k = 1 \/ k - 1 \in 1 .. n \/ k - (1 + n) \in 1 .. G
      BY <1>3
    <3> QED BY <3>2, <3>3, <3>4, <3>5
  <2>3. I \in Seq(Int) /\ Len(I) = 1 + n + G
    <3>1. I = [k \in 1 .. 1 + n + G |-> I[k]]
      BY <1>3
    <3>2. \A k \in 1 .. Len(h) : h[k] \in Int
      <4> HIDE DEF h
      <4> QED BY <2>1
    <3> HIDE DEF I, h, n, G
    <3>3. \A k \in 1 .. 1 + n + G : I[k] \in Int
      BY <2>2, <3>2
    <3>4. 1 + n + G \in Nat
      BY <1>3
    <3> QED BY <3>1, <3>3, <3>4
  <2>4. Sum(I) = Sum(h)
    <3> HIDE DEF I, h, n, G
    <3>1. 1 + Len(h) <= Len(I) /\ \A k \in 1 .. Len(I) : I[k] = IF k - 1 \in 1 .. Len(h) THEN h[k - 1] ELSE 0
      BY <1>3, <2>1, <2>2, <2>3
    <3> QED BY <2>1, <2>3, <3>1, SumInside
  <2>5. \A t \in 1 .. T : outs[1 + t] = Out(OpReturn, kinds[t], Sum(Held(taken, kinds[t])))
    <3> TAKE t \in 1 .. T
    <3>1. BurnOutputs(taken)[t] = Out(OpReturn, kinds[t], Sum(Held(taken, kinds[t])))
      BY <1>2, BurnOutputsAre
    <3>2. SubSeq(outs, 2, 1 + T)[t] = outs[2 + t - 1]
      <4>1. 2 \in Nat \ {0} /\ 1 + T \in Nat /\ 1 + T <= Len(outs) /\ t \in 1 .. (1 + T) - 2 + 1
        <5> HIDE DEF T, G, outs
        <5> QED BY <1>1, <1>3, SMTT(20)
      <4> HIDE DEF T
      <4> QED BY <4>1, IsSeqSub
    <3>3. 2 + t - 1 = 1 + t
      OBVIOUS
    <3> QED BY <1>1, <3>1, <3>2, <3>3
  <2>6. d \in Seq(Int) /\ Len(d) = T
        /\ \A t \in 1 .. T : d[t] = IF kinds[t] = kind THEN Sum(Held(taken, kinds[t])) ELSE 0
    <3>1. \A t \in 1 .. T : d[t] = IF kinds[t] = kind THEN Sum(Held(taken, kinds[t])) ELSE 0
      OBVIOUS
    <3>2. d = [t \in 1 .. T |-> d[t]]
      OBVIOUS
    <3>3. \A t \in 1 .. T : Sum(Held(taken, kinds[t])) \in Int
      BY <1>2, HeldIs
    <3> HIDE DEF d, T, taken, kinds
    <3>4. \A t \in 1 .. T : d[t] \in Int
      BY <3>1, <3>3
    <3> QED BY <1>3, <3>1, <3>2, <3>4, SMTT(20)
  <2>7. Sum(d) = Sum(h)
    <3> HIDE DEF d
    <3> QED BY <1>2, <2>6, Destroyed
  <2> HIDE DEF d
  <2>8. T \in Nat /\ G \in Nat
    BY <1>3
  <2>9. \A k \in 1 .. 1 + T + G + 1 : O[k] = IF k - 1 \in 1 .. Len(d) THEN d[k - 1] ELSE 0
    <3>0. Last(outs) = outs[1 + T + G + 1]
      BY <1>1 DEF Last
    <3> HIDE DEF taken, groups, n, G, T, outs, kinds
    <3>1. \A k \in 1 .. 1 + T + G + 1 : O[k] = IF outs[k].asset = kind /\ outs[k].to = OpReturn
                                               THEN outs[k].amount ELSE 0
      BY <1>3
    <3> HIDE DEF O
    <3> TAKE k \in 1 .. 1 + T + G + 1
    <3>2. CASE k = 1
      <4>1. k - 1 \notin 1 .. Len(d) /\ outs[k].asset # kind
        BY <1>1, <3>2 DEF EyeOut, Out
      <4> QED BY <3>1, <4>1
    <3>3. CASE k - 1 \in 1 .. T
      <4> DEFINE at == k - 1
      <4>1. outs[k] = Out(OpReturn, kinds[at], Sum(Held(taken, kinds[at])))
        <5>1. 1 + at = k
          BY <3>3
        <5> HIDE DEF at
        <5>2. at \in 1 .. T
          BY <3>3 DEF at
        <5>3. outs[1 + at] = Out(OpReturn, kinds[at], Sum(Held(taken, kinds[at])))
          BY <2>5, <5>2
        <5> QED BY <5>1, <5>3
      <4>2. outs[k].asset = kinds[at] /\ outs[k].to = OpReturn /\ outs[k].amount = Sum(Held(taken, kinds[at]))
        BY <4>1 DEF Out
      <4>3. d[at] = IF kinds[at] = kind THEN Sum(Held(taken, kinds[at])) ELSE 0
        BY <2>6, <3>3
      <4> QED BY <2>6, <3>1, <3>3, <4>2, <4>3
    <3>4. CASE k - (1 + T) \in 1 .. G
      <4> DEFINE g == k - (1 + T)
      <4>1. 1 + T + g = k /\ g \in 1 .. G /\ k - 1 \notin 1 .. T
        BY <2>8, <3>4
      <4> HIDE DEF g
      <4>2. outs[1 + T + g].asset = "policy"
        <5>1. outs[1 + T + g] = Out(Account(OwnerOf(taken, groups[g])), "policy", Remaining(utxo, taken, g))
          BY <1>1, <1>3, <4>1
        <5> QED BY <5>1 DEF Out
      <4> QED BY <2>6, <3>1, <4>1, <4>2
    <3>5. CASE k = 1 + T + G + 1
      <4>1. outs[k].asset = "policy" /\ k - 1 \notin 1 .. T
        BY <1>1, <1>3, <3>0, <3>5, SMTT(20) DEF Out
      <4> QED BY <2>6, <3>1, <4>1
    <3>6. k = 1 \/ k - 1 \in 1 .. T \/ k - (1 + T) \in 1 .. G \/ k = 1 + T + G + 1
      BY <2>8
    <3> QED BY <3>2, <3>3, <3>4, <3>5, <3>6
  <2>10. O \in Seq(Int) /\ Len(O) = 1 + T + G + 1
    <3>1. O = [k \in 1 .. 1 + T + G + 1 |-> O[k]]
      BY <1>3
    <3>2. \A k \in 1 .. Len(d) : d[k] \in Int
      BY <2>6
    <3> HIDE DEF O, T, G
    <3>3. \A k \in 1 .. 1 + T + G + 1 : O[k] \in Int
      BY <2>9, <3>2
    <3>4. 1 + T + G + 1 \in Nat
      BY <1>3
    <3> QED BY <3>1, <3>3, <3>4
  <2>11. Sum(O) = Sum(d)
    <3> HIDE DEF O, T, G
    <3>1. 1 + Len(d) <= Len(O) /\ \A k \in 1 .. Len(O) : O[k] = IF k - 1 \in 1 .. Len(d) THEN d[k - 1] ELSE 0
      BY <1>3, <2>6, <2>9, <2>10
    <3> QED BY <2>6, <2>10, <3>1, SumInside
  <2> QED BY <2>4, <2>7, <2>11
<1> HIDE DEF fee, paid, G, n
<1> QED BY <1>6, <1>7, <1>8 DEF BurnsAreFair, paid, fee, G, n

(***************************************************************************)
(* The transactions that are laid out, as they should be or otherwise.     *)
(***************************************************************************)
LEMMA OutsIs ==
  ASSUME NEW s, IsSeq(s)
  PROVE  OutsAre(s) <=> \A o \in ToSet(s) : IsOut(o)
BY IsSeqProperties DEF OutsAre

LEMMA MapOuts ==
  ASSUME NEW n \in Nat, NEW s, s = [k \in 1 .. n |-> s[k]], \A k \in 1 .. n : IsOut(s[k])
  PROVE  OutsAre(s)
BY MapIs DEF OutsAre

LEMMA OneIs == ASSUME NEW x PROVE IsSeq(<<x>>)
<1>1. <<x>> \in Seq({x})
  OBVIOUS
<1> QED BY <1>1, SeqIs

LEMMA ThreeOuts ==
  ASSUME NEW x, NEW y, NEW z, IsOut(x), IsOut(y), IsOut(z)
  PROVE  OutsAre(<<x, y, z>>)
<1> DEFINE s == <<x, y, z>>
<1>1. s \in Seq({x, y, z}) /\ DOMAIN s = {1, 2, 3} /\ s[1] = x /\ s[2] = y /\ s[3] = z
  OBVIOUS
<1>2. IsSeq(s)
  <2> HIDE DEF s
  <2> QED BY <1>1, SeqIs
<1> HIDE DEF s
<1>3. OutsAre(s)
  BY <1>1, <1>2 DEF OutsAre
<1> QED BY <1>3 DEF s

LEMMA AccountReserveIs ==
  ASSUME NEW p \in Seq(Batches), NEW b \in 1 .. Len(p)
  PROVE  AccountReserve(p, b) \in Int
<1>1. Sum(p[b].fees) \in Int /\ Len(p[b].kinds) \in Nat
  BY BatchIs
<1>2. OperationalFee * Len(p[b].kinds) \in Int
  <2>1. OperationalFee \in Nat /\ \A x, y \in Nat : x * y \in Int
    BY FeeAssumption
  <2> QED BY <1>1, <2>1
<1>3. b \in 0 .. Len(p) /\ b - 1 \in 0 .. Len(p)
  OBVIOUS
<1>4. FeeLeft(p)[b] \in Int /\ FeeLeft(p)[b - 1] \in Int
  BY <1>3, FeeLeftIs
<1> QED BY <1>1, <1>2, <1>4 DEF AccountReserve

LEMMA IssuanceTyped ==
  ASSUME NEW p \in Seq(Batches)
  PROVE  IsTx(Issuance(p, Now, Branch)) /\ AmountsAre(Issuance(p, Now, Branch))
<1> DEFINE issued == Issued(p)
           tokens == Tokens(p)
           amount(kind) == Sum([k \in DOMAIN issued |->
                             IF issued[k].kind = kind THEN Amount(kind, Now) ELSE 0])
           token(t) == [In(<<Token(tokens[t])>>, TokenOut(tokens[t])) EXCEPT !.issue = amount(tokens[t])]
           X == [t \in DOMAIN tokens |-> token(t)]
           A == [t \in DOMAIN tokens |-> TokenOut(tokens[t])]
           B == [k \in DOMAIN issued |-> IssuedOut(issued[k], Now, Branch)]
           C == [b \in DOMAIN p |-> Out(Account(p[b].owner), "policy", AccountReserve(p, b))]
           D == <<Out(Descriptors(DescriptorsOf(p, Branch)), "policy", 0),
                  Out(Treasury, "policy", OperationalFee * Len(issued)),
                  Out(MinerFee, "policy", IssuanceFee)>>
           first == <<In(<<"eye">>, EyeOut)>>
           ins == first \o X \o FeeInputs(p)
           outs == <<EyeOut>> \o A \o B \o C \o D
           t == Issuance(p, Now, Branch)
<1>1. t = [inputs |-> ins, outputs |-> outs]
  BY DEF Issuance
<1>2. /\ DOMAIN tokens = 1 .. Len(tokens) /\ Len(tokens) \in Nat
      /\ DOMAIN issued = 1 .. Len(issued) /\ Len(issued) \in Nat
      /\ DOMAIN p = 1 .. Len(p) /\ Len(p) \in Nat
      /\ \A k \in DOMAIN issued : issued[k] \in ItemType
  <2>1. tokens \in Seq({"tick", "verifier"}) /\ issued \in Seq(ItemType)
    BY TokensAre, IssuedIs
  <2> HIDE DEF tokens, issued
  <2> QED BY <2>1
<1>3. OperationalFee \in Nat /\ IssuanceFee \in Nat /\ Now \in Nat
  BY FeeAssumption, TimeAssumption
<1>4. IsSeq(first)
  BY OneIs
<1>5. IsSeq(X)
  <2> HIDE DEF token, tokens
  <2>1. X = [k \in 1 .. Len(tokens) |-> X[k]]
    BY <1>2
  <2> HIDE DEF X
  <2> QED BY <1>2, <2>1, MapIs
<1>6. IsSeq(FeeInputs(p))
  BY IssuedIs, SeqIs
<1>7. IsSeq(ins)
  <2> HIDE DEF X, first
  <2> QED BY <1>4, <1>5, <1>6, IsSeqConcat
<1>8. OutsAre(<<EyeOut>>)
  <2>1. IsOut(EyeOut)
    BY OutIs DEF EyeOut
  <2> QED BY <2>1, OneOut
<1>9. OutsAre(A)
  <2> HIDE DEF tokens
  <2>1. A = [k \in 1 .. Len(tokens) |-> A[k]] /\ \A k \in 1 .. Len(tokens) : A[k] = TokenOut(tokens[k])
    BY <1>2
  <2>2. \A k : IsOut(TokenOut(tokens[k]))
    BY OutIs DEF TokenOut
  <2> HIDE DEF A
  <2> QED BY <1>2, <2>1, <2>2, MapOuts
<1>10. OutsAre(B)
  <2> HIDE DEF issued
  <2>1. /\ B = [k \in 1 .. Len(issued) |-> B[k]]
        /\ \A k \in 1 .. Len(issued) : B[k] = IssuedOut(issued[k], Now, Branch)
    BY <1>2
  <2>2. \A k \in 1 .. Len(issued) : IsOut(IssuedOut(issued[k], Now, Branch))
    <3> TAKE k \in 1 .. Len(issued)
    <3>1. Amount(issued[k].kind, Now) \in Int
      BY <1>3 DEF Amount
    <3> QED BY <3>1, OutIs DEF IssuedOut
  <2> HIDE DEF B
  <2> QED BY <1>2, <2>1, <2>2, MapOuts
<1>11. OutsAre(C)
  <2>1. /\ C = [k \in 1 .. Len(p) |-> C[k]]
        /\ \A k \in 1 .. Len(p) : C[k] = Out(Account(p[k].owner), "policy", AccountReserve(p, k))
    BY <1>2
  <2>2. \A k \in 1 .. Len(p) : IsOut(C[k])
    <3> TAKE k \in 1 .. Len(p)
    <3>1. AccountReserve(p, k) \in Int
      BY AccountReserveIs
    <3> QED BY <2>1, <3>1, OutIs
  <2> HIDE DEF C
  <2> QED BY <1>2, <2>1, <2>2, MapOuts
<1>12. OutsAre(D)
  <2>1. OperationalFee * Len(issued) \in Int
    <3>1. \A x, y \in Nat : x * y \in Int
      OBVIOUS
    <3> HIDE DEF issued
    <3> QED BY <1>2, <1>3, <3>1
  <2> HIDE DEF issued
  <2>2. \A to, asset : IsOut(Out(to, asset, 0)) /\ IsOut(Out(to, asset, IssuanceFee))
                       /\ IsOut(Out(to, asset, OperationalFee * Len(issued)))
    BY <1>3, <2>1, OutIs
  <2> QED BY <2>2, ThreeOuts
<1>13. OutsAre(outs)
  <2> HIDE DEF A, B, C, D
  <2>1. OutsAre(<<EyeOut>> \o A)
    BY <1>8, <1>9, OutsConcat
  <2>2. OutsAre(<<EyeOut>> \o A \o B)
    BY <1>10, <2>1, OutsConcat
  <2>3. OutsAre(<<EyeOut>> \o A \o B \o C)
    BY <1>11, <2>2, OutsConcat
  <2> QED BY <1>12, <2>3, OutsConcat
<1> HIDE DEF ins, outs, t
<1>14. t.inputs = ins /\ t.outputs = outs
  BY <1>1
<1> QED BY <1>1, <1>7, <1>13, <1>14 DEF IsTx, AmountsAre, OutsAre, t

LEMMA BurnTyped == ASSUME NEW s, RowsTyped(s) PROVE IsTx(BurnOf(utxo, s))
<1> DEFINE reserves == ReservesOf(s)
           items == Grouped(s)
           c == [g \in DOMAIN reserves |-> GroupOf(s, reserves[g])]
           first == <<In(<<"eye">>, EyeOut)>>
           A == [k \in DOMAIN items |-> ItemInput(items[k])]
           B == [g \in DOMAIN reserves |-> ReserveInput(utxo, s, reserves[g])]
           C == [g \in DOMAIN reserves |->
                  Out(Account(OwnerOf(s, reserves[g])), "policy", Remaining(utxo, s, g))]
           fee == <<Out(MinerFee, "policy", BurnFee(Len(s), Len(reserves)))>>
           ins == first \o A \o B
           outs == <<EyeOut>> \o BurnOutputs(s) \o C \o fee
           t == BurnOf(utxo, s)
<1>1. t = [inputs |-> ins, outputs |-> outs]
  BY DEF BurnOf
<1>2. DOMAIN reserves = 1 .. Len(reserves) /\ Len(reserves) \in Nat
  BY EachReserve
<1>3. items \in Seq(ToSet(s))
  <2>1. items = FlattenSeq(c)
    BY DEF Grouped
  <2>2. \A x : GroupOf(s, x) \in Seq(ToSet(s))
    <3> TAKE x
    <3> DEFINE P == {k \in DOMAIN s : s[k].reserve = x}
    <3>1. P \in SUBSET DOMAIN s /\ s \in Seq(ToSet(s)) /\ GroupOf(s, x) = Picked(s)[P]
      BY RowsTypedIs DEF GroupOf
    <3> HIDE DEF P
    <3> QED BY <3>1, PickedIs
  <2> HIDE DEF reserves
  <2>3. c = [g \in 1 .. Len(reserves) |-> c[g]] /\ \A g \in 1 .. Len(reserves) : c[g] \in Seq(ToSet(s))
    BY <1>2, <2>2
  <2> HIDE DEF c
  <2>4. c \in Seq(Seq(ToSet(s)))
    BY <1>2, <2>3
  <2> QED BY <2>1, <2>4, FlatType
<1>4. DOMAIN items = 1 .. Len(items) /\ Len(items) \in Nat
  <2> HIDE DEF items
  <2> QED BY <1>3
<1> HIDE DEF items, reserves, c
<1>5. IsSeq(first) /\ IsSeq(<<EyeOut>>) /\ IsSeq(fee)
  BY OneIs
<1>6. IsSeq(A)
  <2>1. A = [k \in 1 .. Len(items) |-> A[k]]
    BY <1>4
  <2> HIDE DEF A
  <2> QED BY <1>4, <2>1, MapIs
<1>7. IsSeq(B) /\ IsSeq(C)
  <2>1. B = [g \in 1 .. Len(reserves) |-> B[g]] /\ C = [g \in 1 .. Len(reserves) |-> C[g]]
    BY <1>2
  <2> HIDE DEF B, C
  <2> QED BY <1>2, <2>1, MapIs
<1>8. IsSeq(BurnOutputs(s))
  BY Zenon, BurnOutputsAre
<1> HIDE DEF A, B, C, first, fee
<1>9. IsSeq(ins)
  <2>1. IsSeq(first \o A)
    BY <1>5, <1>6, IsSeqConcat
  <2> QED BY <1>7, <2>1, IsSeqConcat
<1>10. IsSeq(outs)
  <2>1. IsSeq(<<EyeOut>> \o BurnOutputs(s))
    BY <1>5, <1>8, IsSeqConcat
  <2>2. IsSeq(<<EyeOut>> \o BurnOutputs(s) \o C)
    BY <1>7, <2>1, IsSeqConcat
  <2> QED BY <1>5, <2>2, IsSeqConcat
<1> HIDE DEF ins, outs, t
<1>11. t.inputs = ins /\ t.outputs = outs
  BY <1>1
<1> QED BY <1>1, <1>9, <1>10, <1>11 DEF IsTx, t

(* One place of a sequence changed, left out or repeated. *)
LEMMA EditsAre ==
  ASSUME NEW S, NEW s \in Seq(S), NEW k \in DOMAIN s
  PROVE  RemoveAt(s, k) \in Seq(S) /\ InsertAt(s, k, s[k]) \in Seq(S)
<1>1. k \in 1 .. Len(s) /\ Len(s) \in Nat /\ s[k] \in S
  OBVIOUS
<1>2. /\ SubSeq(s, 1, k - 1) \in Seq(S) /\ SubSeq(s, k + 1, Len(s)) \in Seq(S)
      /\ SubSeq(s, k, Len(s)) \in Seq(S) /\ <<s[k]>> \in Seq(S)
  BY <1>1
<1> QED BY <1>2 DEF RemoveAt, InsertAt

LEMMA PutsAre ==
  ASSUME NEW S, NEW s \in Seq(S), NEW k \in DOMAIN s, NEW x \in S
  PROVE  [s EXCEPT ![k] = x] \in Seq(S) /\ DOMAIN [s EXCEPT ![k] = x] = DOMAIN s
BY SMTT(20)

Whole(t) == \A k \in DOMAIN t.outputs : t.outputs[k].amount \in Nat

LEMMA OtherOutputsAre ==
  ASSUME NEW o, IsOut(o), NEW x \in OtherOutputs(o)
  PROVE  IsOut(x) /\ (o.amount \in Nat => x.amount \in Nat)
<1> DEFINE Fits(y) == IsOut(y) /\ (o.amount \in Nat => y.amount \in Nat)
<1>1. o = [to |-> o.to, asset |-> o.asset, amount |-> o.amount] /\ o.amount \in Int
  BY DEF IsOut
<1>2. \A v : Fits([o EXCEPT !.to = v]) /\ Fits([o EXCEPT !.asset = v])
  BY <1>1 DEF IsOut
<1>3. \A v \in Nat : Fits([o EXCEPT !.amount = v])
  BY <1>1 DEF IsOut
<1>4. CASE x \in {[o EXCEPT !.amount = a] : a \in {o.amount - 1, o.amount + 1} \cap Nat}
  BY <1>3, <1>4
<1>5. CASE x \in {[o EXCEPT !.asset = a] : a \in {"policy", "tick", "verifier"}}
  BY <1>2, <1>5
<1>6. CASE x \in {[o EXCEPT !.to = t] : t \in {Treasury, MinerFee, Account(1), Account(2),
                                                Voucher(1, NoSigner), Voucher(2, Other)}}
  BY <1>2, <1>6
<1>7. ASSUME NEW k \in DOMAIN o.to[2],
             x \in {[o EXCEPT !.to[2][k].reserve = @ + 1],
                    [o EXCEPT !.to[2][k].out = @ - 1],
                    [o EXCEPT !.to[2][k].owner = 3 - @],
                    [o EXCEPT !.to[2][k].signer = Other],
                    [o EXCEPT !.to[2] = RemoveAt(@, k)]}
      PROVE  Fits(x)
  <2>1. \E v : x = [o EXCEPT !.to = v]
    BY <1>7
  <2> QED BY <1>2, <2>1
<1> QED BY <1>4, <1>5, <1>6, <1>7 DEF OtherOutputs

(* What is in the place of outputs that were laid out otherwise. *)
Changed(outs) == ToSet(outs) \cup UNION {OtherOutputs(outs[k]) : k \in DOMAIN outs}

LEMMA NearIs ==
  ASSUME NEW t, IsTx(t), NEW x \in Near(t)
  PROVE  IsTx(x) /\ x.outputs \in Seq(Changed(t.outputs))
<1> DEFINE outs == t.outputs
           ins == t.inputs
           S == Changed(outs)
<1>1. t = [inputs |-> ins, outputs |-> outs] /\ IsSeq(ins) /\ IsSeq(outs)
  BY DEF IsTx
<1>2. outs \in Seq(S)
  <2>1. outs \in Seq(ToSet(outs)) /\ ToSet(outs) \subseteq S
    BY <1>1 DEF IsSeq, Changed
  <2> HIDE DEF outs, S
  <2> QED BY <2>1
<1> HIDE DEF S
<1>3. /\ \A s : [t EXCEPT !.outputs = s] = [inputs |-> ins, outputs |-> s]
      /\ \A s : [t EXCEPT !.inputs = s] = [inputs |-> s, outputs |-> outs]
  <2> HIDE DEF ins, outs
  <2> QED BY <1>1
<1>4. ASSUME NEW s \in Seq(S), x = [inputs |-> ins, outputs |-> s]
      PROVE  IsTx(x) /\ x.outputs \in Seq(S)
  <2>1. x.inputs = ins /\ x.outputs = s /\ IsSeq(s)
    BY <1>4, SeqIs
  <2> QED BY <1>1, <1>4, <2>1 DEF IsTx
<1>5. ASSUME NEW I, NEW s \in Seq(I), x = [inputs |-> s, outputs |-> outs]
      PROVE  IsTx(x) /\ x.outputs \in Seq(S)
  <2>1. x.inputs = s /\ x.outputs = outs /\ IsSeq(s)
    BY <1>5, SeqIs
  <2> QED BY <1>1, <1>2, <1>5, <2>1 DEF IsTx
<1>6. ASSUME NEW k \in DOMAIN outs, NEW o \in OtherOutputs(outs[k]), x = [t EXCEPT !.outputs[k] = o]
      PROVE  IsTx(x) /\ x.outputs \in Seq(S)
  <2> DEFINE s == [outs EXCEPT ![k] = o]
  <2>1. x = [inputs |-> ins, outputs |-> s]
    BY <1>3, <1>6
  <2>2. o \in S
    BY <1>6 DEF S, Changed
  <2>3. s \in Seq(S)
    <3> HIDE DEF outs
    <3> QED BY <1>2, <2>2, PutsAre
  <2> HIDE DEF s, outs, ins
  <2> QED BY <1>4, <2>1, <2>3
<1>7. ASSUME NEW k \in DOMAIN outs,
             \/ x = [t EXCEPT !.outputs = RemoveAt(outs, k)]
             \/ x = [t EXCEPT !.outputs = InsertAt(outs, k, outs[k])]
      PROVE  IsTx(x) /\ x.outputs \in Seq(S)
  <2> HIDE DEF outs, ins
  <2>1. RemoveAt(outs, k) \in Seq(S) /\ InsertAt(outs, k, outs[k]) \in Seq(S)
    BY <1>2, EditsAre
  <2> QED BY <1>3, <1>4, <1>7, <2>1
<1>8. ASSUME NEW k \in 1 .. Len(outs) - 1,
             x = [t EXCEPT !.outputs[k] = outs[k + 1], !.outputs[k + 1] = outs[k]]
      PROVE  IsTx(x) /\ x.outputs \in Seq(S)
  <2> DEFINE r == [outs EXCEPT ![k] = outs[k + 1]]
             s == [r EXCEPT ![k + 1] = outs[k]]
  <2>1. k \in DOMAIN outs /\ k + 1 \in DOMAIN outs /\ outs[k] \in S /\ outs[k + 1] \in S
    <3> HIDE DEF outs
    <3> QED BY <1>2
  <2>2. x = [inputs |-> ins, outputs |-> s]
    <3> HIDE DEF outs, ins
    <3>1. t.outputs = outs
      BY DEF outs
    <3> QED BY <1>1, <1>8, <3>1
  <2>3. r \in Seq(S) /\ DOMAIN r = DOMAIN outs
    <3> HIDE DEF outs
    <3> QED BY <1>2, <2>1, PutsAre
  <2>4. s \in Seq(S)
    <3> HIDE DEF outs, r
    <3> QED BY <2>1, <2>3, PutsAre
  <2> HIDE DEF s, outs, ins
  <2> QED BY <1>4, <2>2, <2>4
<1>9. ASSUME NEW k \in DOMAIN ins, x = [t EXCEPT !.inputs = RemoveAt(ins, k)]
      PROVE  IsTx(x) /\ x.outputs \in Seq(S)
  <2> HIDE DEF outs, ins
  <2>1. RemoveAt(ins, k) \in Seq(ToSet(ins))
    BY <1>1, EditsAre DEF IsSeq
  <2> QED BY <1>3, <1>5, <1>9, <2>1
<1>10. ASSUME NEW k \in DOMAIN ins, x = [t EXCEPT !.inputs[k].issue = @ + 1]
       PROVE  IsTx(x) /\ x.outputs \in Seq(S)
  <2> DEFINE y == [ins[k] EXCEPT !.issue = @ + 1]
             I == ToSet(ins) \cup {y}
             s == [ins EXCEPT ![k] = y]
  <2>1. x = [inputs |-> s, outputs |-> outs]
    BY <1>3, <1>10
  <2>2. ins \in Seq(I) /\ y \in I
    <3>1. ins \in Seq(ToSet(ins)) /\ ToSet(ins) \subseteq I
      BY <1>1 DEF IsSeq
    <3> HIDE DEF ins
    <3> QED BY <3>1
  <2>3. s \in Seq(I)
    <3> HIDE DEF ins, I, y
    <3> QED BY <2>2, PutsAre, SMTT(20)
  <2> HIDE DEF s, outs, ins, I
  <2> QED BY <1>5, <2>1, <2>3
<1>11. \/ \E k \in DOMAIN outs : \E o \in OtherOutputs(outs[k]) : x = [t EXCEPT !.outputs[k] = o]
       \/ \E k \in DOMAIN outs : x = [t EXCEPT !.outputs = RemoveAt(outs, k)]
       \/ \E k \in DOMAIN outs : x = [t EXCEPT !.outputs = InsertAt(outs, k, outs[k])]
       \/ \E k \in 1 .. Len(outs) - 1 :
            x = [t EXCEPT !.outputs[k] = outs[k + 1], !.outputs[k + 1] = outs[k]]
       \/ \E k \in DOMAIN ins : x = [t EXCEPT !.inputs = RemoveAt(ins, k)]
       \/ \E k \in DOMAIN ins : x = [t EXCEPT !.inputs[k].issue = @ + 1]
  <2> DEFINE A(k) == {[t EXCEPT !.outputs[k] = o] : o \in OtherOutputs(outs[k])}
             A1 == UNION {A(k) : k \in DOMAIN outs}
             A2 == {[t EXCEPT !.outputs = RemoveAt(outs, k)] : k \in DOMAIN outs}
             A3 == {[t EXCEPT !.outputs = InsertAt(outs, k, outs[k])] : k \in DOMAIN outs}
             A4 == {[t EXCEPT !.outputs[k] = outs[k + 1], !.outputs[k + 1] = outs[k]] :
                      k \in 1 .. Len(outs) - 1}
             A5 == {[t EXCEPT !.inputs = RemoveAt(ins, k)] : k \in DOMAIN ins}
             A6 == {[t EXCEPT !.inputs[k].issue = @ + 1] : k \in {i \in DOMAIN ins : ins[i].issue > 0}}
  <2>1. Near(t) = A1 \cup A2 \cup A3 \cup A4 \cup A5 \cup A6
    BY DEF Near
  <2>2. x \in A1 \/ x \in A2 \/ x \in A3 \/ x \in A4 \/ x \in A5 \/ x \in A6
    <3> HIDE DEF A1, A2, A3, A4, A5, A6
    <3> QED BY <2>1
  <2>3. CASE x \in A1
    <3>1. PICK k \in DOMAIN outs : x \in A(k)
      <4> HIDE DEF A, outs
      <4> QED BY <2>3
    <3>2. PICK o \in OtherOutputs(outs[k]) : x = [t EXCEPT !.outputs[k] = o]
      <4> HIDE DEF outs
      <4> QED BY <3>1, Zenon
    <3> QED BY <3>2, Zenon
  <2>4. CASE x \in A2
    BY <2>4, Zenon
  <2>5. CASE x \in A3
    BY <2>5, Zenon
  <2>6. CASE x \in A4
    BY <2>6, Zenon
  <2>7. CASE x \in A5
    BY <2>7, Zenon
  <2>8. CASE x \in A6
    BY <2>8, Zenon
  <2> HIDE DEF A1, A2, A3, A4, A5, A6
  <2> QED BY <2>2, <2>3, <2>4, <2>5, <2>6, <2>7, <2>8
<1> HIDE DEF outs, ins
<1>12. IsTx(x) /\ x.outputs \in Seq(S)
  BY <1>6, <1>7, <1>8, <1>9, <1>10, <1>11
<1> QED BY <1>12 DEF S, outs

LEMMA NearTyped ==
  ASSUME NEW t, IsTx(t), NEW x \in Near(t)
  PROVE  IsTx(x) /\ (AmountsAre(t) => AmountsAre(x) /\ (Whole(t) => Whole(x)))
<1> SUFFICES ASSUME AmountsAre(t) PROVE AmountsAre(x) /\ (Whole(t) => Whole(x))
  BY NearIs
<1> DEFINE Fits(y) == IsOut(y) /\ (Whole(t) => y.amount \in Nat)
<1>1. \A k \in DOMAIN t.outputs : Fits(t.outputs[k])
  BY DEF AmountsAre, Whole
<1>2. \A k \in DOMAIN t.outputs : \A y \in OtherOutputs(t.outputs[k]) : Fits(y)
  BY <1>1, OtherOutputsAre
<1>3. \A y \in Changed(t.outputs) : Fits(y)
  BY <1>1, <1>2 DEF Changed, ToSet
<1>4. \A k \in DOMAIN x.outputs : x.outputs[k] \in Changed(t.outputs)
  BY NearIs
<1> QED BY <1>3, <1>4 DEF AmountsAre, Whole

(***************************************************************************)
(* What is read from an issuance, and what is left of it.                  *)
(***************************************************************************)
LEMMA RowsReadTyped ==
  ASSUME NEW t, IsSeq(t.outputs), AmountsAre(t), Readable(t)
  PROVE  /\ RowsTyped(Rows(t))
         /\ \A k \in DOMAIN Rows(t) : t.outputs[Rows(t)[k].reserve].amount \in Int
<1> DEFINE outs == t.outputs
           ds == outs[CHOOSE k \in DescribingOutputs(t) : TRUE].to[2]
           RowAt(k) ==
             [out |-> ds[k].out, kind |-> KindOf(ds[k]), owner |-> ds[k].owner,
              signer |-> ds[k].signer, reserve |-> ds[k].reserve,
              amount |-> outs[ds[k].out].amount]
           read == Rows(t)
<1>1. /\ Len(ds) \in 1 .. MaxItems
      /\ \A k \in 1 .. Len(ds) : ds[k].out \in 1 .. Len(outs) /\ ds[k].reserve \in 1 .. Len(outs)
  BY ZenonT(40) DEF Readable
<1>2. read = [k \in 1 .. Len(ds) |-> RowAt(k)]
  BY DEF Rows
<1>3. DOMAIN outs = 1 .. Len(outs) /\ Len(outs) \in Nat
  BY IsSeqProperties
<1>4. \A i \in 1 .. Len(outs) : outs[i].amount \in Int
  BY <1>3 DEF AmountsAre, IsOut
<1>5. \A k : KindOf(ds[k]) \in {"tick", "verifier"}
  BY DEF KindOf
<1> HIDE DEF ds, outs, read
<1>6. Len(ds) \in Nat
  BY <1>1, WeightAssumption
<1>7. ASSUME NEW k \in 1 .. Len(ds) PROVE RowTyped(RowAt(k)) /\ outs[RowAt(k).reserve].amount \in Int
  <2>1. /\ RowAt(k).reserve = ds[k].reserve /\ RowAt(k).kind = KindOf(ds[k])
        /\ RowAt(k).amount = outs[ds[k].out].amount
    OBVIOUS
  <2>2. ds[k].out \in 1 .. Len(outs) /\ ds[k].reserve \in 1 .. Len(outs)
    BY <1>1
  <2> HIDE DEF RowAt
  <2> QED BY <1>3, <1>4, <1>5, <2>1, <2>2 DEF RowTyped
<1>8. read = [k \in 1 .. Len(ds) |-> read[k]] /\ \A k \in 1 .. Len(ds) : read[k] = RowAt(k)
  <2> HIDE DEF RowAt
  <2> QED BY <1>2
<1> HIDE DEF RowAt
<1>9. IsSeq(read) /\ DOMAIN read = 1 .. Len(ds)
  BY <1>6, <1>8, MapIs
<1> QED BY <1>7, <1>8, <1>9, SMTT(20) DEF RowsTyped, read, outs

LEMMA PickedTyped ==
  ASSUME NEW s, RowsTyped(s), NEW P \in SUBSET DOMAIN s
  PROVE  RowsTyped(Picked(s)[P]) /\ ToSet(Picked(s)[P]) \subseteq ToSet(s)
<1> DEFINE p == Picked(s)[P]
<1>1. p \in Seq(ToSet(s)) /\ ToSet(p) = {s[k] : k \in P}
  <2>1. s \in Seq(ToSet(s))
    BY RowsTypedIs
  <2> QED BY <2>1, PickedIs
<1> HIDE DEF p
<1>2. IsSeq(p)
  BY <1>1, SeqIs
<1>3. ToSet(p) \subseteq ToSet(s)
  BY <1>1, RowsTypedIs
<1>4. \A k \in DOMAIN p : p[k] \in ToSet(p)
  BY <1>2, IsSeqProperties
<1>5. \A k \in DOMAIN p : RowTyped(p[k])
  BY <1>3, <1>4, RowsTypedIs
<1> QED BY <1>2, <1>3, <1>5 DEF RowsTyped, p

(***************************************************************************)
(* The invariant.                                                          *)
(***************************************************************************)
SearchIs == search = [lo |-> search.lo, hi |-> search.hi, lim |-> search.lim, best |-> search.best]
BestTyped == pc \in {"burn", "fire"} => RowsTyped(search.best)
Amounts == pc \in {"sign", "signed"} => AmountsAre(tx)
BurnValid == pc = "burned" => ValidBurn(tx, rows, utxo)

BurnsInv ==
  /\ RoundsInv
  /\ SearchIs /\ RowsTyped(rows) /\ UtxoIs /\ IsTx(tx)
  /\ BestTyped /\ Amounts /\ BurnValid

LEMMA EmptyTyped == RowsTyped(<<>>)
<1>1. <<>> \in Seq({}) /\ DOMAIN <<>> = {}
  OBVIOUS
<1>2. IsSeq(<<>>)
  BY <1>1, SeqIs
<1> QED BY <1>1, <1>2 DEF RowsTyped

LEMMA BurnsInit == InitRounds => BurnsInv
<1> SUFFICES ASSUME InitRounds PROVE BurnsInv
  OBVIOUS
<1>1. pc = "choose" /\ rows = <<>> /\ search = Fresh /\ tx = [inputs |-> <<>>, outputs |-> <<>>]
  BY DEF InitRounds
<1>2. RowsTyped(rows) /\ IsSeq(<<>>)
  BY <1>1, EmptyTyped DEF RowsTyped
<1>3. UtxoIs
  BY <1>1 DEF UtxoIs, ToSet
<1>4. IsTx(tx)
  BY <1>1, <1>2 DEF IsTx
<1>5. SearchIs
  BY <1>1 DEF SearchIs, Fresh
<1> QED BY <1>1, <1>2, <1>3, <1>4, <1>5, RoundsInit DEF BurnsInv, BestTyped, Amounts, BurnValid

(* How the searches end. *)
LEMMA NarrowTyped ==
  ASSUME SearchIs, NEW lo, NEW hi, NEW best, NEW next, Narrow(lo, hi, best, next)
  PROVE  SearchIs' /\ search'.best \in {best, search.best}
BY DEF Narrow, SearchIs

LEMMA SettleTyped ==
  ASSUME SearchIs, NEW taken, NEW next, Settle(taken, next)
  PROVE  SearchIs' /\ search'.best = taken
BY DEF Settle, SearchIs

LEMMA WeighTyped ==
  ASSUME SearchIs, NEW taken, NEW count, NEW weight, NEW next, Weigh(taken, count, weight, next)
  PROVE  SearchIs' /\ search'.best \in {taken, search.best}
<1>1. \/ Settle(taken, next)
      \/ Narrow(count + 1, search.hi, taken, next)
      \/ Narrow(search.lo, Below(count), search.best, next)
  BY DEF Weigh
<1>2. CASE Settle(taken, next)
  BY <1>2, SettleTyped
<1>3. CASE Narrow(count + 1, search.hi, taken, next)
  BY <1>3, NarrowTyped
<1>4. CASE Narrow(search.lo, Below(count), search.best, next)
  BY <1>4, NarrowTyped
<1> QED BY <1>1, <1>2, <1>3, <1>4

LEMMA BurnsStep ==
  ASSUME BurnsInv, [NextRounds]_roundsVars
  PROVE  BurnsInv'
<1>1. RoundsInv'
  BY RoundsStep DEF BurnsInv
<1>2. /\ RoundsInv /\ SearchIs /\ RowsTyped(rows) /\ UtxoIs /\ IsTx(tx)
      /\ BestTyped /\ Amounts /\ BurnValid
  BY DEF BurnsInv
<1>3. ASSUME UNCHANGED rows, UNCHANGED utxo PROVE RowsTyped(rows)' /\ UtxoIs'
  BY <1>2, <1>3 DEF UtxoIs
<1>4. CASE Choose
  <2>1. /\ UNCHANGED <<tx, rows, utxo>> /\ pc = "choose"
        /\ pc' \in {"choose", "propose", "done", "trapped"}
    BY <1>2, <1>4, ChooseStep DEF RoundsInv, Choose
  <2>2. SearchIs'
    <3>1. \/ Settle(search.best, "propose")
          \/ search' = Fresh
          \/ Weigh(Prefix(search.lim), Len(Prefix(search.lim)),
                   IssuanceWeight(Prefix(search.lim)), "propose")
      BY <1>4 DEF Choose
    <3>2. search' = Fresh => SearchIs'
      BY DEF Fresh, SearchIs
    <3> QED BY <1>2, <3>1, <3>2, SettleTyped, WeighTyped
  <2>3. RowsTyped(rows)' /\ UtxoIs' /\ IsTx(tx)'
    BY <1>2, <1>3, <2>1
  <2> QED BY <1>1, <2>1, <2>2, <2>3 DEF BurnsInv, BestTyped, Amounts, BurnValid
<1>5. CASE Propose
  <2>1. /\ UNCHANGED <<search, rows, utxo>> /\ pc = "propose" /\ pc' = "sign"
        /\ tx' = Issuance(search.best, Now, Branch)
    BY <1>5 DEF Propose
  <2>2. search.best \in Seq(Batches)
    BY <1>2, <2>1 DEF RoundsInv, Chosen
  <2>3. IsTx(tx)' /\ AmountsAre(tx)'
    BY <2>1, <2>2, IssuanceTyped
  <2>4. SearchIs' /\ RowsTyped(rows)' /\ UtxoIs'
    BY <1>2, <1>3, <2>1 DEF SearchIs
  <2> QED BY <1>1, <2>1, <2>3, <2>4 DEF BurnsInv, BestTyped, Amounts, BurnValid
<1>6. ASSUME NEW clock \in Clocks, Sign(clock) PROVE BurnsInv'
  <2>1. UNCHANGED <<search, tx, rows, utxo>> /\ pc = "sign" /\ pc' \in {"signed", "refused"}
    BY <1>6 DEF Sign
  <2>2. IsTx(tx)' /\ AmountsAre(tx)'
    BY <1>2, <2>1 DEF Amounts
  <2>3. SearchIs' /\ RowsTyped(rows)' /\ UtxoIs'
    BY <1>2, <1>3, <2>1 DEF SearchIs
  <2> QED BY <1>1, <2>1, <2>2, <2>3 DEF BurnsInv, BestTyped, Amounts, BurnValid
<1>7. CASE IndexIssuance
  <2>1. UNCHANGED <<search, tx>> /\ pc = "signed" /\ pc' \in {"live", "stopped"}
    BY <1>7 DEF IndexIssuance
  <2>2. AmountsAre(tx)
    BY <1>2, <2>1 DEF Amounts
  <2>3. CASE UNCHANGED <<rows, utxo>>
    <3>1. RowsTyped(rows)' /\ UtxoIs'
      BY <1>3, <2>3
    <3> QED BY <1>1, <1>2, <2>1, <3>1 DEF BurnsInv, SearchIs, BestTyped, Amounts, BurnValid
  <2>4. CASE /\ Readable(tx) /\ rows' = Rows(tx)
             /\ utxo' = [k \in {Rows(tx)[i].reserve : i \in DOMAIN Rows(tx)} |-> tx.outputs[k].amount]
    <3> DEFINE read == Rows(tx)
    <3>1. RowsTyped(read) /\ \A k \in DOMAIN read : tx.outputs[read[k].reserve].amount \in Int
      BY <1>2, <2>2, <2>4, RowsReadTyped DEF IsTx
    <3>2. ToSet(read) = {read[k] : k \in DOMAIN read}
      BY DEF ToSet
    <3> HIDE DEF read
    <3>3. \A k \in DOMAIN read : utxo'[read[k].reserve] = tx.outputs[read[k].reserve].amount
      BY <2>4 DEF read
    <3>4. \A r \in ToSet(read) : utxo'[r.reserve] \in Int
      BY <3>1, <3>2, <3>3
    <3>5. RowsTyped(rows)' /\ UtxoIs'
      BY <2>4, <3>1, <3>4 DEF read, UtxoIs
    <3> QED BY <1>1, <1>2, <2>1, <3>5 DEF BurnsInv, SearchIs, BestTyped, Amounts, BurnValid
  <2> QED BY <1>7, <2>3, <2>4 DEF IndexIssuance
<1>8. ASSUME NEW P \in SUBSET DOMAIN rows, rows' = Picked(rows)[P], utxo' = utxo
      PROVE  RowsTyped(rows)' /\ UtxoIs'
  <2>1. RowsTyped(rows') /\ ToSet(rows') \subseteq ToSet(rows)
    BY <1>2, <1>8, PickedTyped
  <2> QED BY <1>2, <1>8, <2>1 DEF UtxoIs
<1>9. ASSUME NEW spent, NEW taken, Expire(spent, taken) PROVE BurnsInv'
  <2> DEFINE P == {k \in DOMAIN rows : rows[k].out \notin spent}
  <2>1. /\ UNCHANGED <<tx, utxo>> /\ pc' \in {"done", "burn"} /\ search' = Fresh
        /\ rows' = Picked(rows)[P] /\ P \in SUBSET DOMAIN rows
    BY <1>9 DEF Expire
  <2> HIDE DEF P
  <2>2. RowsTyped(rows)' /\ UtxoIs'
    BY <1>8, <2>1
  <2>3. SearchIs' /\ search'.best = <<>>
    BY <2>1 DEF SearchIs, Fresh
  <2>4. RowsTyped(search.best)'
    BY <2>3, EmptyTyped
  <2> QED BY <1>1, <1>2, <2>1, <2>2, <2>3, <2>4 DEF BurnsInv, BestTyped, Amounts, BurnValid
<1>10. CASE ChooseBurn
  <2> DEFINE taken == GroupsOf(search.lim)
             count == Len(ReservesOf(taken))
  <2>1. /\ UNCHANGED <<tx, rows, utxo>> /\ pc = "burn"
        /\ pc' \in {"burn", "live", "fire", "done", "trapped"}
    BY <1>10 DEF ChooseBurn, Narrow, Settle, Weigh
  <2>2. RowsTyped(search.best) /\ RowsTyped(taken)
    <3>1. RowsTyped(search.best)
      BY <1>2, <2>1 DEF BestTyped
    <3> DEFINE P == {k \in DOMAIN rows : /\ rows[k].reserve \notin busy
                                         /\ Age(rows[k].reserve) <= search.lim}
    <3>2. taken = Picked(rows)[P] /\ P \in SUBSET DOMAIN rows
      BY DEF GroupsOf
    <3> HIDE DEF P, taken
    <3> QED BY <1>2, <3>1, <3>2, PickedTyped
  <2>3. \/ UNCHANGED search
        \/ Narrow(search.lo, search.lim - 1, search.best, "fire")
        \/ Settle(taken, "fire")
        \/ Weigh(taken, count, BurnWeight(taken), "fire")
    BY <1>10 DEF ChooseBurn
  <2> HIDE DEF taken, count
  <2>4. SearchIs' /\ search'.best \in {taken, search.best}
    <3>1. UNCHANGED search => SearchIs' /\ search'.best = search.best
      BY <1>2 DEF SearchIs
    <3> QED BY <1>2, <2>3, <3>1, NarrowTyped, SettleTyped, WeighTyped
  <2>5. RowsTyped(search.best)'
    BY <2>2, <2>4
  <2>6. RowsTyped(rows)' /\ UtxoIs' /\ IsTx(tx)'
    BY <1>2, <1>3, <2>1
  <2> QED BY <1>1, <2>1, <2>4, <2>5, <2>6 DEF BurnsInv, BestTyped, Amounts, BurnValid
<1>11. CASE Fire
  <2>1. /\ UNCHANGED <<search, rows, utxo>> /\ pc = "fire" /\ pc' = "sign burn"
        /\ tx' = BurnOf(utxo, search.best)
    BY <1>11 DEF Fire
  <2>2. IsTx(tx)'
    BY <1>2, <2>1, BurnTyped DEF BestTyped
  <2>3. SearchIs' /\ RowsTyped(rows)' /\ UtxoIs'
    BY <1>2, <1>3, <2>1 DEF SearchIs
  <2> QED BY <1>1, <2>1, <2>2, <2>3 DEF BurnsInv, BestTyped, Amounts, BurnValid
<1>12. CASE SignBurn
  <2>1. /\ UNCHANGED <<search, tx, rows, utxo>> /\ pc' \in {"burned", "live"}
        /\ pc' = "burned" => ValidBurn(tx, rows, utxo)
    BY <1>12 DEF SignBurn
  <2>2. SearchIs' /\ RowsTyped(rows)' /\ UtxoIs' /\ IsTx(tx)'
    BY <1>2, <1>3, <2>1 DEF SearchIs
  <2>3. BurnValid'
    BY <2>1 DEF BurnValid
  <2> QED BY <1>1, <2>1, <2>2, <2>3 DEF BurnsInv, BestTyped, Amounts
<1>13. CASE Burned
  <2> DEFINE spent == {tx.inputs[k].from : k \in DOMAIN tx.inputs}
             P == {k \in DOMAIN rows : <<"out", rows[k].out>> \notin spent}
  <2>1. /\ UNCHANGED <<search, tx, utxo>> /\ pc' \in {"done", "live"}
        /\ rows' = Picked(rows)[P] /\ P \in SUBSET DOMAIN rows
    BY <1>13 DEF Burned
  <2> HIDE DEF P
  <2>2. RowsTyped(rows)' /\ UtxoIs'
    BY <1>8, <2>1
  <2>3. SearchIs' /\ IsTx(tx)'
    BY <1>2, <2>1 DEF SearchIs
  <2> QED BY <1>1, <2>1, <2>2, <2>3 DEF BurnsInv, BestTyped, Amounts, BurnValid
<1>14. ASSUME NEW t \in Near(tx), LayOutOtherwise(t) PROVE BurnsInv'
  <2>1. UNCHANGED <<pc, search, rows, utxo>> /\ pc \in {"sign", "sign burn"} /\ tx' = t
    BY <1>14 DEF LayOutOtherwise
  <2>2. IsTx(t) /\ (AmountsAre(tx) => AmountsAre(t))
    BY <1>2, NearTyped
  <2>3. IsTx(tx)' /\ Amounts'
    BY <1>2, <2>1, <2>2 DEF Amounts
  <2>4. SearchIs' /\ RowsTyped(rows)' /\ UtxoIs'
    BY <1>2, <1>3, <2>1 DEF SearchIs
  <2> QED BY <1>1, <2>1, <2>3, <2>4 DEF BurnsInv, BestTyped, BurnValid
<1>15. CASE UNCHANGED roundsVars
  <2>1. UNCHANGED <<pc, search, tx, rows, utxo>>
    BY <1>15 DEF roundsVars
  <2>2. SearchIs' /\ RowsTyped(rows)' /\ UtxoIs' /\ IsTx(tx)'
    BY <1>2, <1>3, <2>1 DEF SearchIs
  <2>3. BestTyped' /\ Amounts' /\ BurnValid'
    BY <1>2, <2>1 DEF BestTyped, Amounts, BurnValid
  <2> QED BY <1>1, <2>2, <2>3 DEF BurnsInv
<1> QED BY <1>4, <1>5, <1>6, <1>7, <1>9, <1>10, <1>11, <1>12, <1>13, <1>14, <1>15 DEF NextRounds, Round

LEMMA BurnsInvImplies == BurnsInv => BurnsAreFair
<1>1. pc # "burned" => BurnsAreFair
  BY DEF BurnsAreFair
<1>2. BurnsInv /\ pc = "burned" => BurnsAreFair
  BY BurnIsFair DEF BurnsInv, BurnValid, IsTx
<1> QED BY <1>1, <1>2

(* A burn that the members sign destroys the items it takes and no others,  *)
(* and their accounts share its fee, down to one satoshi, however the       *)
(* transaction they were sent was laid out (validate_layout, fee_share).    *)
THEOREM BurnsShareFairly == SpecRounds => []BurnsAreFair
<1>1. InitRounds => BurnsInv
  BY BurnsInit
<1>2. BurnsInv /\ [NextRounds]_roundsVars => BurnsInv'
  BY BurnsStep
<1>3. BurnsInv => BurnsAreFair
  BY BurnsInvImplies
<1> QED BY <1>1, <1>2, <1>3, PTL DEF SpecRounds

(***************************************************************************)
(* What a batch asks for and pays.                                         *)
(***************************************************************************)
Pays(b) == b.kinds # <<>> /\ Sum(b.fees) >= MinimumFee(Len(b.kinds))
Asked(p) == p \in Seq(Batches) /\ p # <<>> /\ \A b \in DOMAIN p : Pays(p[b])

(* No element is more than the sum. *)
LEMMA SumGrows ==
  ASSUME NEW s \in Seq(Nat)
  PROVE  Sum(s) \in Nat /\ \A k \in 1 .. Len(s) : s[k] <= Sum(s)
<1>1. s \in Seq(Int) /\ Len(s) \in Nat /\ \A k \in 1 .. Len(s) : s[k] \in Nat
  OBVIOUS
<1>2. PICK F \in [0 .. Len(s) -> Int] :
        /\ F[0] = 0 /\ Sum(s) = F[Len(s)]
        /\ \A n \in 1 .. Len(s) : F[n] = F[n - 1] + s[n]
  BY <1>1, SumIs
<1> DEFINE Good(n) == F[n] \in Nat /\ \A k \in 1 .. n : s[k] <= F[n]
           Bad == {n \in 0 .. Len(s) : ~Good(n)}
<1>3. SUFFICES ASSUME Bad # {} PROVE FALSE
  <2>1. Len(s) \in 0 .. Len(s)
    BY <1>1
  <2>2. Good(Len(s))
    <3> HIDE DEF Good
    <3> QED BY <1>3, <2>1
  <2> QED BY <1>2, <2>2
<1>4. PICK n \in Bad : \A m \in Bad : n <= m
  <2>1. Bad \subseteq Nat
    OBVIOUS
  <2> HIDE DEF Bad
  <2> QED BY <1>3, <2>1, HasLeast
<1>5. n \in 0 .. Len(s) /\ ~Good(n)
  <2> HIDE DEF Good
  <2> QED BY <1>4
<1>6. n # 0
  <2>1. Good(0)
    BY <1>2
  <2> HIDE DEF Good
  <2> QED BY <1>5, <2>1
<1>7. n \in 1 .. Len(s) /\ n - 1 \in 0 .. Len(s) /\ ~(n <= n - 1)
  BY <1>1, <1>5, <1>6
<1>8. Good(n - 1)
  <2>1. n - 1 \notin Bad
    <3> HIDE DEF Bad
    <3> QED BY <1>4, <1>7
  <2> HIDE DEF Good
  <2> QED BY <1>7, <2>1
<1>9. F[n] = F[n - 1] + s[n] /\ s[n] \in Nat
  BY <1>1, <1>2, <1>7
<1>10. Good(n)
  <2>1. F[n] \in Nat /\ s[n] <= F[n] /\ F[n - 1] <= F[n]
    BY <1>8, <1>9
  <2>2. \A k \in 1 .. n : k \in 1 .. n - 1 \/ k = n
    BY <1>7
  <2>3. ASSUME NEW k \in 1 .. n - 1 PROVE s[k] <= F[n]
    <3>1. s[k] <= F[n - 1] /\ s[k] \in Nat
      BY <1>1, <1>7, <1>8
    <3> QED BY <1>8, <2>1, <3>1
  <2> QED BY <2>1, <2>2, <2>3
<1> HIDE DEF Good
<1> QED BY <1>5, <1>10

(* Each item belongs to a batch, and to its owner. *)
LEMMA IssuedItems ==
  ASSUME NEW p, Asked(p)
  PROVE  /\ IsSeq(Issued(p)) /\ DOMAIN Issued(p) = 1 .. Len(Issued(p))
         /\ Len(Issued(p)) \in Nat \ {0}
         /\ \A k \in 1 .. Len(Issued(p)) :
              /\ Issued(p)[k] \in ItemType /\ Issued(p)[k].batch \in 1 .. Len(p)
              /\ Issued(p)[k].owner = p[Issued(p)[k].batch].owner
<1> DEFINE issued == Issued(p)
           c == ItemsOf(p)
<1>1. p \in Seq(Batches) /\ p # <<>> /\ \A b \in DOMAIN p : p[b].kinds # <<>>
  BY DEF Asked, Pays
<1>2. DOMAIN p = 1 .. Len(p) /\ Len(p) \in Nat \ {0}
  BY <1>1
<1>3. issued = FlattenSeq(c)
  BY <1>2 DEF Issued, ItemsOf
<1>4. c \in Seq(Seq(ItemType)) /\ Len(c) = Len(p)
  BY <1>1, PartsAre
<1>5. issued \in Seq(ItemType)
  BY <1>1, IssuedIs
<1>6. ToSet(issued) = UNION {ToSet(c[b]) : b \in 1 .. Len(p)}
  <2> HIDE DEF c, issued
  <2> QED BY <1>3, <1>4, FlatSet
<1>7. ASSUME NEW b \in 1 .. Len(p)
      PROVE  /\ ToSet(c[b]) # {}
             /\ \A i \in ToSet(c[b]) : i.batch = b /\ i.owner = p[b].owner
  <2>1. c[b] = [k \in DOMAIN p[b].kinds |->
                 [kind |-> p[b].kinds[k], owner |-> p[b].owner, batch |-> b]]
    BY DEF ItemsOf
  <2>2. 1 \in DOMAIN p[b].kinds
    <3>1. p[b].kinds \in Seq({"tick", "verifier"}) /\ p[b].kinds # <<>>
      BY <1>1, <1>2, BatchIs
    <3> QED BY <3>1
  <2> QED BY <2>1, <2>2 DEF ToSet
<1> HIDE DEF c, issued
<1>8. issued # <<>>
  <2>1. ToSet(issued) # {}
    <3>1. 1 \in 1 .. Len(p)
      BY <1>2
    <3>2. ToSet(c[1]) # {}
      BY <1>7, <3>1
    <3> QED BY <1>6, <3>1, <3>2
  <2>2. ToSet(<<>>) = {}
    BY DEF ToSet
  <2> QED BY <2>1, <2>2
<1>9. IsSeq(issued) /\ DOMAIN issued = 1 .. Len(issued) /\ Len(issued) \in Nat \ {0}
  BY <1>5, <1>8, SeqIs
<1>10. ASSUME NEW k \in 1 .. Len(issued)
       PROVE  /\ issued[k] \in ItemType /\ issued[k].batch \in 1 .. Len(p)
              /\ issued[k].owner = p[issued[k].batch].owner
  <2>1. issued[k] \in ToSet(issued) /\ issued[k] \in ItemType
    BY <1>5, <1>9 DEF ToSet
  <2>2. PICK b \in 1 .. Len(p) : issued[k] \in ToSet(c[b])
    BY <1>6, <2>1
  <2>3. issued[k].batch = b /\ issued[k].owner = p[b].owner
    BY <1>7, <2>2
  <2> QED BY <2>1, <2>3
<1> QED BY <1>9, <1>10 DEF issued

(* The reissued assets are those of the items. *)
LEMMA TokensIs ==
  ASSUME NEW p, Asked(p)
  PROVE  /\ IsSeq(Tokens(p)) /\ DOMAIN Tokens(p) = 1 .. Len(Tokens(p))
         /\ Len(Tokens(p)) \in Nat \ {0}
         /\ \A t \in 1 .. Len(Tokens(p)) :
              /\ Tokens(p)[t] \in {"tick", "verifier"}
              /\ \E k \in 1 .. Len(Issued(p)) : Issued(p)[k].kind = Tokens(p)[t]
         /\ \A k \in 1 .. Len(Issued(p)) :
              /\ Issued(p)[k].kind \in {"tick", "verifier"}
              /\ \E t \in 1 .. Len(Tokens(p)) : Tokens(p)[t] = Issued(p)[k].kind
<1> DEFINE issued == Issued(p)
           tokens == Tokens(p)
           K == {i.kind : i \in ToSet(issued)}
<1>1. /\ DOMAIN issued = 1 .. Len(issued) /\ Len(issued) \in Nat \ {0}
      /\ \A k \in 1 .. Len(issued) : issued[k] \in ItemType
  BY IssuedItems
<1>2. tokens = InOrder[K]
  BY DEF Tokens
<1> HIDE DEF issued, tokens
<1>3. K = {issued[k].kind : k \in 1 .. Len(issued)}
  BY <1>1 DEF ToSet
<1>4. \A k \in 1 .. Len(issued) : issued[k].kind \in {"tick", "verifier"}
  BY <1>1 DEF ItemType
<1>5. K \in SUBSET {"tick", "verifier"} /\ K # {}
  <2>1. 1 \in 1 .. Len(issued)
    BY <1>1
  <2> HIDE DEF K
  <2> QED BY <1>3, <1>4, <2>1
<1> HIDE DEF K
<1>6. tokens \in Seq({"tick", "verifier"}) /\ ToSet(tokens) = K
  BY <1>2, <1>5, InOrderIs
<1>7. DOMAIN tokens = 1 .. Len(tokens) /\ Len(tokens) \in Nat /\ IsSeq(tokens)
  BY <1>6, SeqIs
<1>8. ToSet(tokens) = {tokens[t] : t \in 1 .. Len(tokens)}
  BY <1>7 DEF ToSet
<1>9. Len(tokens) # 0
  <2>1. Len(tokens) = 0 => ToSet(tokens) = {}
    BY <1>8
  <2> QED BY <1>5, <1>6, <2>1
<1>10. \A t \in 1 .. Len(tokens) : tokens[t] \in K /\ tokens[t] \in {"tick", "verifier"}
  BY <1>5, <1>6, <1>8
<1>11. \A k \in 1 .. Len(issued) : \E t \in 1 .. Len(tokens) : tokens[t] = issued[k].kind
  BY <1>3, <1>6, <1>8
<1>12. \A t \in 1 .. Len(tokens) : \E k \in 1 .. Len(issued) : issued[k].kind = tokens[t]
  BY <1>3, <1>10
<1> QED BY <1>4, <1>7, <1>9, <1>10, <1>11, <1>12 DEF issued, tokens

(* What the account of a batch is left pays for the burn of its items.     *)
LEMMA ReserveHolds ==
  ASSUME NEW p \in Seq(Batches), NEW b \in 1 .. Len(p)
  PROVE  /\ BurnReserve \in Nat \ {0}
         /\ AccountReserve(p, b) \in Int
         /\ AccountReserve(p, b) >= BurnReserve * Len(p[b].kinds)
         /\ p[b].kinds # <<>> => AccountReserve(p, b) > 0
<1> DEFINE sum == Sum(p[b].fees)
           len == Len(p[b].kinds)
           avail == Available(p[b])
           was == FeeLeft(p)[b - 1]
           left == FeeLeft(p)[b]
<1>1. /\ sum \in Int /\ len \in Nat /\ avail \in Int /\ p[b].kinds \in Seq({"tick", "verifier"})
  BY BatchIs
<1>2. OperationalFee \in Nat /\ BurnReserve \in Nat
  BY FeeAssumption
<1>3. BurnReserve # 0
  <2>1. 1 \in 1 .. MaxItems
    BY WeightAssumption
  <2>2. BurnFee(1, 1) < BurnReserve * 1 /\ BurnFee(1, 1) \in Nat
    BY <2>1, ReserveAssumption, BurnFeeType
  <2> QED BY <1>2, <2>2
<1>4. avail = sum - (OperationalFee + BurnReserve) * len
  BY DEF Available
<1>5. AccountReserve(p, b) = sum - OperationalFee * len - (was - left)
  BY DEF AccountReserve
<1>6. was \in Int /\ left \in Int /\ left = was - Min({avail, was})
  <2>1. b \in 0 .. Len(p) /\ b - 1 \in 0 .. Len(p)
    OBVIOUS
  <2> QED BY <2>1, FeeLeftIs
<1>7. was - left <= avail
  <2>1. Min({avail, was}) = IF avail <= was THEN avail ELSE was
    BY <1>1, <1>6, MinIs
  <2> HIDE DEF avail, was, left
  <2> QED BY <1>1, <1>6, <2>1
<1>8. /\ (OperationalFee + BurnReserve) * len = OperationalFee * len + BurnReserve * len
      /\ OperationalFee * len \in Nat /\ BurnReserve * len \in Nat
  <2>1. \A x, y, z \in Nat : (x + y) * z = x * z + y * z /\ x * z \in Nat /\ y * z \in Nat
    OBVIOUS
  <2> HIDE DEF len
  <2> QED BY <1>1, <1>2, <2>1
<1>9. p[b].kinds # <<>> => BurnReserve * len > 0
  <2>1. p[b].kinds # <<>> => len # 0
    BY <1>1
  <2>2. \A x, y \in Nat \ {0} : x * y > 0
    OBVIOUS
  <2> HIDE DEF len
  <2> QED BY <1>1, <1>2, <1>3, <2>1, <2>2
<1> DEFINE x == OperationalFee * len
           y == BurnReserve * len
<1>10. x \in Nat /\ y \in Nat /\ avail = sum - (x + y) /\ AccountReserve(p, b) = sum - x - (was - left)
  BY <1>4, <1>5, <1>8
<1>11. p[b].kinds # <<>> => y > 0
  BY <1>9
<1> HIDE DEF x, y, sum, avail, was, left
<1>12. AccountReserve(p, b) \in Int /\ AccountReserve(p, b) >= y
  <2>1. sum \in Int /\ was \in Int /\ left \in Int
    BY <1>1, <1>6
  <2>2. \A s, w, l \in Int, u, v \in Nat :
          w - l <= s - (u + v) => s - u - (w - l) \in Int /\ s - u - (w - l) >= v
    OBVIOUS
  <2> QED BY <1>7, <1>10, <2>1, <2>2
<1> QED BY <1>2, <1>3, <1>10, <1>11, <1>12 DEF y

(***************************************************************************)
(* The outputs of an issuance that a member accepts.                       *)
(***************************************************************************)
FirstOf(p) == 1 + Len(Tokens(p))
AccountsOf(p) == FirstOf(p) + Len(Issued(p))
DescribedAt(p) == AccountsOf(p) + Len(p) + 1

IsLaidOut(t, p) ==
  /\ Len(t.outputs) = DescribedAt(p) + 2
  /\ t.outputs[1] = EyeOut
  /\ \A k \in 1 .. Len(Tokens(p)) : t.outputs[1 + k] = TokenOut(Tokens(p)[k])
  /\ \A k \in 1 .. Len(Issued(p)) :
       LET out == t.outputs[FirstOf(p) + k] IN
       /\ out.to = Voucher(Issued(p)[k].owner, IF Issued(p)[k].kind = "verifier" THEN Branch ELSE NoSigner)
       /\ out.asset = Issued(p)[k].kind
       /\ out.amount \in Nat \ {0}
       /\ Issued(p)[k].kind = "verifier" => out.amount = 1
  /\ \A b \in 1 .. Len(p) :
       t.outputs[AccountsOf(p) + b] = Out(Account(p[b].owner), "policy", AccountReserve(p, b))
  /\ t.outputs[DescribedAt(p)] = Out(Descriptors(DescriptorsOf(p, Branch)), "policy", 0)
  /\ \A k \in 1 .. 2 : LET out == t.outputs[DescribedAt(p) + k] IN
       out.to \in {Treasury, MinerFee} /\ out.asset = "policy"

(* Where an output can be. *)
LEMMA Places ==
  ASSUME NEW p, Asked(p)
  PROVE  /\ Len(Tokens(p)) \in Nat \ {0} /\ Len(Issued(p)) \in Nat \ {0} /\ Len(p) \in Nat \ {0}
         /\ FirstOf(p) \in Nat /\ AccountsOf(p) \in Nat /\ DescribedAt(p) \in Nat
         /\ \A k \in 1 .. DescribedAt(p) + 2 :
              \/ k = 1
              \/ k - 1 \in 1 .. Len(Tokens(p)) /\ k = 1 + (k - 1)
              \/ k - FirstOf(p) \in 1 .. Len(Issued(p)) /\ k = FirstOf(p) + (k - FirstOf(p))
              \/ k - AccountsOf(p) \in 1 .. Len(p) /\ k = AccountsOf(p) + (k - AccountsOf(p))
              \/ k = DescribedAt(p)
              \/ k - DescribedAt(p) \in 1 .. 2 /\ k = DescribedAt(p) + (k - DescribedAt(p))
<1>1. Len(Tokens(p)) \in Nat \ {0} /\ Len(Issued(p)) \in Nat \ {0}
  BY TokensIs, IssuedItems
<1>2. Len(p) \in Nat \ {0}
  BY DEF Asked
<1> QED BY <1>1, <1>2 DEF FirstOf, AccountsOf, DescribedAt

LEMMA IssuedOutputs ==
  ASSUME NEW p, Asked(p), NEW t, IsTx(t), AmountsAre(t), NEW clock \in Clocks,
         FirstOf(p) + Len(Issued(p)) <= Len(t.outputs), IssuedMatch(t, p, clock, Branch)
  PROVE  \A k \in 1 .. Len(Issued(p)) :
           LET out == t.outputs[FirstOf(p) + k] IN
           /\ out.to = Voucher(Issued(p)[k].owner, IF Issued(p)[k].kind = "verifier" THEN Branch ELSE NoSigner)
           /\ out.asset = Issued(p)[k].kind
           /\ out.amount \in Nat \ {0}
           /\ Issued(p)[k].kind = "verifier" => out.amount = 1
<1> SUFFICES ASSUME NEW k \in 1 .. Len(Issued(p))
             PROVE  LET out == t.outputs[FirstOf(p) + k] IN
                    /\ out.to = Voucher(Issued(p)[k].owner, IF Issued(p)[k].kind = "verifier" THEN Branch ELSE NoSigner)
                    /\ out.asset = Issued(p)[k].kind
                    /\ out.amount \in Nat \ {0}
                    /\ Issued(p)[k].kind = "verifier" => out.amount = 1
  OBVIOUS
<1> DEFINE out == t.outputs[FirstOf(p) + k]
           item == Issued(p)[k]
           model == IssuedOut(item, clock, Branch)
           skewed == IF item.kind = "verifier" THEN out.amount = 1
                     ELSE out.amount - clock \in -MaxTickSkew .. MaxTickSkew
<1>1. DOMAIN Issued(p) = 1 .. Len(Issued(p))
  BY IssuedItems
<1>2. [out EXCEPT !.amount = 0] = [model EXCEPT !.amount = 0] /\ skewed
  <2>1. k \in DOMAIN Issued(p)
    BY <1>1
  <2> QED BY <2>1 DEF IssuedMatch, FirstOf
<1>3. FirstOf(p) + k \in DOMAIN t.outputs
  <2>1. DOMAIN t.outputs = 1 .. Len(t.outputs) /\ Len(t.outputs) \in Nat
    BY IsSeqProperties DEF IsTx
  <2>2. FirstOf(p) \in Nat /\ Len(Issued(p)) \in Nat
    BY Places
  <2> QED BY <2>1, <2>2
<1>4. IsOut(out)
  BY <1>3 DEF AmountsAre
<1>5. model = [to |-> model.to, asset |-> model.asset, amount |-> model.amount]
      /\ model.asset = item.kind
      /\ model.to = Voucher(item.owner, IF item.kind = "verifier" THEN Branch ELSE NoSigner)
  BY DEF IssuedOut, Out
<1> HIDE DEF out, model
<1>6. out.to = model.to /\ out.asset = model.asset
  <2>1. /\ [out EXCEPT !.amount = 0] = [to |-> out.to, asset |-> out.asset, amount |-> 0]
    BY <1>4 DEF IsOut
  <2>2. [model EXCEPT !.amount = 0] = [to |-> model.to, asset |-> model.asset, amount |-> 0]
    BY <1>5
  <2>3. [to |-> out.to, asset |-> out.asset, amount |-> 0] = [to |-> model.to, asset |-> model.asset, amount |-> 0]
    BY <1>2, <2>1, <2>2
  <2> QED BY <2>3
<1>7. out.amount \in Nat \ {0} /\ (item.kind = "verifier" => out.amount = 1)
  <2>1. out.amount \in Int
    BY <1>4 DEF IsOut
  <2>2. clock \in Nat /\ MaxTickSkew \in Nat /\ clock > MaxTickSkew
    BY TimeAssumption
  <2>3. skewed
    BY <1>2
  <2> HIDE DEF item
  <2> QED BY <2>1, <2>2, <2>3
<1>8. QED
  BY <1>5, <1>6, <1>7 DEF out

(* The accounting: the last two outputs pay the Treasury and the miner.    *)
LEMMA SignedOutputs ==
  ASSUME NEW p, Asked(p), NEW t, IsTx(t), AmountsAre(t), NEW clock \in Clocks,
         ValidIssuance(t, p, clock, Branch)
  PROVE  IsLaidOut(t, p)
<1> DEFINE outs == t.outputs
           tokens == Tokens(p)
           issued == Issued(p)
           T == Len(tokens)
           N == Len(issued)
           B == Len(p)
           q == DescribedAt(p)
<1>1. /\ T \in Nat \ {0} /\ N \in Nat \ {0} /\ B \in Nat \ {0}
      /\ FirstOf(p) \in Nat /\ AccountsOf(p) \in Nat /\ q \in Nat
      /\ DOMAIN tokens = 1 .. T /\ DOMAIN issued = 1 .. N /\ DOMAIN p = 1 .. B
  <2>1. p \in Seq(Batches)
    BY DEF Asked
  <2> QED BY <2>1, Places, IssuedItems, TokensIs
<1>2. /\ outs[1] = EyeOut /\ TokensAreKept(t, tokens)
      /\ Len(outs) >= FirstOf(p) + N
      /\ IssuedMatch(t, p, clock, Branch)
      /\ outs[q] = Out(Descriptors(DescriptorsOf(p, Branch)), "policy", 0)
      /\ Accounting(t, p)
  BY DEF ValidIssuance, FirstOf, AccountsOf, DescribedAt
<1>3. Len(outs) = q + 2
  <2>1. Len(outs) = AccountsOf(p) + B + 3
    BY <1>2 DEF Accounting, FirstOf, AccountsOf
  <2> HIDE DEF outs
  <2> QED BY <1>1, <2>1 DEF DescribedAt
<1>4. DOMAIN outs = 1 .. q + 2
  <2>1. IsSeq(outs)
    BY DEF IsTx
  <2> HIDE DEF outs
  <2> QED BY <1>3, <2>1, IsSeqProperties
<1>5. ASSUME NEW k \in 1 .. T PROVE outs[1 + k] = TokenOut(tokens[k])
  <2>1. k \in DOMAIN tokens
    BY <1>1
  <2> QED BY <1>2, <2>1 DEF TokensAreKept
<1>6. \A k \in 1 .. N :
        /\ outs[FirstOf(p) + k].to = Voucher(issued[k].owner, IF issued[k].kind = "verifier" THEN Branch ELSE NoSigner)
        /\ outs[FirstOf(p) + k].asset = issued[k].kind
        /\ outs[FirstOf(p) + k].amount \in Nat \ {0}
        /\ issued[k].kind = "verifier" => outs[FirstOf(p) + k].amount = 1
  BY <1>1, <1>2, IssuedOutputs
<1>7. \A b \in 1 .. B : outs[AccountsOf(p) + b] = Out(Account(p[b].owner), "policy", AccountReserve(p, b))
  BY <1>1, <1>2 DEF Accounting, FirstOf, AccountsOf
<1>8. /\ \E k \in DOMAIN outs : outs[k] = Out(Treasury, "policy", OperationalFee * N)
      /\ \E k \in DOMAIN outs : outs[k] = Out(MinerFee, "policy", IssuanceFee)
  BY <1>2 DEF Accounting
<1> DEFINE Collects(o) == o.to \in {Treasury, MinerFee} /\ o.asset = "policy"
<1>9. ASSUME NEW k \in 1 .. q PROVE ~Collects(outs[k])
  <2>1. \/ k = 1
        \/ k - 1 \in 1 .. T /\ k = 1 + (k - 1)
        \/ k - FirstOf(p) \in 1 .. N /\ k = FirstOf(p) + (k - FirstOf(p))
        \/ k - AccountsOf(p) \in 1 .. B /\ k = AccountsOf(p) + (k - AccountsOf(p))
        \/ k = q
    <3>1. k \in 1 .. q + 2 /\ k - q \notin 1 .. 2
      BY <1>1
    <3> QED BY <3>1, Places
  <2> HIDE DEF outs, tokens, issued, T, N, B, q
  <2>2. CASE k = 1
    <3>1. outs[k] = EyeOut
      BY <1>2, <2>2
    <3> QED BY <3>1 DEF EyeOut, Out, Eye, Treasury, MinerFee
  <2>3. CASE k - 1 \in 1 .. T /\ k = 1 + (k - 1)
    <3>1. outs[k] = TokenOut(tokens[k - 1])
      BY <1>5, <2>3
    <3>2. \A kind : TokenOut(kind).asset = Token(kind) /\ Token(kind) # "policy"
      BY DEF TokenOut, Token, Out
    <3>3. outs[k].asset # "policy"
      BY <3>1, <3>2
    <3> QED BY <3>3
  <2>4. CASE k - FirstOf(p) \in 1 .. N /\ k = FirstOf(p) + (k - FirstOf(p))
    <3> DEFINE i == k - FirstOf(p)
    <3>1. outs[FirstOf(p) + i].asset = issued[i].kind
      BY <1>6, <2>4
    <3>2. issued[i].kind \in {"tick", "verifier"}
      BY <2>4, TokensIs DEF issued, N
    <3>3. outs[k].asset = issued[i].kind
      BY <2>4, <3>1
    <3> QED BY <3>2, <3>3
  <2>5. CASE k - AccountsOf(p) \in 1 .. B /\ k = AccountsOf(p) + (k - AccountsOf(p))
    <3> DEFINE b == k - AccountsOf(p)
    <3>1. outs[AccountsOf(p) + b] = Out(Account(p[b].owner), "policy", AccountReserve(p, b))
      BY <1>7, <2>5
    <3>2. outs[k].to = Account(p[b].owner)
      BY <2>5, <3>1 DEF Out
    <3> QED BY <3>2 DEF Account, Treasury, MinerFee
  <2>6. CASE k = q
    <3>1. outs[k].to = Descriptors(DescriptorsOf(p, Branch))
      BY <1>2, <2>6 DEF Out
    <3> QED BY <3>1 DEF Descriptors, Treasury, MinerFee
  <2> QED BY <2>1, <2>2, <2>3, <2>4, <2>5, <2>6
<1>10. PICK i \in DOMAIN outs : outs[i] = Out(Treasury, "policy", OperationalFee * N)
  BY <1>8
<1>11. PICK j \in DOMAIN outs : outs[j] = Out(MinerFee, "policy", IssuanceFee)
  BY <1>8
<1>12. Collects(outs[i]) /\ Collects(outs[j]) /\ i # j
  <2>1. outs[i].to = Treasury /\ outs[i].asset = "policy" /\ outs[j].to = MinerFee /\ outs[j].asset = "policy"
    BY <1>10, <1>11 DEF Out
  <2>2. Treasury # MinerFee
    BY DEF Treasury, MinerFee
  <2> HIDE DEF outs
  <2> QED BY <2>1, <2>2
<1> HIDE DEF Collects
<1>13. i \in 1 .. q + 2 /\ j \in 1 .. q + 2 /\ i \notin 1 .. q /\ j \notin 1 .. q
  BY <1>4, <1>9, <1>10, <1>11, <1>12
<1>14. \A k \in 1 .. 2 : q + k = i \/ q + k = j
  <2>1. q \in Nat /\ i # j
    BY <1>1, <1>12
  <2> HIDE DEF q
  <2>2. (i = q + 1 \/ i = q + 2) /\ (j = q + 1 \/ j = q + 2)
    BY <1>13, <2>1
  <2>3. \A k \in 1 .. 2 : k = 1 \/ k = 2
    OBVIOUS
  <2> QED BY <2>1, <2>2, <2>3
<1>15. \A k \in 1 .. 2 : Collects(outs[q + k])
  BY <1>12, <1>14
<1> QED BY <1>2, <1>3, <1>5, <1>6, <1>7, <1>15 DEF IsLaidOut, Collects

(***************************************************************************)
(* What the index reads from it.                                           *)
(***************************************************************************)
AmountsOf(t, p, kind) ==
  [k \in DOMAIN Issued(p) |->
    IF Issued(p)[k].kind = kind THEN t.outputs[FirstOf(p) + k].amount ELSE 0]

(* Something is issued of each reissued asset. *)
LEMMA AmountsPositive ==
  ASSUME NEW p, Asked(p), NEW t, IsLaidOut(t, p), NEW k \in 1 .. Len(Tokens(p))
  PROVE  Sum(AmountsOf(t, p, Tokens(p)[k])) \in Nat \ {0}
<1> DEFINE kind == Tokens(p)[k]
           s == AmountsOf(t, p, kind)
           amount(i) == t.outputs[FirstOf(p) + i].amount
           N == Len(Issued(p))
<1>1. /\ DOMAIN Issued(p) = 1 .. N /\ N \in Nat \ {0}
  BY IssuedItems
<1>2. \A i \in 1 .. N : amount(i) \in Nat \ {0}
  BY DEF IsLaidOut
<1>3. PICK i \in 1 .. N : Issued(p)[i].kind = kind
  BY TokensIs
<1>4. /\ s = [j \in 1 .. N |-> s[j]]
      /\ \A j \in 1 .. N : s[j] = IF Issued(p)[j].kind = kind THEN amount(j) ELSE 0
  BY <1>1 DEF AmountsOf
<1> HIDE DEF s, amount, N
<1>5. s \in Seq(Nat) /\ Len(s) = N
  <2>1. \A j \in 1 .. N : s[j] \in Nat
    BY <1>2, <1>4
  <2> QED BY <1>1, <1>4, <2>1
<1>6. Sum(s) \in Nat /\ s[i] <= Sum(s)
  BY <1>5, SumGrows
<1>7. s[i] \in Nat \ {0}
  BY <1>2, <1>3, <1>4
<1>8. Sum(s) \in Nat \ {0}
  BY <1>6, <1>7
<1> QED BY <1>8 DEF s

(* The inputs after those of the tokens reissue nothing. *)
LEMMA CoinsAfter ==
  ASSUME NEW p, Asked(p), NEW t, IsTx(t), NEW n \in Nat \ {0}, n <= Len(t.inputs),
         SubSeq(t.inputs, n + 1, Len(t.inputs)) = FeeInputs(p),
         NEW k \in n + 1 .. Len(t.inputs)
  PROVE  t.inputs[k].issue = 0
<1> DEFINE coins == FeeInputs(p)
           ins == t.inputs
           i == k - n
<1>0. k \in n + 1 .. Len(ins)
  OBVIOUS
<1>1. IsSeq(ins) /\ DOMAIN ins = 1 .. Len(ins) /\ Len(ins) \in Nat
  BY IsSeqProperties DEF IsTx
<1>2. coins \in Seq(CoinInput)
  BY IssuedIs DEF Asked
<1>3. Len(SubSeq(ins, n + 1, Len(ins))) = Len(ins) - n
      /\ \A j \in 1 .. Len(ins) - n : SubSeq(ins, n + 1, Len(ins))[j] = ins[n + 1 + j - 1]
  <2> HIDE DEF ins
  <2>1. n + 1 \in Nat \ {0} /\ Len(ins) <= Len(ins) /\ n + 1 <= Len(ins)
        /\ Len(ins) - (n + 1) + 1 = Len(ins) - n
    BY <1>0, <1>1
  <2> QED BY <1>1, <2>1, IsSeqSub
<1>4. i \in 1 .. Len(ins) - n /\ n + 1 + i - 1 = k
  <2> HIDE DEF ins
  <2> QED BY <1>0, <1>1
<1> HIDE DEF i
<1>5. coins[i] = ins[k] /\ Len(coins) = Len(ins) - n
  BY <1>3, <1>4
<1> HIDE DEF coins, ins
<1>6. coins[i] \in CoinInput
  BY <1>2, <1>4, <1>5
<1>7. ins[k] \in CoinInput
  BY <1>5, <1>6
<1> QED BY <1>7 DEF CoinInput, ins

LEMMA Reissues ==
  ASSUME NEW p, Asked(p), NEW t, IsTx(t), IsLaidOut(t, p), NEW clock,
         ValidIssuance(t, p, clock, Branch)
  PROVE  /\ Reissued(t) = Tokens(p) /\ IsIssuance(t)
         /\ \A k \in 1 .. Len(Tokens(p)) :
              t.inputs[1 + k].issue = Sum(AmountsOf(t, p, Tokens(p)[k]))
<1> DEFINE ins == t.inputs
           tokens == Tokens(p)
           T == Len(tokens)
           len == Len(ins)
           Is(n) == /\ \A k \in 2 .. n + 1 : ins[k].issue > 0
                    /\ n + 1 < len => ins[n + 2].issue = 0
           count == CHOOSE n \in 0 .. len - 1 : Is(n)
<1>1. /\ tokens \in Seq({"tick", "verifier"}) /\ T \in Nat \ {0} /\ DOMAIN tokens = 1 .. T
      /\ \A k \in 1 .. T : tokens[k] \in {"tick", "verifier"}
  BY TokensIs, TokensAre DEF Asked
<1>2. len \in Nat
  BY IsSeqProperties DEF IsTx
<1>3. /\ ins[1].out = EyeOut /\ t.outputs[1] = EyeOut /\ TokensAreKept(t, tokens)
      /\ SubSeq(ins, FirstOf(p) + 1, len) = FeeInputs(p)
      /\ \A k \in DOMAIN tokens : ins[1 + k].issue = Sum(AmountsOf(t, p, tokens[k]))
  BY DEF ValidIssuance, FirstOf, AmountsOf
<1>4. \A k \in 1 .. T : /\ ins[1 + k].out = TokenOut(tokens[k]) /\ len > k
                        /\ ins[1 + k].issue = Sum(AmountsOf(t, p, tokens[k]))
  BY <1>1, <1>3 DEF TokensAreKept
<1>5. \A k \in 1 .. T : ins[1 + k].issue \in Nat \ {0}
  BY <1>4, AmountsPositive
<1>6. T + 1 <= len
  <2>1. T \in 1 .. T
    BY <1>1
  <2>2. len > T
    BY <1>4, <2>1
  <2> HIDE DEF len, T
  <2> QED BY <1>1, <1>2, <2>2
<1>7. \A k \in T + 2 .. len : ins[k].issue = 0
  <2>1. FirstOf(p) = T + 1
    <3> HIDE DEF T
    <3> QED BY <1>1 DEF FirstOf, T
  <2>2. SubSeq(ins, T + 1 + 1, len) = FeeInputs(p) /\ T + 1 \in Nat \ {0} /\ T + 1 + 1 = T + 2
    <3> HIDE DEF ins, len, T
    <3> QED BY <1>1, <1>3, <2>1
  <2>3. \A n \in Nat \ {0} :
          n <= len /\ SubSeq(ins, n + 1, len) = FeeInputs(p) =>
            \A k \in n + 1 .. len : ins[k].issue = 0
    BY CoinsAfter
  <2> HIDE DEF ins, len, T
  <2> QED BY <1>6, <2>2, <2>3
<1>8. Is(T) /\ T \in 0 .. len - 1
  <2> HIDE DEF ins, len, T, tokens
  <2>1. \A k \in 2 .. T + 1 : k - 1 \in 1 .. T /\ k = 1 + (k - 1)
    BY <1>1
  <2>2. \A k \in 2 .. T + 1 : ins[k].issue \in Nat \ {0}
    BY <1>5, <2>1
  <2>3. T + 1 < len => T + 2 \in T + 2 .. len
    BY <1>1, <1>2
  <2> QED BY <1>1, <1>2, <1>6, <1>7, <2>2, <2>3
<1>9. ASSUME NEW n \in 0 .. len - 1, Is(n) PROVE n = T
  <2> HIDE DEF ins, len, T, tokens
  <2>1. ~(n < T)
    <3>1. SUFFICES ASSUME n < T PROVE FALSE
      OBVIOUS
    <3>2. n + 1 \in 1 .. T /\ n + 2 = 1 + (n + 1) /\ n + 1 < len
      BY <1>1, <1>2, <1>6, <3>1
    <3>3. ins[n + 2].issue = 0
      BY <1>9, <3>2
    <3>4. ins[n + 2].issue \in Nat \ {0}
      BY <1>5, <3>2
    <3> QED BY <3>3, <3>4
  <2>2. ~(n > T)
    <3>1. SUFFICES ASSUME n > T PROVE FALSE
      OBVIOUS
    <3>2. T + 2 \in 2 .. n + 1 /\ T + 2 \in T + 2 .. len
      BY <1>1, <1>2, <3>1
    <3>3. ins[T + 2].issue > 0
      BY <1>9, <3>2
    <3>4. ins[T + 2].issue = 0
      BY <1>7, <3>2
    <3> QED BY <3>3, <3>4
  <2> QED BY <1>1, <1>2, <2>1, <2>2
<1>10. count = T
  <2> HIDE DEF Is, len, T
  <2> QED BY <1>8, <1>9
<1>11. Reissued(t) = [k \in 1 .. count |-> IF ins[1 + k].out = TokenOut("tick") THEN "tick" ELSE "verifier"]
  BY DEF Reissued
<1>12. \A k \in 1 .. T :
         (IF ins[1 + k].out = TokenOut("tick") THEN "tick" ELSE "verifier") = tokens[k]
  <2>1. TokenOut("verifier") # TokenOut("tick")
    <3>1. \A kind : TokenOut(kind).asset = Token(kind)
      BY DEF TokenOut, Out
    <3>2. Token("tick") # Token("verifier")
      BY DEF Token
    <3> QED BY <3>1, <3>2
  <2> HIDE DEF ins, T, tokens
  <2> QED BY <1>1, <1>4, <2>1
<1> HIDE DEF ins, T, tokens, count
<1>13. tokens = [k \in 1 .. T |-> tokens[k]]
  BY <1>1
<1>14. Reissued(t) = tokens
  BY <1>10, <1>11, <1>12, <1>13
<1>15. tokens # <<>>
  BY <1>1 DEF T
<1>16. IsIssuance(t)
  BY <1>3, <1>14, <1>15 DEF IsIssuance, ins
<1> QED BY <1>4, <1>14, <1>16 DEF tokens, T, ins

(* One output describes the others. *)
LEMMA Describes ==
  ASSUME NEW p, Asked(p), NEW t, IsTx(t), IsLaidOut(t, p)
  PROVE  /\ DescribingOutputs(t) = {DescribedAt(p)}
         /\ (CHOOSE k \in DescribingOutputs(t) : TRUE) = DescribedAt(p)
<1> DEFINE outs == t.outputs
           q == DescribedAt(p)
<1>1. /\ FirstOf(p) \in Nat /\ AccountsOf(p) \in Nat /\ q \in Nat \ {0}
      /\ Len(outs) = q + 2 /\ DOMAIN outs = 1 .. q + 2
  <2>1. FirstOf(p) \in Nat /\ AccountsOf(p) \in Nat /\ q \in Nat /\ Len(p) \in Nat
    BY Places
  <2>2. q # 0
    BY <2>1 DEF DescribedAt
  <2>3. Len(outs) = q + 2
    BY DEF IsLaidOut
  <2>4. DOMAIN outs = 1 .. Len(outs)
    BY IsSeqProperties DEF IsTx
  <2> HIDE DEF outs, q
  <2> QED BY <2>1, <2>2, <2>3, <2>4
<1>2. outs[q].to[1] = "descriptors"
  <2>1. outs[q] = Out(Descriptors(DescriptorsOf(p, Branch)), "policy", 0)
    BY DEF IsLaidOut
  <2>2. outs[q].to = Descriptors(DescriptorsOf(p, Branch))
    BY <2>1 DEF Out
  <2> QED BY <2>2 DEF Descriptors
<1>3. ASSUME NEW k \in DOMAIN outs, k # q PROVE outs[k].to[1] # "descriptors"
  <2>0. k \in 1 .. q + 2
    BY <1>1
  <2>1. \/ k = 1
        \/ k - 1 \in 1 .. Len(Tokens(p)) /\ k = 1 + (k - 1)
        \/ k - FirstOf(p) \in 1 .. Len(Issued(p)) /\ k = FirstOf(p) + (k - FirstOf(p))
        \/ k - AccountsOf(p) \in 1 .. Len(p) /\ k = AccountsOf(p) + (k - AccountsOf(p))
        \/ k - q \in 1 .. 2 /\ k = q + (k - q)
    BY <1>3, <2>0, Places
  <2>2. CASE k = 1
    <3>1. outs[k] = EyeOut
      BY <2>2 DEF IsLaidOut
    <3>2. outs[k].to = Eye
      BY <3>1 DEF EyeOut, Out
    <3> QED BY <3>2 DEF Eye
  <2>3. CASE k - 1 \in 1 .. Len(Tokens(p)) /\ k = 1 + (k - 1)
    <3> DEFINE i == k - 1
    <3>1. outs[1 + i] = TokenOut(Tokens(p)[i])
      BY <2>3 DEF IsLaidOut
    <3>2. outs[k] = TokenOut(Tokens(p)[i])
      BY <2>3, <3>1
    <3>3. \A kind : TokenOut(kind).to = Treasury
      BY DEF TokenOut, Out
    <3>4. outs[k].to = Treasury
      BY <3>2, <3>3
    <3> QED BY <3>4 DEF Treasury
  <2>4. CASE k - FirstOf(p) \in 1 .. Len(Issued(p)) /\ k = FirstOf(p) + (k - FirstOf(p))
    <3> DEFINE i == k - FirstOf(p)
               owner == Issued(p)[i].owner
               signer == IF Issued(p)[i].kind = "verifier" THEN Branch ELSE NoSigner
    <3>1. outs[FirstOf(p) + i].to = Voucher(owner, signer)
      BY <2>4 DEF IsLaidOut
    <3>2. outs[k].to = Voucher(owner, signer)
      BY <2>4, <3>1
    <3> HIDE DEF owner, signer
    <3> QED BY <3>2 DEF Voucher
  <2>5. CASE k - AccountsOf(p) \in 1 .. Len(p) /\ k = AccountsOf(p) + (k - AccountsOf(p))
    <3> DEFINE b == k - AccountsOf(p)
    <3>1. outs[AccountsOf(p) + b] = Out(Account(p[b].owner), "policy", AccountReserve(p, b))
      BY <2>5 DEF IsLaidOut
    <3>2. outs[k].to = Account(p[b].owner)
      BY <2>5, <3>1 DEF Out
    <3> QED BY <3>2 DEF Account
  <2>6. CASE k - q \in 1 .. 2 /\ k = q + (k - q)
    <3> DEFINE i == k - q
    <3>1. outs[q + i].to \in {Treasury, MinerFee}
      BY <2>6 DEF IsLaidOut
    <3>2. outs[k].to \in {Treasury, MinerFee}
      BY <2>6, <3>1
    <3> QED BY <3>2 DEF Treasury, MinerFee
  <2> QED BY <2>1, <2>2, <2>3, <2>4, <2>5, <2>6
<1>4. q \in DOMAIN outs
  BY <1>1
<1> HIDE DEF outs, q
<1>5. DescribingOutputs(t) = {q}
  BY <1>2, <1>3, <1>4 DEF DescribingOutputs, outs
<1> QED BY <1>5 DEF q

LEMMA DescriptorsAre ==
  ASSUME NEW p, Asked(p)
  PROVE  LET ds == DescriptorsOf(p, Branch) IN
         /\ IsSeq(ds) /\ Len(ds) = Len(Issued(p)) /\ DOMAIN ds = 1 .. Len(Issued(p))
         /\ \A k \in 1 .. Len(Issued(p)) :
              /\ ds[k].out = FirstOf(p) + k
              /\ ds[k].reserve = AccountsOf(p) + Issued(p)[k].batch
              /\ ds[k].owner = Issued(p)[k].owner
              /\ ds[k].signer = IF Issued(p)[k].kind = "verifier" THEN Branch ELSE NoSigner
              /\ KindOf(ds[k]) = Issued(p)[k].kind
<1> DEFINE issued == Issued(p)
           N == Len(issued)
           ds == DescriptorsOf(p, Branch)
           is(k) == Descriptor(issued[k], FirstOf(p), N, Branch, k)
<1>1. DOMAIN issued = 1 .. N /\ N \in Nat
  BY IssuedItems
<1>2. ds = [k \in DOMAIN issued |-> is(k)]
  BY DEF DescriptorsOf, FirstOf
<1> HIDE DEF ds, N, issued
<1>3. ds = [k \in 1 .. N |-> ds[k]] /\ \A k \in 1 .. N : ds[k] = is(k)
  <2> HIDE DEF is
  <2> QED BY <1>1, <1>2
<1>4. IsSeq(ds) /\ Len(ds) = N /\ DOMAIN ds = 1 .. N
  BY <1>1, <1>3, MapIs
<1>5. ASSUME NEW k \in 1 .. N
      PROVE  /\ ds[k].out = FirstOf(p) + k
             /\ ds[k].reserve = AccountsOf(p) + issued[k].batch
             /\ ds[k].owner = issued[k].owner
             /\ ds[k].signer = IF issued[k].kind = "verifier" THEN Branch ELSE NoSigner
             /\ KindOf(ds[k]) = issued[k].kind
  <2>1. /\ is(k).out = FirstOf(p) + k /\ is(k).reserve = FirstOf(p) + N + issued[k].batch
        /\ is(k).owner = issued[k].owner
        /\ is(k).signer = IF issued[k].kind = "verifier" THEN Branch ELSE NoSigner
    BY DEF Descriptor
  <2>2. ds[k] = is(k)
    BY <1>3
  <2> HIDE DEF is
  <2>3. issued[k].kind \in {"tick", "verifier"}
    BY TokensIs DEF issued, N
  <2>4. KindOf(ds[k]) = issued[k].kind
    BY <2>1, <2>2, <2>3, BranchAssumption DEF KindOf
  <2> QED BY <2>1, <2>2, <2>4 DEF AccountsOf, issued, N
<1> QED BY <1>4, <1>5 DEF ds, N, issued

(* The outputs of an asset are those that are described. *)
HeldIn(t, kind) == Cardinality({k \in DOMAIN t.outputs : t.outputs[k].asset = kind})
AskedOf(p, kind) == Cardinality({k \in 1 .. Len(Issued(p)) : Issued(p)[k].kind = kind})

LEMMA DescribedAssets ==
  ASSUME NEW p, Asked(p), NEW t, IsTx(t), IsLaidOut(t, p), NEW kind \in {"tick", "verifier"}
  PROVE  HeldIn(t, kind) = AskedOf(p, kind)
<1> DEFINE outs == t.outputs
           N == Len(Issued(p))
           first == FirstOf(p)
           A == {k \in 1 .. N : Issued(p)[k].kind = kind}
           C == {k \in DOMAIN outs : outs[k].asset = kind}
           f == [k \in A |-> first + k]
<1>1. /\ N \in Nat /\ Len(p) \in Nat /\ first \in Nat /\ AccountsOf(p) \in Nat /\ DescribedAt(p) \in Nat
      /\ DOMAIN outs = 1 .. DescribedAt(p) + 2 /\ first + N <= DescribedAt(p) /\ first >= 1
  <2>1. /\ N \in Nat /\ Len(p) \in Nat /\ first \in Nat /\ AccountsOf(p) \in Nat /\ DescribedAt(p) \in Nat
        /\ Len(Tokens(p)) \in Nat
    BY Places
  <2>2. DescribedAt(p) = first + N + Len(p) + 1 /\ first = 1 + Len(Tokens(p))
    BY DEF DescribedAt, AccountsOf, FirstOf
  <2>3. DOMAIN outs = 1 .. Len(outs) /\ Len(outs) = DescribedAt(p) + 2
    BY IsSeqProperties DEF IsTx, IsLaidOut
  <2> HIDE DEF outs, N, first
  <2> QED BY <2>1, <2>2, <2>3
<1>2. \A k \in 1 .. N : outs[first + k].asset = Issued(p)[k].kind
  BY DEF IsLaidOut
<1>3. ASSUME NEW k \in DOMAIN outs, k - first \notin 1 .. N PROVE outs[k].asset # kind
  <2>0. k \in 1 .. DescribedAt(p) + 2
    BY <1>1
  <2>1. \/ k = 1
        \/ k - 1 \in 1 .. Len(Tokens(p)) /\ k = 1 + (k - 1)
        \/ k - AccountsOf(p) \in 1 .. Len(p) /\ k = AccountsOf(p) + (k - AccountsOf(p))
        \/ k = DescribedAt(p)
        \/ k - DescribedAt(p) \in 1 .. 2 /\ k = DescribedAt(p) + (k - DescribedAt(p))
    BY <1>3, <2>0, Places
  <2>2. CASE k = 1
    <3>1. outs[k] = EyeOut
      BY <2>2 DEF IsLaidOut
    <3>2. outs[k].asset = "eye"
      BY <3>1 DEF EyeOut, Out
    <3> QED BY <3>2
  <2>3. CASE k - 1 \in 1 .. Len(Tokens(p)) /\ k = 1 + (k - 1)
    <3> DEFINE i == k - 1
    <3>1. outs[1 + i] = TokenOut(Tokens(p)[i])
      BY <2>3 DEF IsLaidOut
    <3>2. outs[k] = TokenOut(Tokens(p)[i])
      BY <2>3, <3>1
    <3>3. \A x : TokenOut(x).asset = Token(x) /\ Token(x) # "tick" /\ Token(x) # "verifier"
      BY DEF TokenOut, Token, Out
    <3> HIDE DEF outs
    <3> QED BY <3>2, <3>3
  <2>4. CASE k - AccountsOf(p) \in 1 .. Len(p) /\ k = AccountsOf(p) + (k - AccountsOf(p))
    <3> DEFINE b == k - AccountsOf(p)
    <3>1. outs[AccountsOf(p) + b] = Out(Account(p[b].owner), "policy", AccountReserve(p, b))
      BY <2>4 DEF IsLaidOut
    <3>2. outs[k].asset = "policy"
      BY <2>4, <3>1 DEF Out
    <3> QED BY <3>2
  <2>5. CASE k = DescribedAt(p)
    <3>1. outs[k] = Out(Descriptors(DescriptorsOf(p, Branch)), "policy", 0)
      BY <2>5 DEF IsLaidOut
    <3>2. outs[k].asset = "policy"
      BY <3>1 DEF Out
    <3> QED BY <3>2
  <2>6. CASE k - DescribedAt(p) \in 1 .. 2 /\ k = DescribedAt(p) + (k - DescribedAt(p))
    <3> DEFINE i == k - DescribedAt(p)
    <3>1. outs[DescribedAt(p) + i].asset = "policy"
      BY <2>6 DEF IsLaidOut
    <3>2. outs[k].asset = "policy"
      BY <2>6, <3>1
    <3> QED BY <3>2
  <2> QED BY <2>1, <2>2, <2>3, <2>4, <2>5, <2>6
<1> HIDE DEF outs, N, first
<1>4. \A k \in A : f[k] = first + k /\ first + k \in C
  <2>1. \A k \in 1 .. N : first + k \in DOMAIN outs
    BY <1>1
  <2> QED BY <1>2, <2>1
<1>5. \A j \in C : \E k \in A : f[k] = j
  <2> TAKE j \in C
  <2>1. j - first \in 1 .. N
    BY <1>3
  <2>2. first + (j - first) = j
    BY <1>1
  <2>3. j - first \in A
    BY <1>2, <2>1, <2>2
  <2> HIDE DEF f
  <2> QED BY <1>4, <2>2, <2>3
<1>6. \A k, l \in A : f[k] = f[l] => k = l
  <2>1. \A k, l \in 1 .. N : first + k = first + l => k = l
    BY <1>1
  <2> QED BY <1>4, <2>1
<1>7. f \in [A -> C]
  <2>1. f = [k \in A |-> f[k]]
    OBVIOUS
  <2> HIDE DEF f
  <2> QED BY <1>4, <2>1
<1>8. IsFiniteSet(A)
  <2>1. 1 \in Int /\ N \in Int
    BY <1>1
  <2>2. IsFiniteSet(1 .. N) /\ A \in SUBSET (1 .. N)
    BY <2>1, FS_Interval
  <2> HIDE DEF A
  <2> QED BY <2>2, FS_Subset
<1> HIDE DEF A, C, f
<1>9. f \in Bijection(A, C)
  BY <1>5, <1>6, <1>7 DEF Bijection, Injection, Surjection, IsInjective
<1>10. Cardinality(A) = Cardinality(C)
  BY <1>8, <1>9, FS_Bijection DEF ExistsBijection
<1> QED BY <1>10 DEF HeldIn, AskedOf, A, C, outs, N, first

(* The index of no node stops at it. *)
LEMMA SignedIsReadable ==
  ASSUME NEW p, Asked(p), Len(Issued(p)) <= MaxItems,
         NEW t, IsTx(t), IsLaidOut(t, p), NEW clock, ValidIssuance(t, p, clock, Branch)
  PROVE  Readable(t)
<1> DEFINE issued == Issued(p)
           N == Len(issued)
           outs == t.outputs
           d == outs[CHOOSE k \in DescribingOutputs(t) : TRUE]
           ds == d.to[2]
           places == 1 .. Len(ds)
           of(kind) == {k \in places : KindOf(ds[k]) = kind}
<1>1. d = Out(Descriptors(DescriptorsOf(p, Branch)), "policy", 0)
  BY Describes DEF IsLaidOut
<1>2. d.asset = "policy" /\ d.amount = 0 /\ ds = DescriptorsOf(p, Branch)
  <2>1. d.to = Descriptors(DescriptorsOf(p, Branch)) /\ d.asset = "policy" /\ d.amount = 0
    BY <1>1 DEF Out
  <2> HIDE DEF d
  <2> QED BY <2>1 DEF Descriptors
<1>3. /\ Len(ds) = N
      /\ \A k \in 1 .. N :
           /\ ds[k].out = FirstOf(p) + k
           /\ ds[k].reserve = AccountsOf(p) + issued[k].batch
           /\ ds[k].owner = issued[k].owner
           /\ ds[k].signer = IF issued[k].kind = "verifier" THEN Branch ELSE NoSigner
           /\ KindOf(ds[k]) = issued[k].kind
  <2> HIDE DEF ds
  <2> QED BY <1>2, DescriptorsAre
<1>4. /\ N \in Nat \ {0} /\ DOMAIN issued = 1 .. N
      /\ \A k \in 1 .. N : issued[k].batch \in 1 .. Len(p) /\ issued[k].owner = p[issued[k].batch].owner
  BY IssuedItems
<1>5. /\ FirstOf(p) \in Nat /\ AccountsOf(p) \in Nat /\ DescribedAt(p) \in Nat /\ Len(p) \in Nat
      /\ Len(outs) = DescribedAt(p) + 2 /\ FirstOf(p) + N <= Len(outs)
      /\ AccountsOf(p) + Len(p) <= Len(outs)
  <2>1. /\ FirstOf(p) \in Nat /\ AccountsOf(p) \in Nat /\ DescribedAt(p) \in Nat /\ Len(p) \in Nat
    BY Places
  <2>2. DescribedAt(p) = FirstOf(p) + N + Len(p) + 1 /\ AccountsOf(p) = FirstOf(p) + N
    BY DEF DescribedAt, AccountsOf
  <2>3. Len(outs) = DescribedAt(p) + 2
    BY DEF IsLaidOut
  <2> HIDE DEF outs, N
  <2> QED BY <1>4, <2>1, <2>2, <2>3
<1>6. Cardinality(DescribingOutputs(t)) = 1
  BY Describes, FS_Singleton
<1>7. Len(ds) \in 1 .. MaxItems
  <2>1. N <= MaxItems
    OBVIOUS
  <2> HIDE DEF ds, N
  <2> QED BY <1>3, <1>4, <2>1, WeightAssumption
<1>8. Reissued(t) = Tokens(p)
  BY Reissues
<1>9. \A k \in places : KindOf(ds[k]) \in ToSet(Reissued(t))
  <2> TAKE k \in places
  <2>1. k \in 1 .. N /\ KindOf(ds[k]) = issued[k].kind
    <3> HIDE DEF ds, N
    <3> QED BY <1>3
  <2>2. PICK i \in 1 .. Len(Tokens(p)) : Tokens(p)[i] = issued[k].kind
    BY <2>1, TokensIs
  <2>3. i \in DOMAIN Tokens(p)
    BY TokensIs
  <2> HIDE DEF ds, N, issued
  <2> QED BY <1>8, <2>1, <2>2, <2>3 DEF ToSet
<1>10. \A k, l \in places : ds[k].out = ds[l].out => k = l
  <2> HIDE DEF ds, N
  <2> QED BY <1>3, <1>5
<1>11. Cardinality({ds[k].signer : k \in places} \ {NoSigner}) <= 1
  <2> DEFINE S == {ds[k].signer : k \in places} \ {NoSigner}
  <2>1. S = {} \/ S = {Branch}
    <3> HIDE DEF ds, N
    <3>1. \A x \in S : x = Branch
      BY <1>3
    <3> QED BY <3>1
  <2> HIDE DEF S
  <2>2. Cardinality(S) = 0 \/ Cardinality(S) = 1
    BY <2>1, FS_EmptySet, FS_Singleton
  <2>3. Cardinality(S) <= 1
    BY <2>2
  <2> QED BY <2>3 DEF S
<1>12. ASSUME NEW i \in DOMAIN Reissued(t)
       PROVE  LET kind == Reissued(t)[i] IN
              /\ Cardinality({k \in DOMAIN outs : outs[k].asset = kind}) = Cardinality(of(kind))
              /\ t.inputs[1 + i].issue
                   = Sum([k \in places |-> IF k \in of(kind) THEN outs[ds[k].out].amount ELSE 0])
  <2> DEFINE kind == Tokens(p)[i]
  <2>1. i \in 1 .. Len(Tokens(p)) /\ kind \in {"tick", "verifier"}
    BY <1>8, TokensIs
  <2>2. t.inputs[1 + i].issue = Sum(AmountsOf(t, p, kind))
    BY <2>1, Reissues
  <2>3. Cardinality({k \in DOMAIN outs : outs[k].asset = kind})
          = Cardinality({k \in 1 .. N : issued[k].kind = kind})
    <3>1. kind \in {"tick", "verifier"}
      BY <2>1
    <3> HIDE DEF kind
    <3>2. HeldIn(t, kind) = AskedOf(p, kind)
      BY <3>1, DescribedAssets
    <3> QED BY <3>2 DEF HeldIn, AskedOf
  <2> HIDE DEF ds, N, outs, issued, kind
  <2>4. of(kind) = {k \in 1 .. N : issued[k].kind = kind}
    BY <1>3
  <2>5. [k \in places |-> IF k \in of(kind) THEN outs[ds[k].out].amount ELSE 0] = AmountsOf(t, p, kind)
    <3>1. AmountsOf(t, p, kind) =
            [k \in 1 .. N |-> IF issued[k].kind = kind THEN outs[FirstOf(p) + k].amount ELSE 0]
      BY <1>4 DEF AmountsOf, issued, outs
    <3> QED BY <1>3, <2>4, <3>1
  <2> QED BY <1>8, <2>2, <2>3, <2>4, <2>5 DEF kind
<1>13. ASSUME NEW k \in places
       PROVE  LET out == outs[ds[k].out]
                  reserve == outs[ds[k].reserve] IN
              /\ ds[k].out \in 1 .. Len(outs) /\ ds[k].reserve \in 1 .. Len(outs)
              /\ out.to = Voucher(ds[k].owner, ds[k].signer) /\ out.asset = KindOf(ds[k])
              /\ KindOf(ds[k]) = "verifier" => out.amount = 1
              /\ reserve.to = Account(ds[k].owner)
              /\ reserve.asset = "policy" /\ reserve.amount > 0
  <2> DEFINE b == issued[k].batch
             at == FirstOf(p) + k
             res == AccountsOf(p) + b
  <2>1. /\ k \in 1 .. N /\ ds[k].out = at /\ ds[k].reserve = res
        /\ ds[k].owner = issued[k].owner
        /\ ds[k].signer = IF issued[k].kind = "verifier" THEN Branch ELSE NoSigner
        /\ KindOf(ds[k]) = issued[k].kind
    <3> HIDE DEF ds, N, issued
    <3> QED BY <1>3
  <2>2. b \in 1 .. Len(p) /\ issued[k].owner = p[b].owner
    BY <1>4, <2>1
  <2>3. /\ outs[at].to = Voucher(issued[k].owner, IF issued[k].kind = "verifier" THEN Branch ELSE NoSigner)
        /\ outs[at].asset = issued[k].kind
        /\ issued[k].kind = "verifier" => outs[at].amount = 1
    BY <2>1 DEF IsLaidOut
  <2>4. outs[res] = Out(Account(p[b].owner), "policy", AccountReserve(p, b))
    BY <2>2 DEF IsLaidOut
  <2>5. outs[res].to = Account(p[b].owner) /\ outs[res].asset = "policy" /\ outs[res].amount = AccountReserve(p, b)
    BY <2>4 DEF Out
  <2>6. AccountReserve(p, b) > 0
    <3>1. p \in Seq(Batches) /\ b \in DOMAIN p
      BY <2>2 DEF Asked
    <3>2. p[b].kinds # <<>>
      BY <3>1 DEF Asked, Pays
    <3> QED BY <2>2, <3>1, <3>2, ReserveHolds
  <2>7. at \in 1 .. Len(outs) /\ res \in 1 .. Len(outs)
    <3>1. k \in 1 .. N /\ b \in 1 .. Len(p) /\ N \in Nat
      BY <1>4, <2>1, <2>2
    <3> HIDE DEF outs, N, b, ds, places
    <3> QED BY <1>5, <3>1, SMTT(20)
  <2> HIDE DEF ds, outs, issued, b, at, res
  <2> QED BY <2>1, <2>2, <2>3, <2>5, <2>6, <2>7
<1> HIDE DEF d
<1> QED BY <1>2, <1>6, <1>7, <1>9, <1>10, <1>11, <1>12, <1>13 DEF Readable, d

(* The rows that the index reads are what the users asked for.             *)
ReadsAs(t, p) ==
  LET issued == Issued(p)
      reserve(b) == 1 + Len(Tokens(p)) + Len(issued) + b IN
  /\ IsIssuance(t) /\ Readable(t)
  /\ Len(Rows(t)) = Len(issued)
  /\ \A k \in DOMAIN issued :
       LET r == Rows(t)[k] IN
       /\ r.kind = issued[k].kind /\ r.owner = issued[k].owner
       /\ r.signer = IF r.kind = "verifier" THEN Branch ELSE NoSigner
       /\ \A l \in DOMAIN issued :
            (r.reserve = Rows(t)[l].reserve) <=> (issued[k].batch = issued[l].batch)
  /\ \A b \in DOMAIN p :
       t.outputs[reserve(b)].amount >= BurnReserve * Len(p[b].kinds)
  /\ Policy(t.outputs) = Policy([k \in DOMAIN t.inputs |-> t.inputs[k].out])

LEMMA SignedRows ==
  ASSUME NEW p, Asked(p), NEW t, IsTx(t), IsLaidOut(t, p)
  PROVE  /\ Rows(t) = [k \in 1 .. Len(Issued(p)) |-> Rows(t)[k]]
         /\ \A k \in 1 .. Len(Issued(p)) :
              /\ Rows(t)[k].out = FirstOf(p) + k
              /\ Rows(t)[k].kind = Issued(p)[k].kind /\ Rows(t)[k].owner = Issued(p)[k].owner
              /\ Rows(t)[k].signer = IF Issued(p)[k].kind = "verifier" THEN Branch ELSE NoSigner
              /\ Rows(t)[k].reserve = AccountsOf(p) + Issued(p)[k].batch
              /\ Rows(t)[k].amount = t.outputs[FirstOf(p) + k].amount
<1> DEFINE ds == t.outputs[CHOOSE k \in DescribingOutputs(t) : TRUE].to[2]
           N == Len(Issued(p))
           Read(k) == [out |-> ds[k].out, kind |-> KindOf(ds[k]), owner |-> ds[k].owner,
                       signer |-> ds[k].signer, reserve |-> ds[k].reserve,
                       amount |-> t.outputs[ds[k].out].amount]
<1>1. ds = DescriptorsOf(p, Branch)
  <2>1. t.outputs[DescribedAt(p)] = Out(Descriptors(DescriptorsOf(p, Branch)), "policy", 0)
    BY DEF IsLaidOut
  <2>2. t.outputs[DescribedAt(p)].to = Descriptors(DescriptorsOf(p, Branch))
    BY <2>1 DEF Out
  <2>3. ds = t.outputs[DescribedAt(p)].to[2]
    BY Describes
  <2> QED BY <2>2, <2>3 DEF Descriptors
<1>2. Rows(t) = [k \in 1 .. Len(ds) |-> Read(k)]
  BY DEF Rows
<1> HIDE DEF ds
<1>3. /\ Len(ds) = N
      /\ \A k \in 1 .. N :
           /\ ds[k].out = FirstOf(p) + k
           /\ ds[k].reserve = AccountsOf(p) + Issued(p)[k].batch
           /\ ds[k].owner = Issued(p)[k].owner
           /\ ds[k].signer = IF Issued(p)[k].kind = "verifier" THEN Branch ELSE NoSigner
           /\ KindOf(ds[k]) = Issued(p)[k].kind
  BY <1>1, DescriptorsAre
<1>4. \A k : /\ Read(k).out = ds[k].out /\ Read(k).kind = KindOf(ds[k])
             /\ Read(k).owner = ds[k].owner /\ Read(k).signer = ds[k].signer
             /\ Read(k).reserve = ds[k].reserve /\ Read(k).amount = t.outputs[ds[k].out].amount
  OBVIOUS
<1> HIDE DEF Read, N
<1>5. Rows(t) = [k \in 1 .. N |-> Rows(t)[k]] /\ \A k \in 1 .. N : Rows(t)[k] = Read(k)
  BY <1>2, <1>3
<1> QED BY <1>3, <1>4, <1>5 DEF N

LEMMA SignedReads ==
  ASSUME NEW p, Asked(p), Len(Issued(p)) <= MaxItems,
         NEW t, IsTx(t), AmountsAre(t), NEW clock \in Clocks, ValidIssuance(t, p, clock, Branch)
  PROVE  ReadsAs(t, p)
<1> DEFINE issued == Issued(p)
           N == Len(issued)
           read == Rows(t)
<1>1. IsLaidOut(t, p)
  BY SignedOutputs
<1>2. IsIssuance(t) /\ Readable(t)
  BY <1>1, Reissues, SignedIsReadable
<1>3. /\ DOMAIN issued = 1 .. N /\ N \in Nat
      /\ \A k \in 1 .. N : issued[k].batch \in 1 .. Len(p) /\ issued[k].kind \in {"tick", "verifier"}
  BY IssuedItems, TokensIs
<1>4. AccountsOf(p) \in Nat /\ AccountsOf(p) = 1 + Len(Tokens(p)) + N /\ Len(p) \in Nat /\ DOMAIN p = 1 .. Len(p)
  <2>1. p \in Seq(Batches)
    BY DEF Asked
  <2> QED BY <2>1, Places DEF AccountsOf, FirstOf
<1>5. /\ read = [k \in 1 .. N |-> read[k]]
      /\ \A k \in 1 .. N :
           /\ read[k].kind = issued[k].kind /\ read[k].owner = issued[k].owner
           /\ read[k].signer = IF issued[k].kind = "verifier" THEN Branch ELSE NoSigner
           /\ read[k].reserve = AccountsOf(p) + issued[k].batch
  BY <1>1, SignedRows
<1>6. ASSUME NEW b \in 1 .. Len(p)
      PROVE  t.outputs[AccountsOf(p) + b].amount >= BurnReserve * Len(p[b].kinds)
  <2>1. t.outputs[AccountsOf(p) + b] = Out(Account(p[b].owner), "policy", AccountReserve(p, b))
    BY <1>1 DEF IsLaidOut
  <2>2. t.outputs[AccountsOf(p) + b].amount = AccountReserve(p, b)
    BY <2>1 DEF Out
  <2> QED BY <2>2, ReserveHolds DEF Asked
<1>7. Policy(t.outputs) = Policy([k \in DOMAIN t.inputs |-> t.inputs[k].out])
  BY DEF ValidIssuance, Accounting
<1> HIDE DEF issued, N, read
<1>8. Len(read) = N
  BY <1>3, <1>5
<1>9. ASSUME NEW k \in 1 .. N
      PROVE  /\ read[k].kind = issued[k].kind /\ read[k].owner = issued[k].owner
             /\ read[k].signer = IF read[k].kind = "verifier" THEN Branch ELSE NoSigner
             /\ \A l \in 1 .. N :
                  (read[k].reserve = read[l].reserve) <=> (issued[k].batch = issued[l].batch)
  <2>1. \A l \in 1 .. N : read[l].reserve = AccountsOf(p) + issued[l].batch /\ issued[l].batch \in Nat
    BY <1>3, <1>5
  <2>2. \A x, y \in Nat : AccountsOf(p) + x = AccountsOf(p) + y <=> x = y
    BY <1>4
  <2> QED BY <1>5, <2>1, <2>2
<1> QED BY <1>2, <1>3, <1>4, <1>6, <1>7, <1>8, <1>9 DEF ReadsAs, issued, N, read

(***************************************************************************)
(* What is asked for, from the queue to the signatures.                    *)
(***************************************************************************)
QueueAsked == \A b \in DOMAIN pending : Pays(pending[b])
BestAsked ==
  pc \in {"propose", "sign", "signed"} =>
    Asked(search.best) /\ Len(Issued(search.best)) <= MaxItems
IsSigned == pc = "signed" => \E clock \in Clocks : ValidIssuance(tx, search.best, clock, Branch)

SignedInv ==
  /\ BurnsInv
  /\ QueueAsked /\ BestAsked /\ IsSigned /\ pc # "stopped"

LEMMA PartAsked ==
  ASSUME pending \in Seq(Batches), QueueAsked, NEW n \in 1 .. Len(pending), Count(pending, n) <= MaxItems
  PROVE  /\ Asked(SubSeq(pending, 1, n)) /\ Len(Issued(SubSeq(pending, 1, n))) <= MaxItems
<1> DEFINE q == SubSeq(pending, 1, n)
<1>1. q \in Seq(Batches) /\ DOMAIN q = 1 .. n /\ \A k \in 1 .. n : q[k] = pending[k] /\ k \in DOMAIN pending
  OBVIOUS
<1>2. n \in Nat \ {0}
  OBVIOUS
<1> HIDE DEF q
<1>3. q # <<>>
  BY <1>1, <1>2
<1>4. Asked(q)
  BY <1>1, <1>3 DEF Asked, QueueAsked
<1> QED BY <1>4 DEF Count, q

LEMMA ChooseAsked ==
  ASSUME pending \in Seq(Batches), QueueAsked, Searching, Choose
  PROVE  QueueAsked' /\ BestAsked'
<1> DEFINE lo == search.lo
           lim == search.lim
           best == search.best
           taken == Prefix(lim)
           weight == IssuanceWeight(taken)
           unfit == Len(taken) = 1 /\ weight > LaneWeight
           Fits(b) == Asked(b) /\ Len(Issued(b)) <= MaxItems
<1>1. pc = "choose" /\ BoundsHold /\ Len(pending) \in Nat
  BY DEF Choose, Searching
<1>2. lo \in Nat \ {0} /\ lim \in Nat \ {0} /\ search = [lo |-> lo, hi |-> search.hi, lim |-> lim, best |-> best]
  <2>1. lo \in Nat \ {0} /\ lim \in Nat /\ lo <= lim
    BY <1>1 DEF BoundsHold
  <2>2. search = [lo |-> lo, hi |-> search.hi, lim |-> lim, best |-> best]
    BY <1>1 DEF BoundsHold
  <2> HIDE DEF lo, lim
  <2> QED BY <2>1, <2>2
<1>3. PICK n \in 0 .. Len(pending) :
        taken = SubSeq(pending, 1, n) /\ Len(taken) = n /\ Count(pending, n) <= MaxItems
  BY <1>2, PrefixIs
<1>4. taken # <<>> => Fits(taken)
  <2>1. taken # <<>> => n # 0
    BY <1>3
  <2>2. n # 0 => n \in 1 .. Len(pending)
    BY <1>1, <1>3
  <2> HIDE DEF taken
  <2> QED BY <1>3, <2>1, <2>2, PartAsked
<1>5. best # <<>> => Fits(best)
  <2>1. /\ best = SubSeq(pending, 1, lo - 1) /\ lo - 1 <= Len(pending)
        /\ lo > 1 => Count(pending, lo - 1) <= MaxItems
    BY <1>1 DEF Searching
  <2> HIDE DEF best, lo
  <2>2. lo = 1 => best = <<>>
    BY <2>1
  <2>3. lo # 1 => lo - 1 \in 1 .. Len(pending) /\ lo > 1
    BY <1>1, <1>2, <2>1
  <2> QED BY <2>1, <2>2, <2>3, PartAsked
<1>6. best = <<>> => lo = 1
  <2>1. best = SubSeq(pending, 1, lo - 1) /\ lo - 1 <= Len(pending)
    BY <1>1 DEF Searching
  <2> HIDE DEF best, lo
  <2>2. Len(SubSeq(pending, 1, lo - 1)) = lo - 1
    BY <1>1, <1>2, <2>1
  <2> QED BY <1>2, <2>1, <2>2
<1>7. Len(taken) \in Nat /\ (taken # <<>> => Len(taken) # 0)
  BY <1>3
<1> HIDE DEF lo, lim, best, taken, Fits
<1>8. ASSUME NEW to, NEW b, search'.best = b, pc' = to, to \notin {"propose", "sign", "signed"} \/ Fits(b)
      PROVE  BestAsked'
  BY <1>8 DEF BestAsked, Fits
<1>9. ASSUME UNCHANGED pending PROVE QueueAsked'
  BY <1>9 DEF QueueAsked
<1>10. CASE taken = <<>> /\ Settle(best, "propose") /\ UNCHANGED pending
  <2>1. search'.best = best /\ pc' = IF best = <<>> THEN "done" ELSE "propose"
    BY <1>2, <1>10 DEF Settle
  <2>2. BestAsked'
    BY <1>5, <1>8, <2>1
  <2> QED BY <1>9, <1>10, <2>2
<1>11. CASE unfit /\ pending' = Tail(pending) /\ search' = Fresh /\ UNCHANGED pc
  <2>1. n = 1
    BY <1>3, <1>11
  <2>2. pending # <<>>
    <3>1. 1 <= Len(pending)
      BY <1>1, <2>1
    <3> QED BY <1>1, <3>1
  <2>3. /\ DOMAIN pending' = 1 .. Len(pending) - 1
        /\ \A k \in 1 .. Len(pending) - 1 : pending'[k] = pending[k + 1] /\ k + 1 \in DOMAIN pending
    BY <1>11, <2>2
  <2>4. QueueAsked'
    BY <2>3 DEF QueueAsked
  <2>5. BestAsked'
    BY <1>1, <1>11 DEF BestAsked
  <2> QED BY <2>4, <2>5
<1>12. CASE /\ taken # <<>> /\ ~unfit
            /\ Weigh(taken, Len(taken), weight, "propose") /\ UNCHANGED pending
  <2>1. \/ Settle(taken, "propose")
        \/ Narrow(Len(taken) + 1, search.hi, taken, "propose")
        \/ weight > LaneWeight /\ Narrow(lo, Len(taken) - 1, best, "propose")
    BY <1>12 DEF Weigh, Below, lo, best
  <2>2. CASE Settle(taken, "propose")
    <3>1. search'.best = taken /\ pc' = "propose"
      BY <1>2, <1>12, <2>2 DEF Settle
    <3>2. BestAsked'
      BY <1>4, <1>8, <1>12, <3>1
    <3> QED BY <1>9, <1>12, <3>2
  <2>3. CASE Narrow(Len(taken) + 1, search.hi, taken, "propose")
    <3>1. search'.best = taken \/ pc' \in {"choose", "trapped"}
      BY <1>1, <1>2, <2>3 DEF Narrow
    <3>2. pc' \in {"choose", "trapped", "propose"}
      BY <1>1, <2>3 DEF Narrow
    <3>3. BestAsked'
      BY <1>4, <1>12, <3>1, <3>2 DEF BestAsked, Fits
    <3> QED BY <1>9, <1>12, <3>3
  <2>4. CASE weight > LaneWeight /\ Narrow(lo, Len(taken) - 1, best, "propose")
    <3>1. pc' \in {"choose", "trapped", "propose"}
      BY <1>1, <2>4 DEF Narrow
    <3>2. pc' = "propose" => search'.best = best /\ ~(lo <= Len(taken) - 1)
      BY <1>1, <1>2, <2>4 DEF Narrow
    <3>3. ~(Len(taken) = 1)
      BY <1>12, <2>4
    <3>4. pc' = "propose" => best # <<>>
      <4> DEFINE m == Len(taken)
      <4>1. m \in Nat /\ m # 0 /\ m # 1
        BY <1>7, <1>12, <3>3
      <4>2. pc' = "propose" => ~(lo <= m - 1)
        BY <3>2
      <4> HIDE DEF m
      <4> QED BY <1>6, <4>1, <4>2
    <3>5. BestAsked'
      BY <1>5, <3>1, <3>2, <3>4 DEF BestAsked, Fits
    <3> QED BY <1>9, <1>12, <3>5
  <2> QED BY <2>1, <2>2, <2>3, <2>4
<1> QED BY <1>10, <1>11, <1>12 DEF Choose, lim, best, taken

LEMMA SignedInit == InitRounds => SignedInv
<1> SUFFICES ASSUME InitRounds PROVE SignedInv
  OBVIOUS
<1>1. pc = "choose" /\ pending \in Queues
  BY DEF InitRounds
<1>2. QueueAsked
  BY <1>1, QueueAssumption DEF QueueAsked, Pays
<1> QED BY <1>1, <1>2, BurnsInit DEF SignedInv, BestAsked, IsSigned

LEMMA SignedStep ==
  ASSUME SignedInv, [NextRounds]_roundsVars
  PROVE  SignedInv'
<1>1. BurnsInv'
  BY BurnsStep DEF SignedInv
<1>2. /\ QueueAsked /\ BestAsked /\ IsSigned /\ pc # "stopped"
      /\ RoundsInv /\ IsTx(tx) /\ Amounts /\ SearchIs
  BY DEF SignedInv, BurnsInv
<1>3. ASSUME UNCHANGED pending PROVE QueueAsked'
  BY <1>2, <1>3 DEF QueueAsked
<1>4. CASE Choose
  <2>1. pending \in Seq(Batches) /\ Searching
    BY <1>2 DEF RoundsInv
  <2>2. QueueAsked' /\ BestAsked'
    BY <1>2, <1>4, <2>1, ChooseAsked
  <2>3. pc' \in {"choose", "propose", "done", "trapped"}
    BY <1>4, <2>1, ChooseStep
  <2> QED BY <1>1, <2>2, <2>3 DEF SignedInv, IsSigned
<1>5. CASE Propose
  <2>1. UNCHANGED <<pending, search>> /\ pc = "propose" /\ pc' = "sign"
    BY <1>5 DEF Propose
  <2>2. QueueAsked' /\ BestAsked'
    BY <1>2, <1>3, <2>1 DEF BestAsked
  <2> QED BY <1>1, <2>1, <2>2 DEF SignedInv, IsSigned
<1>6. ASSUME NEW clock \in Clocks, Sign(clock) PROVE SignedInv'
  <2> DEFINE best == search.best
             valid == ValidIssuance(tx, best, clock, Branch)
  <2>1. /\ UNCHANGED <<search, tx>> /\ pc = "sign"
        /\ IF valid
           THEN pc' = "signed" /\ pending' = SubSeq(pending, Len(best) + 1, Len(pending))
           ELSE pc' = "refused" /\ UNCHANGED pending
    BY <1>6 DEF Sign
  <2> HIDE DEF valid
  <2>2. Asked(best) /\ Len(Issued(best)) <= MaxItems
    BY <1>2, <2>1 DEF BestAsked
  <2>3. BestAsked'
    BY <2>1, <2>2 DEF BestAsked
  <2>4. IsSigned'
    BY <2>1 DEF IsSigned, valid
  <2>5. QueueAsked'
    <3>1. CASE pending' = SubSeq(pending, Len(best) + 1, Len(pending))
      <4>1. IsSeq(pending) /\ Len(pending) \in Nat /\ Len(best) + 1 \in Nat \ {0}
        <5>1. pending \in Seq(Batches) /\ best \in Seq(Batches)
          BY <1>2, <2>2 DEF RoundsInv, Asked
        <5> HIDE DEF best
        <5> QED BY <5>1, SeqIs
      <4> DEFINE rest == SubSeq(pending, Len(best) + 1, Len(pending))
      <4>2. \A k \in DOMAIN rest : \E j \in DOMAIN pending : rest[k] = pending[j]
        <5> DEFINE a == Len(best) + 1
        <5>1. Len(pending) <= Len(pending) /\ a \in Nat \ {0} /\ Len(pending) \in Nat
          BY <4>1
        <5> HIDE DEF best, a
        <5>2. \A k \in DOMAIN SubSeq(pending, a, Len(pending)) :
                /\ SubSeq(pending, a, Len(pending))[k] = pending[a + k - 1]
                /\ a + k - 1 \in DOMAIN pending
          BY <4>1, <5>1, IsSeqSub
        <5> QED BY <5>2 DEF a
      <4> HIDE DEF rest
      <4>3. \A k \in DOMAIN rest : Pays(rest[k])
        BY <1>2, <4>2 DEF QueueAsked
      <4>4. pending' = rest
        BY <3>1 DEF rest
      <4> QED BY <4>3, <4>4 DEF QueueAsked
    <3>2. CASE UNCHANGED pending
      BY <1>3, <3>2
    <3> QED BY <2>1, <3>1, <3>2
  <2>6. pc' # "stopped"
    BY <2>1
  <2> QED BY <1>1, <2>3, <2>4, <2>5, <2>6 DEF SignedInv
<1>7. CASE IndexIssuance
  <2>1. UNCHANGED <<pending, search, tx>> /\ pc = "signed"
    BY <1>7 DEF IndexIssuance
  <2>2. PICK clock \in Clocks : ValidIssuance(tx, search.best, clock, Branch)
    BY <1>2, <2>1 DEF IsSigned
  <2>3. IsIssuance(tx) /\ Readable(tx)
    <3>1. Asked(search.best) /\ Len(Issued(search.best)) <= MaxItems /\ AmountsAre(tx)
      BY <1>2, <2>1 DEF BestAsked, Amounts
    <3>2. ReadsAs(tx, search.best)
      BY <1>2, <2>2, <3>1, SignedReads
    <3> QED BY <3>2 DEF ReadsAs
  <2>4. pc' = "live"
    BY <1>7, <2>3 DEF IndexIssuance
  <2>5. QueueAsked'
    BY <1>3, <2>1
  <2> QED BY <1>1, <2>4, <2>5 DEF SignedInv, BestAsked, IsSigned
<1>8. ASSUME UNCHANGED pending, pc' \notin {"propose", "sign", "signed", "stopped"} PROVE SignedInv'
  <2>1. QueueAsked'
    BY <1>3, <1>8
  <2> QED BY <1>1, <1>8, <2>1 DEF SignedInv, BestAsked, IsSigned
<1>9. ASSUME NEW spent, NEW taken, Expire(spent, taken) PROVE SignedInv'
  <2>1. UNCHANGED pending /\ pc' \in {"done", "burn"}
    BY <1>9 DEF Expire
  <2> QED BY <1>8, <2>1
<1>10. CASE ChooseBurn
  <2>1. UNCHANGED pending /\ pc' \in {"burn", "live", "fire", "done", "trapped"}
    BY <1>10 DEF ChooseBurn, Narrow, Settle, Weigh
  <2> QED BY <1>8, <2>1
<1>11. CASE Fire
  <2>1. UNCHANGED pending /\ pc' = "sign burn"
    BY <1>11 DEF Fire
  <2> QED BY <1>8, <2>1
<1>12. CASE SignBurn
  <2>1. UNCHANGED pending /\ pc' \in {"burned", "live"}
    BY <1>12 DEF SignBurn
  <2> QED BY <1>8, <2>1
<1>13. CASE Burned
  <2>1. UNCHANGED pending /\ pc' \in {"done", "live"}
    BY <1>13 DEF Burned
  <2> QED BY <1>8, <2>1
<1>14. ASSUME NEW t \in Near(tx), LayOutOtherwise(t) PROVE SignedInv'
  <2>1. UNCHANGED <<pc, pending, search>> /\ pc \in {"sign", "sign burn"}
    BY <1>14 DEF LayOutOtherwise
  <2>2. QueueAsked' /\ BestAsked'
    BY <1>2, <1>3, <2>1 DEF BestAsked
  <2> QED BY <1>1, <2>1, <2>2 DEF SignedInv, IsSigned
<1>15. CASE UNCHANGED roundsVars
  <2>1. UNCHANGED <<pc, pending, search, tx>>
    BY <1>15 DEF roundsVars
  <2>2. QueueAsked' /\ BestAsked' /\ IsSigned' /\ pc' # "stopped"
    BY <1>2, <1>3, <2>1 DEF BestAsked, IsSigned
  <2> QED BY <1>1, <2>2 DEF SignedInv
<1> QED BY <1>4, <1>5, <1>6, <1>7, <1>9, <1>10, <1>11, <1>12, <1>13, <1>14, <1>15 DEF NextRounds, Round

LEMMA SignedInvReads ==
  SignedInv => pc # "stopped" /\ (pc = "signed" => ReadsAs(tx, search.best))
<1> SUFFICES ASSUME SignedInv PROVE pc # "stopped" /\ (pc = "signed" => ReadsAs(tx, search.best))
  OBVIOUS
<1>1. BestAsked /\ IsSigned /\ pc # "stopped" /\ IsTx(tx) /\ Amounts
  BY DEF SignedInv, BurnsInv
<1>2. CASE pc = "signed"
  <2>1. Asked(search.best) /\ Len(Issued(search.best)) <= MaxItems /\ AmountsAre(tx)
    BY <1>1, <1>2 DEF BestAsked, Amounts
  <2>2. PICK clock \in Clocks : ValidIssuance(tx, search.best, clock, Branch)
    BY <1>1, <1>2 DEF IsSigned
  <2>3. ReadsAs(tx, search.best)
    BY <1>1, <2>1, <2>2, SignedReads
  <2> QED BY <1>1, <2>3
<1> QED BY <1>1, <1>2

(***************************************************************************)
(* What outputs hold in all.                                               *)
(***************************************************************************)
LEMMA SumConcat ==
  ASSUME NEW u \in Seq(Int), NEW v \in Seq(Int)
  PROVE  Sum(u \o v) = Sum(u) + Sum(v)
<1> DEFINE a == Len(u)
           b == Len(v)
           s == u \o v
<1>1. PICK F \in [0 .. a -> Int] :
        F[0] = 0 /\ Sum(u) = F[a] /\ \A n \in 1 .. a : F[n] = F[n - 1] + u[n]
  BY SumIs
<1>2. PICK G \in [0 .. b -> Int] :
        G[0] = 0 /\ Sum(v) = G[b] /\ \A n \in 1 .. b : G[n] = G[n - 1] + v[n]
  BY SumIs
<1>3. /\ a \in Nat /\ b \in Nat /\ s \in Seq(Int) /\ Len(s) = a + b
      /\ \A n \in 1 .. a : s[n] = u[n] /\ u[n] \in Int
      /\ \A n \in 1 .. b : s[a + n] = v[n] /\ v[n] \in Int
  OBVIOUS
<1> DEFINE Upto(n) == IF n <= a THEN F[n] ELSE F[a] + G[n - a]
           h == [n \in 0 .. a + b |-> Upto(n)]
<1> HIDE DEF a, b, s
<1>4. ASSUME NEW n \in 0 .. a + b PROVE Upto(n) \in Int
  <2>1. n <= a => F[n] \in Int
    <3>1. n <= a => n \in 0 .. a
      BY <1>3
    <3> QED BY <1>1, <3>1
  <2>2. ~(n <= a) => F[a] \in Int /\ G[n - a] \in Int
    <3>1. a \in 0 .. a /\ (~(n <= a) => n - a \in 0 .. b)
      BY <1>3
    <3> QED BY <1>1, <1>2, <3>1
  <2>3. ~(n <= a) => F[a] + G[n - a] \in Int
    BY <2>2
  <2> QED BY <2>1, <2>3
<1>5. h = [n \in 0 .. a + b |-> h[n]] /\ \A n \in 0 .. a + b : h[n] = Upto(n)
  OBVIOUS
<1>6. h \in [0 .. a + b -> Int]
  <2> HIDE DEF Upto, h
  <2> QED BY <1>4, <1>5
<1>7. h[0] = 0 /\ h[a + b] = Sum(u) + Sum(v)
  <2>1. 0 \in 0 .. a + b /\ a + b \in 0 .. a + b /\ 0 <= a
    BY <1>3
  <2>2. Upto(0) = 0
    BY <1>1, <2>1
  <2>3. Upto(a + b) = Sum(u) + Sum(v)
    <3>1. CASE b = 0
      <4>1. a + b <= a /\ a + b = a
        BY <1>3, <3>1
      <4>2. Upto(a + b) = F[a]
        BY <4>1
      <4>3. Sum(v) = 0 /\ Sum(u) = F[a] /\ F[a] \in Int
        <5>1. a \in 0 .. a
          BY <1>3
        <5> QED BY <1>1, <1>2, <3>1, <5>1
      <4> HIDE DEF Upto
      <4> QED BY <4>2, <4>3
    <3>2. CASE b # 0
      <4>1. ~(a + b <= a) /\ (a + b) - a = b
        BY <1>3, <3>2
      <4>2. Upto(a + b) = F[a] + G[(a + b) - a]
        BY <4>1
      <4> HIDE DEF Upto
      <4> QED BY <1>1, <1>2, <4>1, <4>2
    <3> QED BY <3>1, <3>2
  <2> HIDE DEF h, Upto
  <2> QED BY <1>5, <2>1, <2>2, <2>3
<1>8. ASSUME NEW n \in 1 .. a + b PROVE h[n] = h[n - 1] + s[n]
  <2>1. n \in 0 .. a + b /\ n - 1 \in 0 .. a + b
    BY <1>3
  <2>2. Upto(n) = Upto(n - 1) + s[n]
    <3>1. CASE n <= a
      <4>1. n \in 1 .. a /\ n - 1 <= a
        BY <1>3, <3>1
      <4> QED BY <1>1, <1>3, <3>1, <4>1
    <3>2. CASE ~(n <= a)
      <4> DEFINE k == n - a
      <4>1. k \in 1 .. b /\ a + k = n /\ (n - 1) - a = k - 1
        BY <1>3, <3>2
      <4> HIDE DEF k
      <4>2. s[n] = v[k] /\ G[k] = G[k - 1] + v[k] /\ G[k - 1] \in Int /\ F[a] \in Int /\ v[k] \in Int
        <5>1. k - 1 \in 0 .. b /\ a \in 0 .. a
          BY <1>3, <4>1
        <5> QED BY <1>1, <1>2, <1>3, <4>1, <5>1
      <4>3. Upto(n) = F[a] + G[k]
        BY <3>2 DEF k
      <4>4. Upto(n - 1) = F[a] + G[k - 1]
        <5>1. CASE n - 1 <= a
          <6>1. n - 1 = a /\ k = 1 /\ k - 1 = 0
            BY <1>3, <3>2, <4>1, <5>1
          <6> QED BY <1>2, <4>2, <5>1, <6>1
        <5>2. CASE ~(n - 1 <= a)
          BY <4>1, <5>2
        <5> QED BY <5>1, <5>2
      <4> HIDE DEF Upto
      <4> QED BY <4>2, <4>3, <4>4
    <3> QED BY <3>1, <3>2
  <2> HIDE DEF h, Upto
  <2> QED BY <1>5, <2>1, <2>2
<1> HIDE DEF h, Upto
<1>9. Sum(s) = h[Len(s)]
  BY <1>3, <1>6, <1>7, <1>8, SumEquals
<1> QED BY <1>3, <1>7, <1>9 DEF s

Paid(outs) == [k \in DOMAIN outs |-> IF outs[k].asset = "policy" THEN outs[k].amount ELSE 0]

LEMMA PaidIs ==
  ASSUME NEW u, OutsAre(u)
  PROVE  /\ Paid(u) \in Seq(Int) /\ Len(Paid(u)) = Len(u) /\ Policy(u) = Sum(Paid(u))
         /\ DOMAIN u = 1 .. Len(u) /\ Len(u) \in Nat /\ Policy(u) \in Int
         /\ \A k \in 1 .. Len(u) : Paid(u)[k] = IF u[k].asset = "policy" THEN u[k].amount ELSE 0
<1>1. DOMAIN u = 1 .. Len(u) /\ Len(u) \in Nat
  BY IsSeqProperties DEF OutsAre
<1>2. \A k \in 1 .. Len(u) : u[k].amount \in Int
  BY <1>1 DEF OutsAre, IsOut
<1>3. Policy(u) = Sum(Paid(u))
  BY DEF Policy, Paid
<1> DEFINE s == Paid(u)
<1>4. s = [k \in 1 .. Len(u) |-> s[k]] /\ \A k \in 1 .. Len(u) : s[k] = IF u[k].asset = "policy" THEN u[k].amount ELSE 0
  BY <1>1 DEF Paid
<1> HIDE DEF s
<1>5. \A k \in 1 .. Len(u) : s[k] \in Int
  BY <1>2, <1>4
<1>6. s \in Seq(Int) /\ Len(s) = Len(u)
  BY <1>1, <1>4, <1>5
<1>7. Sum(s) \in Int
  BY <1>6, SumType
<1> QED BY <1>1, <1>3, <1>4, <1>6, <1>7 DEF s

LEMMA PolicyConcat ==
  ASSUME NEW u, NEW v, OutsAre(u), OutsAre(v)
  PROVE  Policy(u \o v) = Policy(u) + Policy(v)
<1> DEFINE w == u \o v
           a == Paid(u)
           b == Paid(v)
           c == Paid(w)
<1>1. OutsAre(w)
  BY OutsConcat
<1>2. /\ Len(w) = Len(u) + Len(v)
      /\ \A k \in 1 .. Len(u) + Len(v) :
           (k \in 1 .. Len(u) /\ w[k] = u[k])
           \/ (k - Len(u) \in 1 .. Len(v) /\ w[k] = v[k - Len(u)])
  BY IsSeqConcat DEF OutsAre
<1> HIDE DEF w
<1>3. /\ a \in Seq(Int) /\ b \in Seq(Int) /\ c \in Seq(Int)
      /\ Len(a) = Len(u) /\ Len(b) = Len(v) /\ Len(c) = Len(w)
      /\ Len(u) \in Nat /\ Len(v) \in Nat
      /\ \A k \in 1 .. Len(u) : a[k] = IF u[k].asset = "policy" THEN u[k].amount ELSE 0
      /\ \A k \in 1 .. Len(v) : b[k] = IF v[k].asset = "policy" THEN v[k].amount ELSE 0
      /\ \A k \in 1 .. Len(w) : c[k] = IF w[k].asset = "policy" THEN w[k].amount ELSE 0
      /\ Policy(u) = Sum(a) /\ Policy(v) = Sum(b) /\ Policy(w) = Sum(c)
  BY <1>1, PaidIs
<1> HIDE DEF a, b, c
<1>4. /\ a \o b \in Seq(Int) /\ Len(a \o b) = Len(u) + Len(v)
      /\ \A k \in 1 .. Len(u) : (a \o b)[k] = a[k]
      /\ \A k \in 1 .. Len(v) : (a \o b)[Len(u) + k] = b[k]
  <2>1. IsSeq(a) /\ IsSeq(b)
    BY <1>3, SeqIs
  <2>2. /\ Len(a \o b) = Len(a) + Len(b)
        /\ \A k \in 1 .. Len(a) : (a \o b)[k] = a[k]
        /\ \A k \in 1 .. Len(b) : (a \o b)[Len(a) + k] = b[k]
    BY <2>1, IsSeqConcat
  <2>3. a \o b \in Seq(Int)
    BY <1>3
  <2> QED BY <1>3, <2>2, <2>3
<1>5. ASSUME NEW k \in 1 .. Len(u) + Len(v) PROVE c[k] = (a \o b)[k]
  <2>1. CASE k \in 1 .. Len(u) /\ w[k] = u[k]
    <3>1. (a \o b)[k] = a[k]
      BY <1>4, <2>1
    <3>2. a[k] = IF u[k].asset = "policy" THEN u[k].amount ELSE 0
      BY <1>3, <2>1
    <3>3. c[k] = IF w[k].asset = "policy" THEN w[k].amount ELSE 0
      BY <1>2, <1>3
    <3> QED BY <2>1, <3>1, <3>2, <3>3
  <2>2. CASE k - Len(u) \in 1 .. Len(v) /\ w[k] = v[k - Len(u)]
    <3>1. Len(u) + (k - Len(u)) = k
      BY <1>3
    <3>2. (a \o b)[k] = b[k - Len(u)]
      BY <1>4, <2>2, <3>1
    <3> QED BY <1>2, <1>3, <2>2, <3>2
  <2> QED BY <1>2, <2>1, <2>2
<1>6. c = a \o b
  <2>1. \A x, y \in Seq(Int) : Len(x) = Len(y) /\ (\A k \in 1 .. Len(x) : x[k] = y[k]) => x = y
    OBVIOUS
  <2> DEFINE d == a \o b
  <2>2. d \in Seq(Int) /\ Len(d) = Len(c) /\ \A k \in 1 .. Len(c) : c[k] = d[k]
    BY <1>2, <1>3, <1>4, <1>5
  <2> HIDE DEF d
  <2>3. c = d
    BY <1>3, <2>1, <2>2
  <2> QED BY <2>3 DEF d
<1>7. Sum(a \o b) = Sum(a) + Sum(b)
  BY <1>3, SumConcat
<1> QED BY <1>3, <1>6, <1>7 DEF w

LEMMA PolicyNone ==
  ASSUME NEW u, OutsAre(u), \A k \in DOMAIN u : u[k].asset # "policy"
  PROVE  Policy(u) = 0
<1>1. /\ Paid(u) \in Seq(Int) /\ Policy(u) = Sum(Paid(u)) /\ Len(Paid(u)) = Len(u)
      /\ \A k \in 1 .. Len(u) : Paid(u)[k] = 0
  BY PaidIs
<1> QED BY <1>1, SumZero

LEMMA PolicyOne ==
  ASSUME NEW o, IsOut(o), o.asset = "policy"
  PROVE  Policy(<<o>>) = o.amount
<1>1. o.amount \in Int
  BY DEF IsOut
<1>2. DOMAIN <<o>> = 1 .. 1 /\ <<o>>[1] = o
  OBVIOUS
<1>3. Paid(<<o>>) = [k \in 1 .. 1 |-> o.amount]
  BY <1>2 DEF Paid
<1>4. [k \in 1 .. 1 |-> o.amount] = <<o.amount>>
  OBVIOUS
<1>5. Policy(<<o>>) = Sum(<<o.amount>>)
  BY <1>3, <1>4 DEF Policy, Paid
<1> QED BY <1>1, <1>5, SumOne

(* The outputs that inputs spend. *)
Spent(ins) == [k \in DOMAIN ins |-> ins[k].out]
InsAre(s) == IsSeq(s) /\ \A k \in DOMAIN s : IsOut(s[k].out)

LEMMA SpentIs ==
  ASSUME NEW s, InsAre(s)
  PROVE  /\ OutsAre(Spent(s)) /\ Len(Spent(s)) = Len(s) /\ DOMAIN s = 1 .. Len(s) /\ Len(s) \in Nat
         /\ DOMAIN Spent(s) = 1 .. Len(s)
         /\ \A k \in 1 .. Len(s) : Spent(s)[k] = s[k].out
<1>1. DOMAIN s = 1 .. Len(s) /\ Len(s) \in Nat
  BY IsSeqProperties DEF InsAre
<1> DEFINE o == Spent(s)
<1>2. o = [k \in 1 .. Len(s) |-> o[k]] /\ \A k \in 1 .. Len(s) : o[k] = s[k].out
  BY <1>1 DEF Spent
<1> HIDE DEF o
<1>3. IsSeq(o) /\ Len(o) = Len(s) /\ DOMAIN o = 1 .. Len(s)
  BY <1>1, <1>2, MapIs
<1>4. OutsAre(o)
  BY <1>1, <1>2, <1>3 DEF OutsAre, InsAre
<1> QED BY <1>1, <1>2, <1>3, <1>4 DEF o

LEMMA SameSeqs ==
  ASSUME NEW x, NEW y, IsSeq(x), IsSeq(y), Len(x) = Len(y), \A k \in 1 .. Len(x) : x[k] = y[k]
  PROVE  x = y
<1>1. x = [k \in 1 .. Len(x) |-> x[k]] /\ y = [k \in 1 .. Len(x) |-> y[k]]
  BY DEF IsSeq
<1> QED BY <1>1

LEMMA InsConcat ==
  ASSUME NEW s, NEW t, InsAre(s), InsAre(t)
  PROVE  InsAre(s \o t) /\ Spent(s \o t) = Spent(s) \o Spent(t)
<1> DEFINE w == s \o t
           x == Spent(s)
           y == Spent(t)
           z == Spent(w)
<1>1. /\ DOMAIN s = 1 .. Len(s) /\ DOMAIN t = 1 .. Len(t)
      /\ OutsAre(x) /\ OutsAre(y) /\ Len(x) = Len(s) /\ Len(y) = Len(t)
      /\ \A k \in 1 .. Len(s) : x[k] = s[k].out
      /\ \A k \in 1 .. Len(t) : y[k] = t[k].out
      /\ Len(s) \in Nat /\ Len(t) \in Nat
  BY SpentIs
<1>2. /\ IsSeq(w) /\ Len(w) = Len(s) + Len(t)
      /\ \A k \in 1 .. Len(s) + Len(t) :
           (k \in 1 .. Len(s) /\ w[k] = s[k])
           \/ (k - Len(s) \in 1 .. Len(t) /\ w[k] = t[k - Len(s)])
  BY IsSeqConcat DEF InsAre
<1> HIDE DEF w, x, y
<1>3. DOMAIN w = 1 .. Len(s) + Len(t)
  BY <1>2, IsSeqProperties
<1>4. ASSUME NEW k \in DOMAIN w PROVE IsOut(w[k].out)
  <2>1. k \in 1 .. Len(s) + Len(t)
    BY <1>3
  <2>2. CASE k \in 1 .. Len(s) /\ w[k] = s[k]
    BY <1>1, <2>2 DEF InsAre
  <2>3. CASE k - Len(s) \in 1 .. Len(t) /\ w[k] = t[k - Len(s)]
    BY <1>1, <2>3 DEF InsAre
  <2> QED BY <1>2, <2>1, <2>2, <2>3
<1>5. InsAre(w)
  BY <1>2, <1>4 DEF InsAre
<1>6. OutsAre(z) /\ Len(z) = Len(w) /\ \A k \in 1 .. Len(w) : z[k] = w[k].out
  BY <1>5, SpentIs
<1> HIDE DEF z
<1>7. /\ IsSeq(x \o y) /\ Len(x \o y) = Len(s) + Len(t)
      /\ \A k \in 1 .. Len(s) : (x \o y)[k] = x[k]
      /\ \A k \in 1 .. Len(t) : (x \o y)[Len(s) + k] = y[k]
  <2>1. IsSeq(x) /\ IsSeq(y)
    BY <1>1 DEF OutsAre
  <2> QED BY <1>1, <2>1, IsSeqConcat
<1>8. ASSUME NEW k \in 1 .. Len(s) + Len(t) PROVE z[k] = (x \o y)[k]
  <2>1. CASE k \in 1 .. Len(s) /\ w[k] = s[k]
    BY <1>1, <1>2, <1>6, <1>7, <2>1
  <2>2. CASE k - Len(s) \in 1 .. Len(t) /\ w[k] = t[k - Len(s)]
    <3>1. Len(s) + (k - Len(s)) = k
      BY <1>1
    <3>2. (x \o y)[k] = y[k - Len(s)]
      BY <1>7, <2>2, <3>1
    <3> QED BY <1>1, <1>2, <1>6, <2>2, <3>2
  <2> QED BY <1>2, <2>1, <2>2
<1>9. z = x \o y
  <2> DEFINE v == x \o y
  <2>1. IsSeq(z) /\ IsSeq(v) /\ Len(z) = Len(v) /\ \A k \in 1 .. Len(z) : z[k] = v[k]
    BY <1>2, <1>6, <1>7, <1>8 DEF OutsAre
  <2> HIDE DEF v
  <2>2. z = v
    BY <2>1, SameSeqs
  <2> QED BY <2>2 DEF v
<1> QED BY <1>5, <1>9 DEF w, x, y, z

(***************************************************************************)
(* What the accounts pay, and what they are left.                          *)
(***************************************************************************)
FeesOf(p) == [b \in 1 .. Len(p) |-> Sum(p[b].fees)]
LeftOf(p) == [b \in 1 .. Len(p) |-> AccountReserve(p, b)]

LEMMA FeePaid ==
  ASSUME NEW p, Asked(p)
  PROVE  /\ Affordable(p) /\ \A n \in 1 .. Len(p) : FeeLeft(p)[n] = 0
         /\ \A n \in 1 .. Len(p) : Sum(p[n].fees) > 0
<1> DEFINE left == FeeLeft(p)
<1>1. p \in Seq(Batches) /\ DOMAIN p = 1 .. Len(p) /\ Len(p) \in Nat \ {0}
  BY DEF Asked
<1>2. OperationalFee \in Nat /\ BurnReserve \in Nat \ {0} /\ IssuanceFee \in Nat
  <2>1. 1 \in 1 .. Len(p)
    BY <1>1
  <2>2. BurnReserve \in Nat \ {0}
    BY <1>1, <2>1, ReserveHolds
  <2> QED BY <2>2, FeeAssumption
<1>3. ASSUME NEW n \in 1 .. Len(p)
      PROVE  Available(p[n]) \in Int /\ Available(p[n]) >= IssuanceFee /\ Sum(p[n].fees) > 0
  <2> DEFINE len == Len(p[n].kinds)
             sum == Sum(p[n].fees)
             least == (OperationalFee + BurnReserve) * len
  <2>1. len \in Nat \ {0} /\ sum \in Int /\ sum >= MinimumFee(len) /\ Available(p[n]) \in Int
    <3>1. p[n].kinds # <<>> /\ sum >= MinimumFee(len)
      BY <1>1 DEF Asked, Pays
    <3>2. p[n].kinds \in Seq({"tick", "verifier"}) /\ sum \in Int /\ Available(p[n]) \in Int
      BY <1>1, BatchIs
    <3>3. len \in Nat \ {0}
      BY <3>1, <3>2
    <3> QED BY <3>1, <3>2, <3>3
  <2>2. Available(p[n]) = sum - least /\ MinimumFee(len) = least + IssuanceFee
    BY DEF Available, MinimumFee
  <2>3. least \in Nat \ {0}
    <3>1. \A x \in Nat, y, z \in Nat \ {0} : (x + y) * z \in Nat \ {0}
      <4> TAKE x \in Nat, y \in Nat \ {0}, z \in Nat \ {0}
      <4>1. (x + y) * z = x * z + y * z /\ x * z >= 0 /\ y * z >= 1
        OBVIOUS
      <4>2. x * z \in Nat /\ y * z \in Nat
        OBVIOUS
      <4> QED BY <4>1, <4>2
    <3> HIDE DEF len
    <3> QED BY <1>2, <2>1, <3>1
  <2> HIDE DEF len, sum, least
  <2>4. sum - least >= IssuanceFee /\ sum > 0
    BY <1>2, <2>1, <2>2, <2>3
  <2> QED BY <2>1, <2>2, <2>4 DEF sum
<1>4. /\ left[0] = IssuanceFee /\ \A n \in 0 .. Len(p) : left[n] \in Int
      /\ \A n \in 1 .. Len(p) : left[n] = left[n - 1] - Min({Available(p[n]), left[n - 1]})
  BY <1>1, FeeLeftIs
<1> HIDE DEF left
<1>5. ASSUME NEW n \in 1 .. Len(p), left[n - 1] = 0 \/ left[n - 1] = IssuanceFee PROVE left[n] = 0
  <2>1. left[n - 1] \in Int /\ left[n - 1] <= Available(p[n])
    BY <1>2, <1>3, <1>5
  <2>2. Min({Available(p[n]), left[n - 1]}) = left[n - 1]
    <3>1. Min({Available(p[n]), left[n - 1]})
            = IF Available(p[n]) <= left[n - 1] THEN Available(p[n]) ELSE left[n - 1]
      BY <1>3, <2>1, MinIs
    <3> QED BY <1>3, <2>1, <3>1
  <2> QED BY <1>4, <2>1, <2>2
<1> DEFINE Bad == {n \in 1 .. Len(p) : left[n] # 0}
<1>6. Bad = {}
  <2>1. SUFFICES ASSUME Bad # {} PROVE FALSE
    OBVIOUS
  <2>2. PICK n \in Bad : \A k \in Bad : n <= k
    <3>1. Bad \subseteq Nat
      OBVIOUS
    <3> HIDE DEF Bad
    <3> QED BY <2>1, <3>1, HasLeast
  <2>3. n \in 1 .. Len(p) /\ left[n] # 0
    BY <2>2
  <2>4. n = 1 \/ n - 1 \in 1 .. Len(p)
    BY <2>3
  <2>5. n - 1 \notin Bad
    <3>1. ~(n <= n - 1)
      BY <2>3
    <3> HIDE DEF Bad
    <3> QED BY <2>2, <3>1
  <2>6. left[n - 1] = 0 \/ left[n - 1] = IssuanceFee
    <3>1. CASE n = 1
      BY <1>4, <3>1
    <3>2. CASE n - 1 \in 1 .. Len(p)
      BY <2>5, <3>2
    <3> QED BY <2>4, <3>1, <3>2
  <2> QED BY <1>5, <2>3, <2>6
<1>7. \A n \in 1 .. Len(p) : left[n] = 0
  BY <1>6
<1>8. Affordable(p)
  <2>1. \A n \in 1 .. Len(p) : Available(p[n]) >= 0
    BY <1>2, <1>3
  <2>2. left[Len(p)] = 0
    BY <1>1, <1>7
  <2> QED BY <1>1, <2>1, <2>2 DEF Affordable, left
<1> QED BY <1>3, <1>7, <1>8 DEF left

LEMMA FeesAre ==
  ASSUME NEW p \in Seq(Batches)
  PROVE  /\ FeesOf(p) \in Seq(Int) /\ Len(FeesOf(p)) = Len(p)
         /\ \A n \in 1 .. Len(p) : FeesOf(p)[n] = Sum(p[n].fees) /\ FeesOf(p)[n] \in Int
<1> DEFINE s == FeesOf(p)
<1>1. Len(p) \in Nat
  OBVIOUS
<1>2. s = [n \in 1 .. Len(p) |-> s[n]] /\ \A n \in 1 .. Len(p) : s[n] = Sum(p[n].fees)
  BY DEF FeesOf
<1> HIDE DEF s
<1>3. \A n \in 1 .. Len(p) : s[n] \in Int
  BY <1>2, BatchIs
<1>4. s \in Seq(Int) /\ Len(s) = Len(p)
  BY <1>1, <1>2, <1>3
<1> QED BY <1>2, <1>3, <1>4 DEF s

(* The coins of a batch hold its fees. *)
LEMMA CoinsAreIns == ASSUME NEW s \in Seq(CoinInput) PROVE InsAre(s)
<1>1. IsSeq(s) /\ \A k \in DOMAIN s : s[k] \in CoinInput
  BY SeqIs
<1>2. ASSUME NEW i \in CoinInput PROVE IsOut(i.out)
  BY DEF CoinInput, IsOut
<1> QED BY <1>1, <1>2 DEF InsAre

LEMMA CoinsHold ==
  ASSUME NEW p \in Seq(Batches), NEW n \in 1 .. Len(p)
  PROVE  /\ CoinsOf(p)[n] \in Seq(CoinInput)
         /\ Policy(Spent(CoinsOf(p)[n])) = Sum(p[n].fees)
<1> DEFINE fees == p[n].fees
           c == CoinsOf(p)[n]
           coin(f) == In(<<"fee", n, f>>, Out(Account(p[n].owner), "policy", fees[f]))
<1>1. c \in Seq(CoinInput)
  BY PartsAre
<1>2. c = [f \in DOMAIN fees |-> coin(f)]
  BY DEF CoinsOf
<1>3. fees \in Seq(Nat) /\ DOMAIN fees = 1 .. Len(fees) /\ Len(fees) \in Nat
  BY BatchIs
<1>4. fees = [f \in 1 .. Len(fees) |-> fees[f]]
  BY <1>3
<1> HIDE DEF c, fees
<1>5. \A f \in DOMAIN fees : c[f].out.asset = "policy" /\ c[f].out.amount = fees[f]
  <2>1. \A f : coin(f).out.asset = "policy" /\ coin(f).out.amount = fees[f]
    BY DEF In, Out
  <2> HIDE DEF coin
  <2> QED BY <1>2, <2>1
<1>6. DOMAIN c = 1 .. Len(fees)
  <2> HIDE DEF coin
  <2> QED BY <1>2, <1>3
<1>7. Paid(Spent(c)) = fees
  <2> DEFINE o == Spent(c)
  <2>1. DOMAIN o = 1 .. Len(fees) /\ \A f \in 1 .. Len(fees) : o[f] = c[f].out
    BY <1>6 DEF Spent
  <2> HIDE DEF o
  <2>2. Paid(o) = [f \in 1 .. Len(fees) |-> IF o[f].asset = "policy" THEN o[f].amount ELSE 0]
    BY <2>1 DEF Paid
  <2>3. \A f \in 1 .. Len(fees) : (IF o[f].asset = "policy" THEN o[f].amount ELSE 0) = fees[f]
    BY <1>3, <1>5, <2>1
  <2>4. Paid(o) = [f \in 1 .. Len(fees) |-> fees[f]]
    BY <2>2, <2>3
  <2> QED BY <1>4, <2>4 DEF o
<1>8. Policy(Spent(c)) = Sum(Paid(Spent(c)))
  BY DEF Policy, Paid
<1> QED BY <1>1, <1>7, <1>8 DEF c, fees

LEMMA CoinsInAll ==
  ASSUME NEW p \in Seq(Batches)
  PROVE  InsAre(FeeInputs(p)) /\ Policy(Spent(FeeInputs(p))) = Sum(FeesOf(p))
<1> DEFINE c == CoinsOf(p)
           len == Len(p)
           I(n) == FlattenSeq(SubSeq(c, 1, n))
           h == [n \in 0 .. len |-> Policy(Spent(I(n)))]
           s == FeesOf(p)
<1>1. c \in Seq(Seq(CoinInput)) /\ Len(c) = len /\ len \in Nat
  BY PartsAre
<1>2. FeeInputs(p) = FlattenSeq(c)
  <2>1. DOMAIN p = 1 .. len
    OBVIOUS
  <2> QED BY <2>1 DEF FeeInputs, CoinsOf
<1> HIDE DEF c
<1>3. SubSeq(c, 1, len) = c /\ SubSeq(c, 1, 0) = <<>>
  BY <1>1
<1>4. \A n \in 0 .. len : I(n) \in Seq(CoinInput)
  <2> TAKE n \in 0 .. len
  <2>1. SubSeq(c, 1, n) \in Seq(Seq(CoinInput))
    BY <1>1
  <2> QED BY <2>1, FlatType
<1>5. \A n \in 0 .. len : InsAre(I(n)) /\ OutsAre(Spent(I(n))) /\ Policy(Spent(I(n))) \in Int
  <2> TAKE n \in 0 .. len
  <2>1. InsAre(I(n))
    <3> HIDE DEF I
    <3> QED BY <1>4, CoinsAreIns
  <2> HIDE DEF I
  <2> QED BY <2>1, SpentIs, PaidIs
<1>6. ASSUME NEW n \in 1 .. len
      PROVE  Policy(Spent(I(n))) = Policy(Spent(I(n - 1))) + s[n]
  <2> DEFINE m == n - 1
  <2>1. m \in Nat /\ m < Len(c) /\ m + 1 = n /\ m \in 0 .. len
    BY <1>1
  <2>2. I(n) = I(m) \o c[n]
    <3> HIDE DEF m
    <3>1. FlattenSeq(SubSeq(c, 1, m + 1)) = FlattenSeq(SubSeq(c, 1, m)) \o c[m + 1]
      BY <1>1, <2>1, FlatPrefix
    <3> QED BY <2>1, <3>1
  <2>3. c[n] \in Seq(CoinInput) /\ Policy(Spent(c[n])) = Sum(p[n].fees)
    BY CoinsHold DEF c
  <2>4. InsAre(c[n])
    BY <2>3, CoinsAreIns
  <2> HIDE DEF I, m
  <2>5. InsAre(I(m)) /\ OutsAre(Spent(I(m)))
    BY <1>5, <2>1
  <2>6. Spent(I(n)) = Spent(I(m)) \o Spent(c[n]) /\ OutsAre(Spent(c[n]))
    BY <2>2, <2>4, <2>5, InsConcat, SpentIs
  <2>7. Policy(Spent(I(n))) = Policy(Spent(I(m))) + Policy(Spent(c[n]))
    BY <2>5, <2>6, PolicyConcat
  <2>8. s[n] = Sum(p[n].fees)
    BY FeesAre
  <2> QED BY <2>3, <2>7, <2>8 DEF m
<1>7. I(0) = <<>>
  BY <1>3, FlatEmpty
<1>8. Policy(Spent(I(0))) = 0
  <2>1. DOMAIN <<>> = {} /\ DOMAIN Spent(<<>>) = {}
    BY DEF Spent
  <2> HIDE DEF I
  <2>2. OutsAre(Spent(I(0)))
    <3>1. 0 \in 0 .. len
      BY <1>1
    <3> QED BY <1>5, <3>1
  <2> QED BY <1>7, <2>1, <2>2, PolicyNone
<1> HIDE DEF I
<1>9. h = [n \in 0 .. len |-> h[n]] /\ \A n \in 0 .. len : h[n] = Policy(Spent(I(n)))
  OBVIOUS
<1> HIDE DEF h
<1>10. s \in Seq(Int) /\ Len(s) = len
  BY FeesAre
<1> HIDE DEF s
<1>11. h \in [0 .. len -> Int] /\ h[0] = 0 /\ \A n \in 1 .. len : h[n] = h[n - 1] + s[n]
  <2>1. 0 \in 0 .. len /\ \A n \in 1 .. len : n \in 0 .. len /\ n - 1 \in 0 .. len
    BY <1>1
  <2> QED BY <1>5, <1>6, <1>8, <1>9, <2>1
<1>12. Sum(s) = h[len]
  BY <1>10, <1>11, SumEquals
<1>13. len \in 0 .. len
  BY <1>1
<1>14. FeeInputs(p) = I(len)
  BY <1>2, <1>3 DEF I
<1> QED BY <1>5, <1>9, <1>12, <1>13, <1>14 DEF s

(* The accounts are left what they paid but for the fees.                  *)
LEMMA LeftIsRest ==
  ASSUME NEW p, Asked(p)
  PROVE  /\ LeftOf(p) \in Seq(Int) /\ Sum(FeesOf(p)) \in Int /\ OperationalFee * Len(Issued(p)) \in Nat
         /\ Sum(LeftOf(p)) = Sum(FeesOf(p)) - OperationalFee * Len(Issued(p)) - IssuanceFee
<1> DEFINE len == Len(p)
           fees == FeesOf(p)
           rest == LeftOf(p)
           left == FeeLeft(p)
           N(n) == Count(p, n)
           x(n) == OperationalFee * N(n)
<1>1. p \in Seq(Batches) /\ len \in Nat \ {0}
  BY DEF Asked
<1>2. fees \in Seq(Int) /\ Len(fees) = len /\ \A n \in 1 .. len : fees[n] = Sum(p[n].fees) /\ fees[n] \in Int
  BY <1>1, FeesAre
<1>3. /\ rest = [n \in 1 .. len |-> rest[n]]
      /\ \A n \in 1 .. len : rest[n] = AccountReserve(p, n) /\ rest[n] \in Int
  BY <1>1, AccountReserveIs DEF LeftOf
<1>4. PICK F \in [0 .. len -> Int] :
        F[0] = 0 /\ Sum(fees) = F[len] /\ \A n \in 1 .. len : F[n] = F[n - 1] + fees[n]
  <2> HIDE DEF fees
  <2> QED BY <1>2, SumIs
<1>5. OperationalFee \in Nat /\ IssuanceFee \in Nat
  BY FeeAssumption
<1>6. left[0] = IssuanceFee /\ left[len] = 0 /\ \A n \in 0 .. len : left[n] \in Int
  BY <1>1, FeeLeftIs, FeePaid
<1>7. ASSUME NEW n \in 1 .. len PROVE N(n) = N(n - 1) + Len(p[n].kinds) /\ Len(p[n].kinds) \in Nat
  <2> DEFINE c == ItemsOf(p)
             m == n - 1
  <2>1. c \in Seq(Seq(ItemType)) /\ Len(c) = len
    BY <1>1, PartsAre
  <2>2. m \in Nat /\ m < Len(c) /\ m + 1 = n /\ m \in 0 .. len /\ n \in 0 .. len
    BY <1>1, <2>1
  <2>3. Len(c[n]) = Len(p[n].kinds) /\ Len(p[n].kinds) \in Nat
    <3>1. p[n].kinds \in Seq({"tick", "verifier"})
      BY <1>1, BatchIs
    <3>2. c[n] = [k \in DOMAIN p[n].kinds |-> [kind |-> p[n].kinds[k], owner |-> p[n].owner, batch |-> n]]
      BY DEF ItemsOf
    <3>3. DOMAIN c[n] = 1 .. Len(p[n].kinds) /\ Len(p[n].kinds) \in Nat
      BY <3>1, <3>2
    <3>4. c[n] \in Seq(ItemType)
      BY <2>1
    <3> QED BY <3>3, <3>4
  <2> HIDE DEF m, c
  <2>4. /\ FlattenSeq(SubSeq(c, 1, m)) \in Seq(ItemType) /\ c[n] \in Seq(ItemType)
        /\ FlattenSeq(SubSeq(c, 1, n)) = FlattenSeq(SubSeq(c, 1, m)) \o c[n]
    <3>1. /\ FlattenSeq(SubSeq(c, 1, m)) \in Seq(ItemType) /\ c[m + 1] \in Seq(ItemType)
          /\ FlattenSeq(SubSeq(c, 1, m + 1)) = FlattenSeq(SubSeq(c, 1, m)) \o c[m + 1]
      BY <2>1, <2>2, FlatPrefix
    <3> QED BY <2>2, <3>1
  <2>5. Count(p, n) = Len(FlattenSeq(SubSeq(c, 1, n))) /\ Count(p, m) = Len(FlattenSeq(SubSeq(c, 1, m)))
    BY <1>1, <2>2, PrefixParts DEF Count, c
  <2>6. Count(p, n) = Count(p, m) + Len(c[n])
    BY <2>4, <2>5, ConcatProperties, SMTT(20)
  <2> QED BY <2>3, <2>6 DEF m
<1>8. N(0) = 0 /\ N(len) = Len(Issued(p)) /\ \A n \in 0 .. len : N(n) \in Nat
  <2>1. SubSeq(p, 1, len) = p
    BY <1>1
  <2>2. \A n \in 0 .. len : Count(p, n) \in Nat
    <3> TAKE n \in 0 .. len
    <3>1. n \in 0 .. n
      BY <1>1
    <3> QED BY <1>1, <3>1, PrefixGrows
  <2> QED BY <1>1, <2>1, <2>2, CountZero DEF Count
<1> HIDE DEF N
<1>9. x(0) = 0 /\ x(len) = OperationalFee * Len(Issued(p)) /\ \A n \in 0 .. len : x(n) \in Nat
  <2>1. \A i, j \in Nat : i * j \in Nat /\ i * 0 = 0
    OBVIOUS
  <2> QED BY <1>5, <1>8, <2>1
<1>10. ASSUME NEW n \in 1 .. len
       PROVE  rest[n] = fees[n] - (x(n) - x(n - 1)) - (left[n - 1] - left[n])
  <2> DEFINE k == Len(p[n].kinds)
             y == OperationalFee * k
  <2>1. rest[n] = fees[n] - y - (left[n - 1] - left[n])
    BY <1>2, <1>3 DEF AccountReserve
  <2>2. x(n) = x(n - 1) + y /\ y \in Nat
    <3>1. N(n) = N(n - 1) + k /\ k \in Nat /\ N(n - 1) \in Nat
      <4>1. n - 1 \in 0 .. len
        BY <1>1
      <4> QED BY <1>7, <1>8, <4>1
    <3>2. \A i, j, l \in Nat : i * (j + l) = i * j + i * l /\ i * l \in Nat
      OBVIOUS
    <3> HIDE DEF k
    <3> QED BY <1>5, <3>1, <3>2
  <2>3. x(n - 1) \in Nat
    <3>1. n - 1 \in 0 .. len
      BY <1>1
    <3> QED BY <1>9, <3>1
  <2> HIDE DEF x, y
  <2>4. x(n) - x(n - 1) = y
    BY <2>2, <2>3
  <2> QED BY <2>1, <2>4
<1> DEFINE Upto(n) == F[n] - x(n) - (IssuanceFee - left[n])
           h == [n \in 0 .. len |-> Upto(n)]
<1> HIDE DEF x, fees, left, rest
<1>11. h = [n \in 0 .. len |-> h[n]] /\ \A n \in 0 .. len : h[n] = Upto(n) /\ Upto(n) \in Int
  <2>1. \A n \in 0 .. len : Upto(n) \in Int
    <3> TAKE n \in 0 .. len
    <3>1. F[n] \in Int /\ x(n) \in Int /\ left[n] \in Int /\ IssuanceFee \in Int
      BY <1>4, <1>5, <1>6, <1>9
    <3>2. \A i, j, k, l \in Int : i - j - (k - l) \in Int
      OBVIOUS
    <3> QED BY <3>1, <3>2
  <2> HIDE DEF Upto
  <2> QED BY <2>1
<1> HIDE DEF h
<1>12. h[0] = 0 /\ h[len] = Sum(fees) - OperationalFee * Len(Issued(p)) - IssuanceFee
  <2>1. 0 \in 0 .. len /\ len \in 0 .. len
    BY <1>1
  <2>2. h[0] = F[0] - x(0) - (IssuanceFee - left[0]) /\ h[len] = F[len] - x(len) - (IssuanceFee - left[len])
    BY <1>11, <2>1
  <2>3. F[len] \in Int /\ x(len) \in Nat
    BY <1>4, <1>9, <2>1
  <2>4. h[0] = 0
    BY <1>4, <1>5, <1>6, <1>9, <2>2
  <2>5. h[len] = F[len] - x(len) - IssuanceFee
    BY <1>5, <1>6, <2>2
  <2> QED BY <1>4, <1>9, <2>4, <2>5
<1>13. ASSUME NEW n \in 1 .. len PROVE h[n] = h[n - 1] + rest[n]
  <2>1. n \in 0 .. len /\ n - 1 \in 0 .. len
    BY <1>1
  <2>2. h[n] = F[n] - x(n) - (IssuanceFee - left[n]) /\ h[n - 1] = F[n - 1] - x(n - 1) - (IssuanceFee - left[n - 1])
    BY <1>11, <2>1
  <2>3. /\ F[n - 1] \in Int /\ x(n) \in Nat /\ x(n - 1) \in Nat /\ left[n] \in Int /\ left[n - 1] \in Int
        /\ fees[n] \in Int /\ F[n] = F[n - 1] + fees[n]
    BY <1>2, <1>4, <1>6, <1>9, <2>1
  <2>4. rest[n] = fees[n] - (x(n) - x(n - 1)) - (left[n - 1] - left[n])
    BY <1>10
  <2>6. IssuanceFee \in Int /\ F[n] \in Int /\ x(n) \in Int /\ x(n - 1) \in Int
    BY <1>5, <2>3
  <2> DEFINE a == F[n]  b == F[n - 1]  c == fees[n]  d == x(n)  g == x(n - 1)
             e == IssuanceFee  f == left[n]  i == left[n - 1]
  <2>5. a \in Int /\ b \in Int /\ c \in Int /\ d \in Int /\ e \in Int /\ f \in Int /\ g \in Int
          /\ i \in Int /\ a = b + c
    BY <2>3, <2>6
  <2>7. F[n] - x(n) - (IssuanceFee - left[n])
          = F[n - 1] - x(n - 1) - (IssuanceFee - left[n - 1])
              + (fees[n] - (x(n) - x(n - 1)) - (left[n - 1] - left[n]))
    <3> HIDE DEF a, b, c, d, e, f, g, i
    <3>1. a - d - (e - f) = b - g - (e - i) + (c - (d - g) - (i - f))
      BY <2>5
    <3> QED BY <3>1 DEF a, b, c, d, e, f, g, i
  <2> QED BY <2>2, <2>4, <2>7
<1>14. rest \in Seq(Int) /\ Len(rest) = len
  BY <1>1, <1>3
<1>15. h \in [0 .. len -> Int]
  BY <1>11
<1>16. Sum(rest) = h[len]
  BY <1>12, <1>13, <1>14, <1>15, SumEquals
<1>17. Sum(fees) \in Int
  BY <1>2, SumType
<1>18. OperationalFee * Len(Issued(p)) \in Nat
  <2>1. len \in 0 .. len
    BY <1>1
  <2> QED BY <1>9, <2>1
<1> QED BY <1>12, <1>14, <1>16, <1>17, <1>18 DEF fees, rest

(***************************************************************************)
(* What the coordinator lays out is accepted by a member whose clock       *)
(* agrees with its own.                                                    *)
(***************************************************************************)
LEMMA Joined ==
  \A x, y : IsSeq(x) /\ IsSeq(y) =>
    /\ IsSeq(x \o y) /\ Len(x \o y) = Len(x) + Len(y)
    /\ \A k \in 1 .. Len(x) : (x \o y)[k] = x[k]
    /\ \A k \in 1 .. Len(y) : (x \o y)[Len(x) + k] = y[k]
  BY IsSeqConcat

(* The places of a sequence in three parts, of which the first is one.     *)
LEMMA ThreeParts ==
  ASSUME NEW e, NEW u, NEW v, IsSeq(u), IsSeq(v)
  PROVE  /\ IsSeq(<<e>> \o u \o v) /\ Len(<<e>> \o u \o v) = 1 + Len(u) + Len(v)
         /\ IsSeq(<<e>> \o u) /\ Len(<<e>> \o u) = 1 + Len(u)
         /\ Len(u) \in Nat /\ Len(v) \in Nat
         /\ (<<e>> \o u \o v)[1] = e
         /\ \A k \in 1 .. Len(u) : (<<e>> \o u \o v)[1 + k] = u[k]
         /\ \A k \in 1 .. Len(v) : (<<e>> \o u \o v)[1 + Len(u) + k] = v[k]
<1> DEFINE o == <<e>>
           w == o \o u
           z == w \o v
<1>1. IsSeq(o) /\ Len(o) = 1 /\ o[1] = e
  BY OneIs
<1>2. Len(u) \in Nat /\ Len(v) \in Nat
  BY IsSeqProperties
<1> HIDE DEF o
<1>3. /\ IsSeq(w) /\ Len(w) = 1 + Len(u) /\ w[1] = e
      /\ \A k \in 1 .. Len(u) : w[1 + k] = u[k]
  <2>1. /\ IsSeq(w) /\ Len(w) = Len(o) + Len(u)
        /\ \A k \in 1 .. Len(o) : w[k] = o[k]
        /\ \A k \in 1 .. Len(u) : w[Len(o) + k] = u[k]
    <3>1. IsSeq(o) /\ IsSeq(u)
      BY <1>1
    <3> QED BY <3>1, Joined
  <2>2. 1 \in 1 .. Len(o)
    BY <1>1
  <2> HIDE DEF w
  <2> QED BY <1>1, <2>1, <2>2
<1> HIDE DEF w
<1>4. /\ IsSeq(z) /\ Len(z) = Len(w) + Len(v)
      /\ \A k \in 1 .. Len(w) : z[k] = w[k]
      /\ \A k \in 1 .. Len(v) : z[Len(w) + k] = v[k]
  BY <1>3, Joined, SMTT(20)
<1> HIDE DEF z
<1>5. 1 \in 1 .. Len(w) /\ \A k \in 1 .. Len(u) : 1 + k \in 1 .. Len(w)
  BY <1>2, <1>3
<1>6. /\ IsSeq(z) /\ Len(z) = 1 + Len(u) + Len(v) /\ z[1] = e
      /\ \A k \in 1 .. Len(u) : z[1 + k] = u[k]
      /\ \A k \in 1 .. Len(v) : z[1 + Len(u) + k] = v[k]
  BY <1>3, <1>4, <1>5
<1> QED BY <1>2, <1>3, <1>6 DEF o, w, z

LEMMA TailOf ==
  ASSUME NEW u, NEW v, IsSeq(u), IsSeq(v)
  PROVE  SubSeq(u \o v, Len(u) + 1, Len(u \o v)) = v
<1> DEFINE w == u \o v
           a == Len(u) + 1
           s == SubSeq(w, a, Len(w))
<1>1. /\ IsSeq(w) /\ Len(w) = Len(u) + Len(v)
      /\ \A k \in 1 .. Len(v) : w[Len(u) + k] = v[k]
  BY IsSeqConcat
<1>2. Len(u) \in Nat /\ Len(v) \in Nat
  BY IsSeqProperties
<1> HIDE DEF w
<1>3. a \in Nat \ {0} /\ Len(w) \in Nat /\ Len(w) <= Len(w) /\ Len(w) - a + 1 = Len(v)
      /\ (a <= Len(w) <=> Len(v) # 0) /\ \A k : k \in Int => a + k - 1 = Len(u) + k
  BY <1>1, <1>2
<1> HIDE DEF a
<1>4. /\ IsSeq(s) /\ Len(s) = IF a <= Len(w) THEN Len(w) - a + 1 ELSE 0
      /\ \A k \in 1 .. Len(w) - a + 1 : s[k] = w[a + k - 1]
  BY <1>1, <1>3, IsSeqSub
<1> HIDE DEF s
<1>5. Len(s) = Len(v)
  BY <1>2, <1>3, <1>4
<1>6. ASSUME NEW k \in 1 .. Len(v) PROVE s[k] = v[k]
  <2>1. s[k] = w[a + k - 1]
    BY <1>3, <1>4
  <2>2. k \in Int
    BY <1>2
  <2> QED BY <1>1, <1>3, <2>1, <2>2
<1>7. s = v
  BY <1>4, <1>5, <1>6, SameSeqs
<1> QED BY <1>7 DEF a, s, w

(* The parts of an issuance. *)
SumTo(p, kind) ==
  Sum([k \in DOMAIN Issued(p) |-> IF Issued(p)[k].kind = kind THEN Amount(Issued(p)[k].kind, Now) ELSE 0])
TokenIns(p) ==
  [t \in DOMAIN Tokens(p) |->
    [In(<<Token(Tokens(p)[t])>>, TokenOut(Tokens(p)[t])) EXCEPT !.issue = SumTo(p, Tokens(p)[t])]]
TokenOuts(p) == [t \in DOMAIN Tokens(p) |-> TokenOut(Tokens(p)[t])]
IssuedOuts(p) == [k \in DOMAIN Issued(p) |-> IssuedOut(Issued(p)[k], Now, Branch)]
AccountOuts(p) ==
  [b \in DOMAIN p |-> Out(Account(p[b].owner), "policy", AccountReserve(p, b))]
LastOuts(p) ==
  <<Out(Descriptors(DescriptorsOf(p, Branch)), "policy", 0),
    Out(Treasury, "policy", OperationalFee * Len(Issued(p))),
    Out(MinerFee, "policy", IssuanceFee)>>

LEMMA IssuanceParts ==
  ASSUME NEW p
  PROVE  /\ Issuance(p, Now, Branch).inputs = <<In(<<"eye">>, EyeOut)>> \o TokenIns(p) \o FeeInputs(p)
         /\ Issuance(p, Now, Branch).outputs
              = <<EyeOut>> \o TokenOuts(p) \o IssuedOuts(p) \o AccountOuts(p) \o LastOuts(p)
  BY DEF Issuance, TokenIns, SumTo, TokenOuts, IssuedOuts, AccountOuts, LastOuts

(* An output that is not of the policy asset, whatever it is. *)
LEMMA OneIn ==
  ASSUME NEW x, IsOut(x.out)
  PROVE  InsAre(<<x>>) /\ Spent(<<x>>) = <<x.out>>
<1>1. DOMAIN <<x>> = 1 .. 1 /\ <<x>>[1] = x /\ IsSeq(<<x>>)
  BY OneIs
<1>2. InsAre(<<x>>)
  BY <1>1 DEF InsAre
<1>3. Spent(<<x>>) = [k \in 1 .. 1 |-> x.out]
  BY <1>1 DEF Spent
<1>4. [k \in 1 .. 1 |-> x.out] = <<x.out>>
  OBVIOUS
<1> QED BY <1>2, <1>3, <1>4

LEMMA FeesThere ==
  ASSUME NEW p, Asked(p)
  PROVE  IsSeq(FeeInputs(p)) /\ Len(FeeInputs(p)) \in Nat \ {0}
<1>1. InsAre(FeeInputs(p)) /\ Policy(Spent(FeeInputs(p))) = Sum(FeesOf(p)) /\ p \in Seq(Batches)
  BY CoinsInAll DEF Asked
<1>2. IsSeq(FeeInputs(p)) /\ Len(FeeInputs(p)) \in Nat
  BY <1>1, SpentIs DEF InsAre
<1>3. Sum(FeesOf(p)) > 0
  <2>1. FeesOf(p) \in Seq(Int) /\ Len(FeesOf(p)) = Len(p) /\ \A n \in 1 .. Len(p) : FeesOf(p)[n] = Sum(p[n].fees)
    BY <1>1, FeesAre
  <2>2. \A n \in 1 .. Len(p) : FeesOf(p)[n] > 0
    BY <2>1, FeePaid
  <2> DEFINE s == FeesOf(p)
  <2> HIDE DEF s
  <2>3. s \in Seq(Nat) /\ 1 \in 1 .. Len(s)
    <3>1. Len(p) \in Nat \ {0}
      BY Places
    <3>2. \A n \in 1 .. Len(s) : s[n] \in Nat
      BY <2>1, <2>2 DEF s
    <3> QED BY <2>1, <3>1, <3>2 DEF s
  <2>4. Sum(s) \in Nat /\ s[1] <= Sum(s) /\ s[1] \in Nat
    BY <2>3, SumGrows
  <2>5. s[1] > 0
    BY <2>1, <2>2, <2>3 DEF s
  <2>6. Sum(s) > 0
    BY <2>4, <2>5
  <2> QED BY <2>6 DEF s
<1>4. CASE Len(FeeInputs(p)) = 0
  <2> DEFINE o == Spent(FeeInputs(p))
  <2>1. OutsAre(o) /\ DOMAIN o = 1 .. 0
    BY <1>1, <1>4, SpentIs
  <2> HIDE DEF o
  <2>2. Policy(o) = 0
    <3>1. \A k \in DOMAIN o : o[k].asset # "policy"
      BY <2>1
    <3> QED BY <2>1, <3>1, PolicyNone
  <2> QED BY <1>1, <1>3, <2>2 DEF o
<1> QED BY <1>2, <1>4

LEMMA IssuanceInputs ==
  ASSUME NEW p, Asked(p), NEW ins, ins = Issuance(p, Now, Branch).inputs
  PROVE  /\ Len(ins) = 1 + Len(Tokens(p)) + Len(FeeInputs(p))
         /\ ins[1].out = EyeOut
         /\ \A k \in 1 .. Len(Tokens(p)) :
              ins[1 + k].out = TokenOut(Tokens(p)[k]) /\ ins[1 + k].issue = SumTo(p, Tokens(p)[k])
         /\ SubSeq(ins, FirstOf(p) + 1, Len(ins)) = FeeInputs(p)
         /\ Policy(Spent(ins)) = Sum(FeesOf(p))
<1> DEFINE first == In(<<"eye">>, EyeOut)
           u == TokenIns(p)
           v == FeeInputs(p)
           T == Len(Tokens(p))
<1>1. ins = <<first>> \o u \o v
  BY IssuanceParts
<1>2. first.out = EyeOut /\ IsOut(EyeOut) /\ EyeOut.asset # "policy"
  BY DEF In, EyeOut, Out, IsOut
<1>3. T \in Nat /\ DOMAIN Tokens(p) = 1 .. T
  BY TokensIs
<1>4. /\ u = [k \in 1 .. T |-> u[k]]
      /\ \A k \in 1 .. T : /\ u[k].out = TokenOut(Tokens(p)[k])
                           /\ u[k].issue = SumTo(p, Tokens(p)[k])
  BY <1>3 DEF TokenIns, In
<1>5. \A kind : IsOut(TokenOut(kind)) /\ TokenOut(kind).asset # "policy"
  BY DEF TokenOut, Token, Out, IsOut
<1>6. InsAre(v) /\ Policy(Spent(v)) = Sum(FeesOf(p)) /\ IsSeq(v)
  BY CoinsInAll DEF Asked, InsAre
<1> HIDE DEF first, u, v
<1>7. IsSeq(u) /\ Len(u) = T /\ DOMAIN u = 1 .. T
  BY <1>3, <1>4, MapIs
<1>8. InsAre(u)
  BY <1>4, <1>5, <1>7 DEF InsAre
<1>9. /\ IsSeq(ins) /\ Len(ins) = 1 + T + Len(v)
      /\ IsSeq(<<first>> \o u) /\ Len(<<first>> \o u) = 1 + T
      /\ ins[1] = first /\ \A k \in 1 .. T : ins[1 + k] = u[k]
  <2>1. IsSeq(u) /\ IsSeq(v)
    BY <1>6, <1>7
  <2>2. /\ IsSeq(<<first>> \o u \o v) /\ Len(<<first>> \o u \o v) = 1 + Len(u) + Len(v)
        /\ IsSeq(<<first>> \o u) /\ Len(<<first>> \o u) = 1 + Len(u)
        /\ (<<first>> \o u \o v)[1] = first
        /\ \A k \in 1 .. Len(u) : (<<first>> \o u \o v)[1 + k] = u[k]
    BY <2>1, ThreeParts
  <2> QED BY <1>1, <1>7, <2>2
<1>10. SubSeq(ins, FirstOf(p) + 1, Len(ins)) = v
  <2> DEFINE w == <<first>> \o u
  <2>1. IsSeq(w) /\ Len(w) + 1 = FirstOf(p) + 1 /\ ins = w \o v
    BY <1>1, <1>9 DEF FirstOf
  <2> HIDE DEF w
  <2>2. SubSeq(w \o v, Len(w) + 1, Len(w \o v)) = v
    BY <1>6, <2>1, TailOf
  <2> QED BY <2>1, <2>2
<1>11. Policy(Spent(ins)) = Sum(FeesOf(p))
  <2> DEFINE o == <<first>>
             w == o \o u
  <2>1. InsAre(o) /\ Spent(o) = <<EyeOut>>
    BY <1>2, OneIn
  <2> HIDE DEF o
  <2>2. InsAre(w) /\ Spent(w) = Spent(o) \o Spent(u)
    BY <1>8, <2>1, InsConcat
  <2>3. ins = w \o v
    BY <1>1 DEF o
  <2> HIDE DEF w
  <2>4. Spent(ins) = Spent(w) \o Spent(v)
    BY <1>6, <2>2, <2>3, InsConcat
  <2>5. /\ OutsAre(Spent(o)) /\ OutsAre(Spent(u)) /\ OutsAre(Spent(v)) /\ OutsAre(Spent(w))
    BY <1>6, <1>8, <2>1, <2>2, SpentIs
  <2>6. Policy(Spent(o)) = 0
    <3>1. \A k \in DOMAIN <<EyeOut>> : <<EyeOut>>[k].asset # "policy"
      BY <1>2
    <3> QED BY <2>1, <2>5, <3>1, PolicyNone
  <2>7. Policy(Spent(u)) = 0
    <3>1. DOMAIN Spent(u) = 1 .. T /\ \A k \in 1 .. T : Spent(u)[k] = u[k].out
      BY <1>7, <1>8, SpentIs
    <3>2. \A k \in DOMAIN Spent(u) : Spent(u)[k].asset # "policy"
      BY <1>4, <1>5, <3>1
    <3> QED BY <2>5, <3>2, PolicyNone
  <2>8. Policy(Spent(w)) = Policy(Spent(o)) + Policy(Spent(u))
    BY <2>2, <2>5, PolicyConcat
  <2>9. Policy(Spent(ins)) = Policy(Spent(w)) + Policy(Spent(v))
    BY <2>4, <2>5, PolicyConcat
  <2>10. Policy(Spent(v)) \in Int
    BY <2>5, PaidIs
  <2> QED BY <1>6, <2>6, <2>7, <2>8, <2>9, <2>10
<1> QED BY <1>2, <1>4, <1>9, <1>10, <1>11 DEF v

LEMMA LastThree ==
  ASSUME NEW x, NEW y, NEW z, IsOut(x), IsOut(y), IsOut(z),
         x.asset = "policy", y.asset = "policy", z.asset = "policy"
  PROVE  /\ OutsAre(<<x, y, z>>) /\ Len(<<x, y, z>>) = 3
         /\ Policy(<<x, y, z>>) = x.amount + y.amount + z.amount
<1>1. <<x, y, z>> = (<<x>> \o <<y>>) \o <<z>>
  <2> DEFINE i == <<x>>
             j == <<y>>
             l == <<z>>
             w == i \o j
             s == <<x, y, z>>
  <2>1. /\ IsSeq(i) /\ IsSeq(j) /\ IsSeq(l) /\ IsSeq(s)
        /\ Len(i) = 1 /\ Len(j) = 1 /\ Len(l) = 1 /\ Len(s) = 3
        /\ i[1] = x /\ j[1] = y /\ l[1] = z /\ s[1] = x /\ s[2] = y /\ s[3] = z
    <3>1. IsSeq(s)
      BY ThreeOuts DEF OutsAre
    <3> QED BY <3>1, OneIs
  <2> HIDE DEF i, j, l, s
  <2>2. 1 \in 1 .. Len(i) /\ 1 \in 1 .. Len(j) /\ 1 \in 1 .. Len(l)
    BY <2>1
  <2>3. IsSeq(w) /\ Len(w) = 2 /\ w[1] = x /\ w[2] = y
    <3>1. /\ IsSeq(w) /\ Len(w) = Len(i) + Len(j)
          /\ \A k \in 1 .. Len(i) : w[k] = i[k]
          /\ \A k \in 1 .. Len(j) : w[Len(i) + k] = j[k]
      <4>1. IsSeq(i) /\ IsSeq(j)
        BY <2>1
      <4> QED BY <4>1, Joined
    <3> HIDE DEF w
    <3>2. w[1] = i[1] /\ w[Len(i) + 1] = j[1]
      BY <2>2, <3>1
    <3> QED BY <2>1, <3>1, <3>2
  <2> HIDE DEF w
  <2>4. 1 \in 1 .. Len(w) /\ 2 \in 1 .. Len(w)
    BY <2>3
  <2>5. IsSeq(w \o l) /\ Len(w \o l) = 3 /\ (w \o l)[1] = x /\ (w \o l)[2] = y /\ (w \o l)[3] = z
    <3> DEFINE v == w \o l
    <3>1. /\ IsSeq(v) /\ Len(v) = Len(w) + Len(l)
          /\ \A k \in 1 .. Len(w) : v[k] = w[k]
          /\ \A k \in 1 .. Len(l) : v[Len(w) + k] = l[k]
      <4>1. IsSeq(w) /\ IsSeq(l)
        BY <2>1, <2>3
      <4> QED BY <4>1, Joined
    <3> HIDE DEF v
    <3>2. v[1] = w[1] /\ v[2] = w[2] /\ v[Len(w) + 1] = l[1]
      BY <2>2, <2>4, <3>1
    <3>3. IsSeq(v) /\ Len(v) = 3 /\ v[1] = x /\ v[2] = y /\ v[3] = z
      BY <2>1, <2>3, <3>1, <3>2
    <3> QED BY <3>3 DEF v
  <2>6. \A k \in 1 .. Len(s) : k = 1 \/ k = 2 \/ k = 3
    BY <2>1
  <2>7. s = w \o l
    <3> DEFINE v == w \o l
    <3>1. IsSeq(v) /\ Len(s) = Len(v) /\ \A k \in 1 .. Len(s) : s[k] = v[k]
      BY <2>1, <2>5, <2>6
    <3> HIDE DEF v
    <3>2. s = v
      BY <2>1, <3>1, SameSeqs
    <3> QED BY <3>2 DEF v
  <2> QED BY <2>7 DEF s, w, i, j, l
<1>2. OutsAre(<<x>>) /\ OutsAre(<<y>>) /\ OutsAre(<<z>>)
  BY OneOut
<1>3. OutsAre(<<x>> \o <<y>>) /\ Policy(<<x>> \o <<y>>) = Policy(<<x>>) + Policy(<<y>>)
  BY <1>2, OutsConcat, PolicyConcat
<1>4. /\ OutsAre((<<x>> \o <<y>>) \o <<z>>)
      /\ Policy((<<x>> \o <<y>>) \o <<z>>) = Policy(<<x>> \o <<y>>) + Policy(<<z>>)
  BY <1>2, <1>3, OutsConcat, PolicyConcat
<1>5. Policy(<<x>>) = x.amount /\ Policy(<<y>>) = y.amount /\ Policy(<<z>>) = z.amount
  BY PolicyOne
<1>6. Len(<<x, y, z>>) = 3
  OBVIOUS
<1> DEFINE s == <<x, y, z>>
<1>7. OutsAre(s) /\ Policy(s) = Policy(<<x>>) + Policy(<<y>>) + Policy(<<z>>)
  BY <1>1, <1>3, <1>4
<1> HIDE DEF s
<1>8. Policy(s) = x.amount + y.amount + z.amount
  BY <1>5, <1>7
<1> QED BY <1>6, <1>7, <1>8 DEF s

LEMMA AccountsHold ==
  ASSUME NEW p, Asked(p)
  PROVE  /\ OutsAre(AccountOuts(p)) /\ Len(AccountOuts(p)) = Len(p)
         /\ \A b \in 1 .. Len(p) :
              AccountOuts(p)[b] = Out(Account(p[b].owner), "policy", AccountReserve(p, b))
         /\ Policy(AccountOuts(p)) = Sum(LeftOf(p))
<1> DEFINE s == AccountOuts(p)
           d == LeftOf(p)
<1>1. p \in Seq(Batches) /\ Len(p) \in Nat /\ DOMAIN p = 1 .. Len(p)
  BY DEF Asked
<1>2. /\ s = [b \in 1 .. Len(p) |-> s[b]]
      /\ \A b \in 1 .. Len(p) : s[b] = Out(Account(p[b].owner), "policy", AccountReserve(p, b))
  BY <1>1 DEF AccountOuts
<1>3. \A b \in 1 .. Len(p) : AccountReserve(p, b) \in Int
  BY <1>1, AccountReserveIs
<1> HIDE DEF s
<1>4. \A b \in 1 .. Len(p) : IsOut(s[b]) /\ s[b].asset = "policy" /\ s[b].amount = AccountReserve(p, b)
  <2> TAKE b \in 1 .. Len(p)
  <2>1. IsOut(s[b])
    BY <1>2, <1>3, OutIs
  <2> QED BY <1>2, <2>1 DEF Out
<1>5. OutsAre(s) /\ Len(s) = Len(p)
  BY <1>1, <1>2, <1>4, MapIs, MapOuts
<1>6. /\ Paid(s) \in Seq(Int) /\ Len(Paid(s)) = Len(p) /\ Policy(s) = Sum(Paid(s))
      /\ \A b \in 1 .. Len(p) : Paid(s)[b] = AccountReserve(p, b)
  <2>1. /\ Paid(s) \in Seq(Int) /\ Len(Paid(s)) = Len(s) /\ Policy(s) = Sum(Paid(s))
        /\ \A b \in 1 .. Len(s) : Paid(s)[b] = IF s[b].asset = "policy" THEN s[b].amount ELSE 0
    BY <1>5, PaidIs
  <2> QED BY <1>4, <1>5, <2>1
<1>7. Paid(s) = d
  <2> DEFINE c == Paid(s)
  <2>1. c \in Seq(Int) /\ d \in Seq(Int) /\ Len(c) = Len(p) /\ Len(d) = Len(p)
        /\ \A b \in 1 .. Len(p) : c[b] = d[b]
    <3>1. d \in Seq(Int)
      BY LeftIsRest
    <3>2. Len(d) = Len(p) /\ \A b \in 1 .. Len(p) : d[b] = AccountReserve(p, b)
      BY <1>1 DEF LeftOf
    <3> QED BY <1>6, <3>1, <3>2
  <2> HIDE DEF c, d
  <2>2. IsSeq(c) /\ IsSeq(d)
    BY <2>1, SeqIs
  <2>3. c = d
    BY <2>1, <2>2, SameSeqs
  <2> QED BY <2>3 DEF c
<1> QED BY <1>2, <1>5, <1>6, <1>7 DEF s

LEMMA IssuanceOutputs ==
  ASSUME NEW p, Asked(p), NEW outs, outs = Issuance(p, Now, Branch).outputs
  PROVE  /\ IsSeq(outs) /\ Len(outs) = DescribedAt(p) + 2
         /\ outs[1] = EyeOut
         /\ \A k \in 1 .. Len(Tokens(p)) : outs[1 + k] = TokenOut(Tokens(p)[k])
         /\ \A k \in 1 .. Len(Issued(p)) : outs[FirstOf(p) + k] = IssuedOut(Issued(p)[k], Now, Branch)
         /\ \A b \in 1 .. Len(p) :
              outs[AccountsOf(p) + b] = Out(Account(p[b].owner), "policy", AccountReserve(p, b))
         /\ outs[DescribedAt(p)] = Out(Descriptors(DescriptorsOf(p, Branch)), "policy", 0)
         /\ outs[DescribedAt(p) + 1] = Out(Treasury, "policy", OperationalFee * Len(Issued(p)))
         /\ outs[DescribedAt(p) + 2] = Out(MinerFee, "policy", IssuanceFee)
         /\ Policy(outs) = Sum(LeftOf(p)) + OperationalFee * Len(Issued(p)) + IssuanceFee
<1> DEFINE u == TokenOuts(p)
           v == IssuedOuts(p)
           a == AccountOuts(p)
           l == LastOuts(p)
           T == Len(Tokens(p))
           N == Len(Issued(p))
           w == <<EyeOut>> \o u \o v
           y == w \o a
<1>1. outs = y \o l
  BY IssuanceParts
<1>2. /\ T \in Nat /\ DOMAIN Tokens(p) = 1 .. T /\ N \in Nat /\ DOMAIN Issued(p) = 1 .. N
      /\ Len(p) \in Nat
  BY TokensIs, IssuedItems, Places
<1>3. /\ u = [k \in 1 .. T |-> u[k]] /\ \A k \in 1 .. T : u[k] = TokenOut(Tokens(p)[k])
      /\ v = [k \in 1 .. N |-> v[k]] /\ \A k \in 1 .. N : v[k] = IssuedOut(Issued(p)[k], Now, Branch)
  BY <1>2 DEF TokenOuts, IssuedOuts
<1>4. \A kind : IsOut(TokenOut(kind)) /\ TokenOut(kind).asset # "policy"
  BY DEF TokenOut, Token, Out, IsOut
<1>5. \A k \in 1 .. N : /\ IsOut(IssuedOut(Issued(p)[k], Now, Branch))
                        /\ IssuedOut(Issued(p)[k], Now, Branch).asset # "policy"
  <2> TAKE k \in 1 .. N
  <2>1. Issued(p)[k].kind \in {"tick", "verifier"}
    BY TokensIs
  <2>2. Amount(Issued(p)[k].kind, Now) \in Int
    BY TimeAssumption DEF Amount
  <2> DEFINE to == Voucher(Issued(p)[k].owner, IF Issued(p)[k].kind = "verifier" THEN Branch ELSE NoSigner)
             o == Out(to, Issued(p)[k].kind, Amount(Issued(p)[k].kind, Now))
  <2>3. IssuedOut(Issued(p)[k], Now, Branch) = o
    BY DEF IssuedOut
  <2> HIDE DEF to
  <2>4. IsOut(o) /\ o.asset = Issued(p)[k].kind
    BY <2>2, OutIs DEF Out
  <2> HIDE DEF o
  <2> QED BY <2>1, <2>3, <2>4
<1>6. OutsAre(a) /\ Len(a) = Len(p) /\ Policy(a) = Sum(LeftOf(p))
      /\ \A b \in 1 .. Len(p) : a[b] = Out(Account(p[b].owner), "policy", AccountReserve(p, b))
  BY AccountsHold
<1>7. /\ OutsAre(l) /\ Len(l) = 3
      /\ Policy(l) = OperationalFee * N + IssuanceFee
      /\ l[1] = Out(Descriptors(DescriptorsOf(p, Branch)), "policy", 0)
      /\ l[2] = Out(Treasury, "policy", OperationalFee * N)
      /\ l[3] = Out(MinerFee, "policy", IssuanceFee)
  <2> DEFINE ds == Descriptors(DescriptorsOf(p, Branch))
             fee == OperationalFee * N
             q == Out(ds, "policy", 0)
             r == Out(Treasury, "policy", fee)
             s == Out(MinerFee, "policy", IssuanceFee)
  <2>1. fee \in Int /\ IssuanceFee \in Int /\ 0 \in Int
    BY LeftIsRest, FeeAssumption
  <2>2. l = <<q, r, s>>
    BY DEF LastOuts
  <2> HIDE DEF ds, fee
  <2>3. IsOut(q) /\ IsOut(r) /\ IsOut(s)
    BY <2>1, OutIs
  <2>4. /\ q.asset = "policy" /\ r.asset = "policy" /\ s.asset = "policy"
        /\ q.amount = 0 /\ r.amount = fee /\ s.amount = IssuanceFee
    BY DEF Out
  <2> HIDE DEF q, r, s, l
  <2>5. OutsAre(<<q, r, s>>) /\ Len(<<q, r, s>>) = 3 /\ Policy(<<q, r, s>>) = q.amount + r.amount + s.amount
    BY <2>3, <2>4, LastThree
  <2>6. OutsAre(l) /\ Len(l) = 3 /\ Policy(l) = fee + IssuanceFee
    BY <2>1, <2>2, <2>4, <2>5
  <2>7. l[1] = q /\ l[2] = r /\ l[3] = s
    BY <2>2
  <2> QED BY <2>6, <2>7 DEF q, r, s, ds, fee
<1> HIDE DEF u, v, a, l
<1>8. /\ OutsAre(u) /\ Len(u) = T /\ OutsAre(v) /\ Len(v) = N
      /\ DOMAIN u = 1 .. T /\ DOMAIN v = 1 .. N
  <2>1. \A k \in 1 .. T : IsOut(u[k])
    BY <1>3, <1>4
  <2>2. \A k \in 1 .. N : IsOut(v[k])
    BY <1>3, <1>5
  <2> QED BY <1>2, <1>3, <2>1, <2>2, MapIs, MapOuts
<1>9. /\ IsSeq(w) /\ Len(w) = FirstOf(p) + N /\ w[1] = EyeOut
      /\ \A k \in 1 .. T : w[1 + k] = u[k]
      /\ \A k \in 1 .. N : w[FirstOf(p) + k] = v[k]
  <2>1. IsSeq(u) /\ IsSeq(v)
    BY <1>8 DEF OutsAre
  <2>2. /\ IsSeq(<<EyeOut>> \o u \o v) /\ Len(<<EyeOut>> \o u \o v) = 1 + Len(u) + Len(v)
        /\ (<<EyeOut>> \o u \o v)[1] = EyeOut
        /\ \A k \in 1 .. Len(u) : (<<EyeOut>> \o u \o v)[1 + k] = u[k]
        /\ \A k \in 1 .. Len(v) : (<<EyeOut>> \o u \o v)[1 + Len(u) + k] = v[k]
    BY <2>1, ThreeParts
  <2> QED BY <1>8, <2>2 DEF FirstOf
<1>10. OutsAre(w) /\ Policy(w) = 0
  <2> DEFINE e == <<EyeOut>>
             f == e \o u
  <2>1. OutsAre(e) /\ Policy(e) = 0
    <3>1. IsOut(EyeOut) /\ EyeOut.asset # "policy"
      BY DEF EyeOut, Out, IsOut
    <3>2. OutsAre(<<EyeOut>>)
      BY <3>1, OneOut
    <3>3. \A k \in DOMAIN <<EyeOut>> : <<EyeOut>>[k].asset # "policy"
      BY <3>1
    <3>4. Policy(<<EyeOut>>) = 0
      BY <3>2, <3>3, PolicyNone
    <3> QED BY <3>2, <3>4
  <2>2. Policy(u) = 0
    <3>1. \A k \in DOMAIN u : u[k].asset # "policy"
      BY <1>3, <1>4, <1>8
    <3> QED BY <1>8, <3>1, PolicyNone
  <2>3. Policy(v) = 0
    <3>1. \A k \in DOMAIN v : v[k].asset # "policy"
      BY <1>3, <1>5, <1>8
    <3> QED BY <1>8, <3>1, PolicyNone
  <2> HIDE DEF e, w
  <2>4. OutsAre(f) /\ Policy(f) = Policy(e) + Policy(u)
    BY <1>8, <2>1, OutsConcat, PolicyConcat
  <2> HIDE DEF f
  <2>5. OutsAre(f \o v) /\ Policy(f \o v) = Policy(f) + Policy(v)
    BY <1>8, <2>4, OutsConcat, PolicyConcat
  <2>6. w = f \o v
    BY DEF w, f, e
  <2> QED BY <2>1, <2>2, <2>3, <2>4, <2>5, <2>6
<1> HIDE DEF w
<1>11. OutsAre(y) /\ Policy(y) = Policy(w) + Policy(a)
  BY <1>6, <1>10, OutsConcat, PolicyConcat
<1>12. /\ IsSeq(y) /\ Len(y) = AccountsOf(p) + Len(p)
       /\ \A k \in 1 .. Len(w) : y[k] = w[k]
       /\ \A b \in 1 .. Len(p) : y[AccountsOf(p) + b] = a[b]
  <2>1. IsSeq(w) /\ IsSeq(a)
    BY <1>6, <1>9 DEF OutsAre
  <2>2. /\ IsSeq(y) /\ Len(y) = Len(w) + Len(a)
        /\ \A k \in 1 .. Len(w) : y[k] = w[k]
        /\ \A b \in 1 .. Len(a) : y[Len(w) + b] = a[b]
    BY <2>1, Joined
  <2>3. Len(w) = AccountsOf(p)
    BY <1>9 DEF AccountsOf
  <2> HIDE DEF y
  <2>4. \A b \in 1 .. Len(p) : y[AccountsOf(p) + b] = a[b]
    <3> TAKE b \in 1 .. Len(p)
    <3>1. b \in 1 .. Len(a)
      BY <1>6
    <3>2. y[Len(w) + b] = a[b]
      <4>1. \A k \in 1 .. Len(a) : y[Len(w) + k] = a[k]
        BY <2>2
      <4> QED BY <3>1, <4>1
    <3> QED BY <2>3, <3>2
  <2>5. Len(y) = AccountsOf(p) + Len(p)
    BY <1>6, <2>2, <2>3
  <2> QED BY <2>2, <2>4, <2>5
<1> HIDE DEF y
<1>13. /\ IsSeq(outs) /\ Len(outs) = AccountsOf(p) + Len(p) + 3
       /\ \A k \in 1 .. Len(y) : outs[k] = y[k]
       /\ \A k \in 1 .. 3 : outs[AccountsOf(p) + Len(p) + k] = l[k]
  <2>1. IsSeq(y) /\ IsSeq(l)
    BY <1>7, <1>12 DEF OutsAre
  <2>2. /\ IsSeq(y \o l) /\ Len(y \o l) = Len(y) + Len(l)
        /\ \A k \in 1 .. Len(y) : (y \o l)[k] = y[k]
        /\ \A k \in 1 .. Len(l) : (y \o l)[Len(y) + k] = l[k]
    BY <2>1, Joined
  <2> QED BY <1>1, <1>7, <1>12, <2>2
<1>14. Policy(outs) = Sum(LeftOf(p)) + OperationalFee * N + IssuanceFee
  <2>1. Policy(outs) = Policy(y) + Policy(l)
    BY <1>1, <1>7, <1>11, PolicyConcat
  <2>2. Sum(LeftOf(p)) \in Int /\ OperationalFee * N \in Int /\ IssuanceFee \in Int
    BY LeftIsRest, SumType, FeeAssumption
  <2> DEFINE fee == OperationalFee * N
  <2> HIDE DEF fee
  <2>3. Policy(l) = fee + IssuanceFee /\ fee \in Int
    BY <1>7, <2>2 DEF fee
  <2>4. Policy(outs) = Sum(LeftOf(p)) + fee + IssuanceFee
    BY <1>6, <1>10, <1>11, <2>1, <2>2, <2>3
  <2> QED BY <2>4 DEF fee
<1>15. FirstOf(p) = 1 + T /\ AccountsOf(p) = FirstOf(p) + N /\ DescribedAt(p) = AccountsOf(p) + Len(p) + 1
  BY DEF FirstOf, AccountsOf, DescribedAt
<1> HIDE DEF T, N
<1>16. /\ Len(w) \in Nat /\ Len(y) \in Nat /\ Len(w) <= Len(y)
       /\ 1 \in 1 .. Len(w)
       /\ \A k \in 1 .. T : 1 + k \in 1 .. Len(w)
       /\ \A k \in 1 .. N : FirstOf(p) + k \in 1 .. Len(w)
       /\ \A b \in 1 .. Len(p) : AccountsOf(p) + b \in 1 .. Len(y)
       /\ \A k \in 1 .. Len(w) : k \in 1 .. Len(y)
  BY <1>2, <1>9, <1>12, <1>15
<1>17. \A k \in 1 .. Len(w) : outs[k] = w[k]
  BY <1>12, <1>13, <1>16
<1>18. /\ outs[1] = EyeOut
       /\ \A k \in 1 .. T : outs[1 + k] = TokenOut(Tokens(p)[k])
       /\ \A k \in 1 .. N : outs[FirstOf(p) + k] = IssuedOut(Issued(p)[k], Now, Branch)
  BY <1>3, <1>9, <1>16, <1>17
<1>19. \A b \in 1 .. Len(p) :
         outs[AccountsOf(p) + b] = Out(Account(p[b].owner), "policy", AccountReserve(p, b))
  BY <1>6, <1>12, <1>13, <1>16
<1>20. /\ outs[DescribedAt(p)] = l[1] /\ outs[DescribedAt(p) + 1] = l[2] /\ outs[DescribedAt(p) + 2] = l[3]
       /\ Len(outs) = DescribedAt(p) + 2
  <2>1. /\ DescribedAt(p) = AccountsOf(p) + Len(p) + 1 /\ DescribedAt(p) + 1 = AccountsOf(p) + Len(p) + 2
        /\ DescribedAt(p) + 2 = AccountsOf(p) + Len(p) + 3
    BY <1>2, <1>15
  <2>2. 1 \in 1 .. 3 /\ 2 \in 1 .. 3 /\ 3 \in 1 .. 3
    OBVIOUS
  <2> QED BY <1>13, <2>1, <2>2
<1> QED BY <1>7, <1>13, <1>14, <1>18, <1>19, <1>20 DEF T, N

(* Every issuance that the coordinator lays out for batches that pay their   *)
(* fees passes every check of a member whose clock agrees with its own       *)
(* (prepare_round_candidate, validate_execute_request).                      *)
THEOREM IssuanceIsValid ==
  ASSUME NEW p, Asked(p)
  PROVE  ValidIssuance(Issuance(p, Now, Branch), p, Now, Branch)
<1> DEFINE t == Issuance(p, Now, Branch)
           ins == t.inputs
           outs == t.outputs
           T == Len(Tokens(p))
           N == Len(Issued(p))
           F == Len(FeeInputs(p))
           q == DescribedAt(p)
<1>1. /\ T \in Nat \ {0} /\ N \in Nat \ {0} /\ Len(p) \in Nat \ {0} /\ F \in Nat \ {0}
      /\ DOMAIN Tokens(p) = 1 .. T /\ DOMAIN Issued(p) = 1 .. N /\ DOMAIN p = 1 .. Len(p)
  <2>1. p \in Seq(Batches)
    BY DEF Asked
  <2> QED BY <2>1, Places, TokensIs, IssuedItems, FeesThere
<1>2. FirstOf(p) = 1 + T /\ AccountsOf(p) = FirstOf(p) + N /\ q = AccountsOf(p) + Len(p) + 1
  BY DEF FirstOf, AccountsOf, DescribedAt
<1>3. /\ Len(ins) = 1 + T + F /\ ins[1].out = EyeOut
      /\ \A k \in 1 .. T : ins[1 + k].out = TokenOut(Tokens(p)[k]) /\ ins[1 + k].issue = SumTo(p, Tokens(p)[k])
      /\ SubSeq(ins, FirstOf(p) + 1, Len(ins)) = FeeInputs(p)
      /\ Policy(Spent(ins)) = Sum(FeesOf(p))
  BY IssuanceInputs
<1>4. /\ IsSeq(outs) /\ Len(outs) = q + 2 /\ outs[1] = EyeOut
      /\ \A k \in 1 .. T : outs[1 + k] = TokenOut(Tokens(p)[k])
      /\ \A k \in 1 .. N : outs[FirstOf(p) + k] = IssuedOut(Issued(p)[k], Now, Branch)
      /\ \A b \in 1 .. Len(p) :
           outs[AccountsOf(p) + b] = Out(Account(p[b].owner), "policy", AccountReserve(p, b))
      /\ outs[q] = Out(Descriptors(DescriptorsOf(p, Branch)), "policy", 0)
      /\ outs[q + 1] = Out(Treasury, "policy", OperationalFee * N)
      /\ outs[q + 2] = Out(MinerFee, "policy", IssuanceFee)
      /\ Policy(outs) = Sum(LeftOf(p)) + OperationalFee * N + IssuanceFee
  BY IssuanceOutputs
<1>5. DOMAIN outs = 1 .. q + 2
  <2> HIDE DEF outs
  <2> QED BY <1>4, IsSeqProperties
<1>6. p # <<>>
  BY DEF Asked
<1> HIDE DEF t
<1>7. TokensAreKept(t, Tokens(p))
  <2> SUFFICES ASSUME NEW k \in 1 .. T
               PROVE  /\ Len(ins) > k /\ Len(outs) > k
                      /\ ins[1 + k].out = TokenOut(Tokens(p)[k]) /\ outs[1 + k] = ins[1 + k].out
    BY <1>1 DEF TokensAreKept
  <2>1. ins[1 + k].out = TokenOut(Tokens(p)[k]) /\ outs[1 + k] = ins[1 + k].out
    BY <1>3, <1>4
  <2>2. Len(ins) > k /\ Len(outs) > k
    <3> HIDE DEF ins, outs, T, N, F, q
    <3> QED BY <1>1, <1>2, <1>3, <1>4
  <2> QED BY <2>1, <2>2
<1>8. IssuedMatch(t, p, Now, Branch)
  <2> SUFFICES ASSUME NEW k \in 1 .. N
               PROVE  LET out == outs[FirstOf(p) + k] IN
                      /\ [out EXCEPT !.amount = 0] = [IssuedOut(Issued(p)[k], Now, Branch) EXCEPT !.amount = 0]
                      /\ IF Issued(p)[k].kind = "verifier" THEN out.amount = 1
                         ELSE out.amount - Now \in -MaxTickSkew .. MaxTickSkew
    BY <1>1, <1>2 DEF IssuedMatch
  <2>1. outs[FirstOf(p) + k] = IssuedOut(Issued(p)[k], Now, Branch)
    BY <1>4
  <2>2. IssuedOut(Issued(p)[k], Now, Branch).amount = IF Issued(p)[k].kind = "verifier" THEN 1 ELSE Now
    BY DEF IssuedOut, Out, Amount
  <2>3. Now - Now \in -MaxTickSkew .. MaxTickSkew
    BY TimeAssumption
  <2> HIDE DEF outs
  <2> QED BY <2>1, <2>2, <2>3
<1>9. ASSUME NEW k \in 1 .. T
      PROVE  ins[1 + k].issue = Sum([i \in DOMAIN Issued(p) |->
               IF Issued(p)[i].kind = Tokens(p)[k] THEN outs[FirstOf(p) + i].amount ELSE 0])
  <2>1. \A i \in DOMAIN Issued(p) : outs[FirstOf(p) + i].amount = Amount(Issued(p)[i].kind, Now)
    <3> TAKE i \in DOMAIN Issued(p)
    <3>1. outs[FirstOf(p) + i] = IssuedOut(Issued(p)[i], Now, Branch)
      BY <1>1, <1>4
    <3>2. IssuedOut(Issued(p)[i], Now, Branch).amount = Amount(Issued(p)[i].kind, Now)
      BY DEF IssuedOut, Out
    <3> HIDE DEF outs
    <3> QED BY <3>1, <3>2
  <2>2. [i \in DOMAIN Issued(p) |->
           IF Issued(p)[i].kind = Tokens(p)[k] THEN outs[FirstOf(p) + i].amount ELSE 0]
        = [i \in DOMAIN Issued(p) |->
           IF Issued(p)[i].kind = Tokens(p)[k] THEN Amount(Issued(p)[i].kind, Now) ELSE 0]
    BY <2>1
  <2>3. ins[1 + k].issue = SumTo(p, Tokens(p)[k])
    BY <1>3
  <2> QED BY <2>2, <2>3 DEF SumTo
<1>10. Accounting(t, p)
  <2>1. Affordable(p)
    BY FeePaid
  <2>2. q + 1 \in DOMAIN outs /\ q + 2 \in DOMAIN outs
    <3> HIDE DEF outs, q
    <3>1. q \in Nat
      BY Places DEF q
    <3> QED BY <1>5, <3>1
  <2>3. Policy(Spent(ins)) = Policy(outs)
    <3> DEFINE fee == OperationalFee * N
               left == Sum(LeftOf(p))
               fees == Sum(FeesOf(p))
    <3>1. fees \in Int /\ fee \in Nat /\ left = fees - fee - IssuanceFee /\ IssuanceFee \in Nat
      BY LeftIsRest, FeeAssumption
    <3> HIDE DEF outs, ins, fee, left, fees
    <3>2. Policy(Spent(ins)) = fees /\ Policy(outs) = left + fee + IssuanceFee
      BY <1>3, <1>4 DEF fee, left, fees
    <3> QED BY <3>1, <3>2
  <2>4. [k \in DOMAIN ins |-> ins[k].out] = Spent(ins)
    BY DEF Spent
  <2>5. Len(outs) = 1 + T + N + Len(p) + 3
    <3> HIDE DEF outs, T, N, q
    <3> QED BY <1>1, <1>2, <1>4
  <2>6. \A b \in DOMAIN p : outs[1 + T + N + b] = Out(Account(p[b].owner), "policy", AccountReserve(p, b))
    BY <1>1, <1>2, <1>4
  <2>7. /\ \E k \in DOMAIN outs : outs[k] = Out(Treasury, "policy", OperationalFee * N)
        /\ \E k \in DOMAIN outs : outs[k] = Out(MinerFee, "policy", IssuanceFee)
    BY <1>4, <2>2
  <2> QED BY <2>1, <2>3, <2>4, <2>5, <2>6, <2>7 DEF Accounting
<1>11. Len(ins) >= 3 /\ Len(outs) >= 5 /\ Len(outs) >= FirstOf(p) + N /\ Len(outs) > FirstOf(p) + N + Len(p)
       /\ FirstOf(p) + N + Len(p) + 1 = q
  <2> HIDE DEF ins, outs, T, N, F, q
  <2> QED BY <1>1, <1>2, <1>3, <1>4
<1>12. ASSUME NEW k \in DOMAIN Tokens(p)
       PROVE  ins[1 + k].issue = Sum([i \in DOMAIN Issued(p) |->
                IF Issued(p)[i].kind = Tokens(p)[k] THEN outs[1 + T + i].amount ELSE 0])
  BY <1>1, <1>2, <1>9
<1>13. ValidIssuance(t, p, Now, Branch)
  BY <1>2, <1>3, <1>4, <1>6, <1>7, <1>8, <1>10, <1>11, <1>12 DEF ValidIssuance
<1> QED BY <1>13 DEF t

(***************************************************************************)
(* What is picked keeps its order.                                         *)
(***************************************************************************)
PickedPart(s, P) == [k \in DOMAIN s |-> IF k \in P THEN <<s[k]>> ELSE <<>>]
SoFar(s, P, n) == FlattenSeq(SubSeq(PickedPart(s, P), 1, n))

GrowsBy(S, s, P) ==
  /\ SoFar(s, P, 0) = <<>> /\ SoFar(s, P, Len(s)) = Picked(s)[P]
  /\ \A n \in 1 .. Len(s) :
       /\ SoFar(s, P, n - 1) \in Seq(S) /\ s[n] \in S
       /\ SoFar(s, P, n) = IF n \in P THEN Append(SoFar(s, P, n - 1), s[n]) ELSE SoFar(s, P, n - 1)

LEMMA PickedSteps ==
  ASSUME NEW S, NEW s \in Seq(S), NEW P \in SUBSET DOMAIN s
  PROVE  GrowsBy(S, s, P)
<1> DEFINE c == PickedPart(s, P)
<1>1. DOMAIN s = 1 .. Len(s) /\ Len(s) \in Nat /\ \A k \in DOMAIN s : s[k] \in S
  OBVIOUS
<1>2. /\ c = [k \in 1 .. Len(s) |-> c[k]]
      /\ \A k \in 1 .. Len(s) : c[k] = (IF k \in P THEN <<s[k]>> ELSE <<>>) /\ c[k] \in Seq(S)
  BY <1>1 DEF PickedPart
<1>3. Picked(s)[P] = FlattenSeq(c)
  BY DEF Picked, PickedPart
<1> HIDE DEF c
<1>4. c \in Seq(Seq(S)) /\ Len(c) = Len(s)
  BY <1>1, <1>2
<1>5. SubSeq(c, 1, 0) = <<>> /\ SubSeq(c, 1, Len(s)) = c
  BY <1>4
<1>6. ASSUME NEW n \in 1 .. Len(s)
      PROVE  /\ SoFar(s, P, n - 1) \in Seq(S)
             /\ SoFar(s, P, n) = IF n \in P THEN Append(SoFar(s, P, n - 1), s[n]) ELSE SoFar(s, P, n - 1)
  <2>1. n - 1 \in Nat /\ n - 1 < Len(c) /\ (n - 1) + 1 = n
    BY <1>1, <1>4
  <2>2. /\ FlattenSeq(SubSeq(c, 1, n - 1)) \in Seq(S) /\ c[n] \in Seq(S)
        /\ FlattenSeq(SubSeq(c, 1, n)) = FlattenSeq(SubSeq(c, 1, n - 1)) \o c[n]
    BY <1>4, <2>1, FlatPrefix
  <2>3. c[n] = IF n \in P THEN <<s[n]>> ELSE <<>>
    BY <1>2
  <2> DEFINE x == FlattenSeq(SubSeq(c, 1, n - 1))
  <2> HIDE DEF x
  <2>4. x \in Seq(S) /\ x \o <<>> = x /\ x \o <<s[n]>> = Append(x, s[n])
    <3>1. x \in Seq(S)
      BY <2>2 DEF x
    <3>2. s[n] \in S
      BY <1>1
    <3> QED BY <3>1, <3>2
  <2> QED BY <2>2, <2>3, <2>4 DEF x, SoFar, c
<1>7. SoFar(s, P, 0) = <<>> /\ SoFar(s, P, Len(s)) = Picked(s)[P]
  BY <1>3, <1>5, FlatEmpty DEF SoFar, c
<1> QED BY <1>1, <1>6, <1>7 DEF GrowsBy

(* The places, in order. *)
IsOrder(e, s, P, n, x) ==
  /\ e \in [1 .. Len(x) -> P] /\ \A i \in 1 .. Len(x) : e[i] <= n /\ x[i] = s[e[i]]
  /\ \A i, j \in 1 .. Len(x) : i < j => e[i] < e[j]

LEMMA PickedOrder ==
  ASSUME NEW S, NEW s \in Seq(S), NEW P \in SUBSET DOMAIN s
  PROVE  \E e : IsOrder(e, s, P, Len(s), Picked(s)[P])
<1> DEFINE F(n) == SoFar(s, P, n)
           Good(n) == \E e : IsOrder(e, s, P, n, F(n))
           Bad == {n \in 0 .. Len(s) : ~Good(n)}
<1>1. Len(s) \in Nat /\ P \subseteq Nat
  OBVIOUS
<1>2. /\ F(0) = <<>> /\ F(Len(s)) = Picked(s)[P]
      /\ \A n \in 1 .. Len(s) :
           /\ F(n - 1) \in Seq(S) /\ s[n] \in S
           /\ F(n) = IF n \in P THEN Append(F(n - 1), s[n]) ELSE F(n - 1)
  <2>1. GrowsBy(S, s, P)
    BY PickedSteps
  <2> QED BY <2>1 DEF GrowsBy
<1> HIDE DEF F
<1>3. SUFFICES ASSUME Bad # {} PROVE FALSE
  <2>1. Len(s) \in 0 .. Len(s)
    BY <1>1
  <2>2. Good(Len(s))
    BY <1>3, <2>1
  <2> QED BY <1>2, <2>2
<1>4. PICK n \in Bad : \A m \in Bad : n <= m
  <2>1. Bad \subseteq Nat
    OBVIOUS
  <2> HIDE DEF Bad
  <2> QED BY <1>3, <2>1, HasLeast
<1>5. Good(0)
  <2> DEFINE e == [i \in 1 .. 0 |-> 0]
  <2>1. Len(F(0)) = 0
    BY <1>2
  <2>2. e \in [1 .. 0 -> P]
    OBVIOUS
  <2>3. IsOrder(e, s, P, 0, F(0))
    <3> HIDE DEF e
    <3> QED BY <2>1, <2>2 DEF IsOrder
  <2> QED BY <2>3
<1>6. n # 0 /\ n \in 1 .. Len(s) /\ n - 1 \in 0 .. Len(s) /\ n - 1 < n /\ n \in Nat
  BY <1>1, <1>4, <1>5
<1>7. PICK e : IsOrder(e, s, P, n - 1, F(n - 1))
  <2>1. n - 1 \notin Bad
    <3> HIDE DEF Bad
    <3> QED BY <1>4, <1>6
  <2> QED BY <1>6, <2>1
<1> DEFINE x == F(n - 1)
<1>8. /\ x \in Seq(S) /\ s[n] \in S /\ F(n) = IF n \in P THEN Append(x, s[n]) ELSE x
      /\ e \in [1 .. Len(x) -> P] /\ \A i \in 1 .. Len(x) : e[i] <= n - 1 /\ x[i] = s[e[i]]
      /\ \A i, j \in 1 .. Len(x) : i < j => e[i] < e[j]
  BY <1>2, <1>6, <1>7 DEF IsOrder
<1> HIDE DEF x, Bad
<1>9. \A i \in 1 .. Len(x) : e[i] \in P /\ e[i] \in Nat /\ e[i] < n /\ e[i] <= n
  BY <1>1, <1>6, <1>8, SMTT(20)
<1>10. CASE n \notin P
  <2>1. F(n) = x
    BY <1>8, <1>10
  <2>2. IsOrder(e, s, P, n, F(n))
    BY <1>8, <1>9, <2>1 DEF IsOrder
  <2> QED BY <1>4, <2>2 DEF Bad
<1>11. CASE n \in P
  <2> DEFINE l == Len(x)
             y == Append(x, s[n])
             g == [i \in 1 .. l + 1 |-> IF i = l + 1 THEN n ELSE e[i]]
  <2>1. l \in Nat /\ Len(y) = l + 1 /\ y[l + 1] = s[n] /\ \A i \in 1 .. l : y[i] = x[i]
    BY <1>8
  <2>2. /\ g = [i \in 1 .. l + 1 |-> g[i]]
        /\ g[l + 1] = n /\ \A i \in 1 .. l : g[i] = e[i] /\ i # l + 1
    BY <2>1
  <2>3. \A i \in 1 .. l + 1 : i = l + 1 \/ (i \in 1 .. l /\ i < l + 1)
    BY <2>1
  <2>4. F(n) = y
    BY <1>8, <1>11
  <2> HIDE DEF g, y
  <2>5. \A i \in 1 .. l + 1 : g[i] \in P /\ g[i] <= n /\ y[i] = s[g[i]]
    <3> TAKE i \in 1 .. l + 1
    <3>1. CASE i = l + 1
      BY <1>6, <1>11, <2>1, <2>2, <3>1
    <3>2. CASE i \in 1 .. l
      BY <1>8, <1>9, <2>1, <2>2, <3>2
    <3> QED BY <2>3, <3>1, <3>2
  <2>6. \A i, j \in 1 .. l + 1 : i < j => g[i] < g[j]
    <3> SUFFICES ASSUME NEW i \in 1 .. l + 1, NEW j \in 1 .. l + 1, i < j PROVE g[i] < g[j]
      OBVIOUS
    <3>1. i \in 1 .. l
      BY <2>1, <2>3
    <3>2. CASE j = l + 1
      BY <1>9, <2>2, <3>1, <3>2
    <3>3. CASE j \in 1 .. l
      BY <1>8, <2>2, <3>1, <3>3
    <3> QED BY <2>3, <3>2, <3>3
  <2>7. g \in [1 .. l + 1 -> P]
    BY <2>2, <2>5
  <2>8. IsOrder(g, s, P, n, F(n))
    BY <2>1, <2>4, <2>5, <2>6, <2>7 DEF IsOrder
  <2> QED BY <1>4, <2>8 DEF Bad
<1> QED BY <1>10, <1>11

(* One pick after another, if all its places come later. *)
LEMMA PickedJoin ==
  ASSUME NEW S, NEW s \in Seq(S), NEW P \in SUBSET DOMAIN s, NEW Q \in SUBSET DOMAIN s,
         \A i \in P, j \in Q : i < j
  PROVE  Picked(s)[P \cup Q] = Picked(s)[P] \o Picked(s)[Q]
<1> DEFINE F(n) == SoFar(s, P, n)
           G(n) == SoFar(s, Q, n)
           H(n) == SoFar(s, P \cup Q, n)
           Good(n) == H(n) = F(n) \o G(n) /\ ((\A j \in Q : n < j) => G(n) = <<>>)
           Bad == {n \in 0 .. Len(s) : ~Good(n)}
<1>1. Len(s) \in Nat /\ P \subseteq Nat /\ Q \subseteq Nat /\ P \cup Q \in SUBSET DOMAIN s
  OBVIOUS
<1>2. /\ F(0) = <<>> /\ F(Len(s)) = Picked(s)[P]
      /\ \A n \in 1 .. Len(s) :
           /\ F(n - 1) \in Seq(S) /\ s[n] \in S
           /\ F(n) = IF n \in P THEN Append(F(n - 1), s[n]) ELSE F(n - 1)
  <2>1. GrowsBy(S, s, P)
    BY PickedSteps
  <2> QED BY <2>1 DEF GrowsBy
<1>3. /\ G(0) = <<>> /\ G(Len(s)) = Picked(s)[Q]
      /\ \A n \in 1 .. Len(s) :
           /\ G(n - 1) \in Seq(S)
           /\ G(n) = IF n \in Q THEN Append(G(n - 1), s[n]) ELSE G(n - 1)
  <2>1. GrowsBy(S, s, Q)
    BY PickedSteps
  <2> QED BY <2>1 DEF GrowsBy
<1>4. /\ H(0) = <<>> /\ H(Len(s)) = Picked(s)[P \cup Q]
      /\ \A n \in 1 .. Len(s) :
           /\ H(n) = IF n \in P \cup Q THEN Append(H(n - 1), s[n]) ELSE H(n - 1)
  <2>1. GrowsBy(S, s, P \cup Q)
    BY <1>1, PickedSteps
  <2> QED BY <2>1 DEF GrowsBy
<1> HIDE DEF F, G, H
<1>5. SUFFICES ASSUME Bad # {} PROVE FALSE
  <2>1. Len(s) \in 0 .. Len(s)
    BY <1>1
  <2>2. Good(Len(s))
    BY <1>5, <2>1
  <2> QED BY <1>2, <1>3, <1>4, <2>2
<1>6. PICK n \in Bad : \A m \in Bad : n <= m
  <2>1. Bad \subseteq Nat
    OBVIOUS
  <2> HIDE DEF Bad
  <2> QED BY <1>5, <2>1, HasLeast
<1>7. Good(0)
  <2>1. <<>> \o <<>> = <<>>
    OBVIOUS
  <2> QED BY <1>2, <1>3, <1>4, <2>1
<1>8. n # 0 /\ n \in 1 .. Len(s) /\ n - 1 \in 0 .. Len(s) /\ n - 1 < n /\ n \in Nat
  BY <1>1, <1>6, <1>7
<1>9. Good(n - 1)
  <2>1. n - 1 \notin Bad
    <3> HIDE DEF Bad
    <3> QED BY <1>6, <1>8
  <2> HIDE DEF Good
  <2> QED BY <1>8, <2>1
<1> DEFINE x == F(n - 1)
           y == G(n - 1)
           z == H(n - 1)
<1>10. /\ x \in Seq(S) /\ y \in Seq(S) /\ s[n] \in S /\ z = x \o y
       /\ F(n) = IF n \in P THEN Append(x, s[n]) ELSE x
       /\ G(n) = IF n \in Q THEN Append(y, s[n]) ELSE y
       /\ H(n) = IF n \in P \cup Q THEN Append(z, s[n]) ELSE z
       /\ (\A j \in Q : n - 1 < j) => y = <<>>
  BY <1>2, <1>3, <1>4, <1>8, <1>9
<1> HIDE DEF x, y, z, Bad
<1>11. \A u, v \in Seq(S) : \A w \in S :
         /\ Append(u \o v, w) = u \o Append(v, w)
         /\ u \o <<>> = u
  OBVIOUS
<1>12. H(n) = F(n) \o G(n)
  <2>1. CASE n \in P
    <3>1. n \notin Q
      BY <2>1, <1>8
    <3>2. \A j \in Q : n - 1 < j
      BY <1>1, <1>8, <2>1
    <3>3. y = <<>> /\ Append(x, s[n]) \in Seq(S)
      BY <1>10, <3>2
    <3>4. z = x
      BY <1>10, <1>11, <3>3
    <3>5. H(n) = Append(x, s[n]) /\ F(n) = Append(x, s[n]) /\ G(n) = <<>>
      BY <1>10, <2>1, <3>1, <3>3, <3>4
    <3>6. Append(x, s[n]) \o <<>> = Append(x, s[n])
      BY <1>11, <3>3, <1>10
    <3> QED BY <3>5, <3>6
  <2>2. CASE n \notin P /\ n \in Q
    <3>1. n \in P \cup Q
      BY <2>2
    <3>2. H(n) = Append(x \o y, s[n]) /\ F(n) = x /\ G(n) = Append(y, s[n])
      BY <1>10, <2>2, <3>1
    <3>3. Append(x \o y, s[n]) = x \o Append(y, s[n])
      BY <1>10, <1>11
    <3> QED BY <3>2, <3>3
  <2>3. CASE n \notin P /\ n \notin Q
    BY <1>10, <2>3
  <2> QED BY <2>1, <2>2, <2>3
<1>13. (\A j \in Q : n < j) => G(n) = <<>>
  <2> SUFFICES ASSUME \A j \in Q : n < j PROVE G(n) = <<>>
    OBVIOUS
  <2>1. n \notin Q /\ \A j \in Q : n - 1 < j
    BY <1>1, <1>8
  <2> QED BY <1>10, <2>1
<1>14. Good(n)
  BY <1>12, <1>13
<1>15. ~Good(n)
  <2> HIDE DEF Good
  <2> QED BY <1>6 DEF Bad
<1> QED BY <1>14, <1>15

LEMMA PickedAll ==
  ASSUME NEW S, NEW s \in Seq(S)
  PROVE  Picked(s)[{}] = <<>> /\ Picked(s)[DOMAIN s] = s
<1> DEFINE P == DOMAIN s
           x == Picked(s)[P]
<1>1. Len(s) \in Nat /\ DOMAIN s = 1 .. Len(s) /\ P \in SUBSET DOMAIN s /\ {} \in SUBSET DOMAIN s
  OBVIOUS
<1>2. Picked(s)[{}] = <<>>
  <2>1. Picked(s)[{}] \in Seq(S) /\ ToSet(Picked(s)[{}]) = {s[k] : k \in {}}
    BY <1>1, PickedIs, ZenonT(40)
  <2> DEFINE e == Picked(s)[{}]
  <2> HIDE DEF e
  <2>2. e \in Seq(S) /\ ToSet(e) = {}
    BY <2>1 DEF e
  <2>3. DOMAIN e = 1 .. Len(e) /\ Len(e) \in Nat /\ DOMAIN e = {}
    <3>1. \A i \in DOMAIN e : e[i] \in ToSet(e)
      BY DEF ToSet
    <3>2. DOMAIN e = {}
      BY <2>2, <3>1
    <3> QED BY <2>2, <3>2
  <2>4. Len(e) = 0
    BY <2>3
  <2>5. e = <<>>
    BY <2>2, <2>4
  <2> QED BY <2>5 DEF e
<1> DEFINE F(n) == SoFar(s, P, n)
           Good(n) == F(n) = SubSeq(s, 1, n)
           Bad == {n \in 0 .. Len(s) : ~Good(n)}
<1>3. /\ F(0) = <<>> /\ F(Len(s)) = Picked(s)[P]
      /\ \A n \in 1 .. Len(s) :
           /\ F(n - 1) \in Seq(S) /\ s[n] \in S
           /\ F(n) = IF n \in P THEN Append(F(n - 1), s[n]) ELSE F(n - 1)
  <2>1. GrowsBy(S, s, P)
    BY <1>1, PickedSteps
  <2> QED BY <2>1 DEF GrowsBy
<1> HIDE DEF F
<1>4. SUFFICES ASSUME Bad # {} PROVE FALSE
  <2>1. Len(s) \in 0 .. Len(s) /\ SubSeq(s, 1, Len(s)) = s
    BY <1>1
  <2>2. Good(Len(s))
    BY <1>4, <2>1
  <2> QED BY <1>2, <1>3, <2>1, <2>2
<1>5. PICK n \in Bad : \A m \in Bad : n <= m
  <2>1. Bad \subseteq Nat
    OBVIOUS
  <2> HIDE DEF Bad
  <2> QED BY <1>4, <2>1, HasLeast
<1>6. Good(0)
  <2>1. SubSeq(s, 1, 0) = <<>>
    OBVIOUS
  <2> QED BY <1>3, <2>1
<1>7. n # 0 /\ n \in 1 .. Len(s) /\ n - 1 \in 0 .. Len(s) /\ n - 1 < n /\ n \in Nat
  BY <1>1, <1>5, <1>6
<1>8. Good(n - 1)
  <2>1. n - 1 \notin Bad
    <3> HIDE DEF Bad
    <3> QED BY <1>5, <1>7
  <2> HIDE DEF Good
  <2> QED BY <1>7, <2>1
<1>9. F(n) = Append(F(n - 1), s[n])
  BY <1>1, <1>3, <1>7
<1>10. Append(SubSeq(s, 1, n - 1), s[n]) = SubSeq(s, 1, n)
  BY <1>7
<1>11. Good(n)
  BY <1>8, <1>9, <1>10
<1>12. ~Good(n)
  <2> HIDE DEF Good
  <2> QED BY <1>5
<1> QED BY <1>11, <1>12

(***************************************************************************)
(* Rows in the order of their outputs, which is that of their groups too.  *)
(***************************************************************************)
Ordered(s) ==
  /\ \A i, j \in DOMAIN s : i < j => s[i].out < s[j].out /\ s[i].reserve <= s[j].reserve
  /\ \A i, j \in DOMAIN s : s[i].out < s[j].reserve
  /\ \A i \in DOMAIN s : s[i].out \in Nat /\ s[i].amount \in Nat

LEMMA PickedOrdered ==
  ASSUME NEW s, RowsTyped(s), Ordered(s), NEW P \in SUBSET DOMAIN s
  PROVE  /\ Ordered(Picked(s)[P]) /\ Len(Picked(s)[P]) <= Len(s)
         /\ RowsTyped(Picked(s)[P]) /\ ToSet(Picked(s)[P]) \subseteq ToSet(s)
<1> DEFINE x == Picked(s)[P]
           S == ToSet(s)
<1>1. s \in Seq(S) /\ DOMAIN s = 1 .. Len(s) /\ Len(s) \in Nat
  BY RowsTypedIs
<1>2. RowsTyped(x) /\ ToSet(x) \subseteq ToSet(s)
  BY PickedTyped
<1>3. DOMAIN x = 1 .. Len(x)
  BY <1>2, RowsTypedIs
<1>4. Len(x) <= Len(s)
  <2>1. DOMAIN s \in SUBSET DOMAIN s /\ P \subseteq DOMAIN s
    OBVIOUS
  <2>2. Len(Picked(s)[P]) <= Len(Picked(s)[DOMAIN s])
    BY <1>1, <2>1, PickedGrows
  <2>3. Picked(s)[DOMAIN s] = s
    BY <1>1, PickedAll
  <2> QED BY <2>2, <2>3
<1>5. PICK e : IsOrder(e, s, P, Len(s), x)
  <2>1. \E e : IsOrder(e, s, P, Len(s), Picked(s)[P])
    BY <1>1, PickedOrder
  <2> QED BY <2>1
<1> HIDE DEF x
<1>6. /\ \A i \in DOMAIN x : e[i] \in DOMAIN s /\ x[i] = s[e[i]]
      /\ \A i, j \in DOMAIN x : i < j => e[i] < e[j]
  BY <1>3, <1>5 DEF IsOrder
<1>7. Ordered(x)
  BY <1>6 DEF Ordered
<1> QED BY <1>2, <1>4, <1>7 DEF x

LEMMA ReservesSorted ==
  ASSUME NEW s, RowsTyped(s)
  PROVE  /\ \A g, h \in DOMAIN ReservesOf(s) : g < h => ReservesOf(s)[g] < ReservesOf(s)[h]
         /\ \A g \in DOMAIN ReservesOf(s) : ReservesOf(s)[g] \in Nat
         /\ \A k \in DOMAIN s : \E g \in DOMAIN ReservesOf(s) : ReservesOf(s)[g] = s[k].reserve
<1> DEFINE R == ReserveSet(s)
           N == Cardinality(R)
           a == ReservesOf(s)
           atRank(k) == CHOOSE x \in R : Cardinality({y \in R : y <= x}) = k
<1>1. R \in SUBSET Nat /\ IsFiniteSet(R) /\ N \in Nat
  BY RowsTypedIs, ReservesAre
<1>2. a = [k \in 1 .. N |-> atRank(k)]
  <2>1. a = Ascending[R]
    BY DEF ReservesOf, ReserveSet
  <2> HIDE DEF a, R
  <2> QED BY <1>1, <2>1 DEF Ascending
<1>3. \A k \in DOMAIN s : s[k].reserve \in R
  BY DEF ReserveSet, ToSet
<1> HIDE DEF R, a
<1>4. [x \in R |-> RankIn(R, x)] \in Bijection(R, 1 .. N)
  BY <1>1, RanksAre
<1> HIDE DEF N
<1>5. \A x \in R : RankIn(R, x) \in 1 .. N
  BY <1>4 DEF Bijection, Injection
<1>6. \A x, y \in R : RankIn(R, x) = RankIn(R, y) => x = y
  <2> DEFINE f == [x \in R |-> RankIn(R, x)]
  <2>1. \A x, y \in R : f[x] = f[y] => x = y
    <3> HIDE DEF f
    <3>1. f \in Bijection(R, 1 .. N)
      BY <1>4 DEF f
    <3> QED BY <3>1 DEF Bijection, Injection, IsInjective, Surjection
  <2> QED BY <2>1
<1>7. DOMAIN a = 1 .. N /\ \A g \in 1 .. N : a[g] \in R /\ RankIn(R, a[g]) = g
  <2>1. DOMAIN a = 1 .. N
    <3> HIDE DEF atRank
    <3> QED BY <1>2
  <2>2. ASSUME NEW g \in 1 .. N PROVE a[g] \in R /\ RankIn(R, a[g]) = g
    <3>1. PICK x \in R : RankIn(R, x) = g
      BY <1>4 DEF Bijection, Surjection
    <3>2. Cardinality({y \in R : y <= x}) = g
      BY <3>1 DEF RankIn
    <3>3. atRank(g) \in R /\ Cardinality({y \in R : y <= atRank(g)}) = g
      BY <3>2
    <3>4. a[g] = atRank(g)
      <4> HIDE DEF atRank
      <4> QED BY <1>2
    <3> HIDE DEF atRank
    <3> QED BY <3>3, <3>4 DEF RankIn
  <2> QED BY <2>1, <2>2
<1>8. \A x \in R : \E g \in DOMAIN a : a[g] = x
  <2> TAKE x \in R
  <2>1. RankIn(R, x) \in 1 .. N
    BY <1>5
  <2> QED BY <1>6, <1>7, <2>1
<1>9. \A x, y \in R : x <= y => RankIn(R, x) <= RankIn(R, y)
  <2> SUFFICES ASSUME NEW x \in R, NEW y \in R, x <= y PROVE RankIn(R, x) <= RankIn(R, y)
    OBVIOUS
  <2> DEFINE Least(z) == {v \in R : v <= z}
  <2>1. \A v \in R : v <= x => v <= y
    BY <1>1
  <2>2. Least(x) \in SUBSET Least(y) /\ Least(y) \in SUBSET R
    BY <2>1
  <2> HIDE DEF Least
  <2>3. IsFiniteSet(Least(y))
    BY <1>1, <2>2, FS_Subset
  <2>4. Cardinality(Least(x)) <= Cardinality(Least(y))
    BY <2>2, <2>3, FS_Subset
  <2> QED BY <2>4 DEF RankIn, Least
<1>10. \A g, h \in DOMAIN a : g < h => a[g] < a[h]
  <2> SUFFICES ASSUME NEW g \in DOMAIN a, NEW h \in DOMAIN a, g < h PROVE a[g] < a[h]
    OBVIOUS
  <2>1. /\ a[g] \in R /\ a[h] \in R /\ RankIn(R, a[g]) = g /\ RankIn(R, a[h]) = h
        /\ g \in Int /\ h \in Int /\ a[g] \in Nat /\ a[h] \in Nat
    <3>1. g \in 1 .. N /\ h \in 1 .. N
      BY <1>7
    <3>2. a[g] \in R /\ a[h] \in R /\ RankIn(R, a[g]) = g /\ RankIn(R, a[h]) = h
      BY <1>7, <3>1
    <3>3. a[g] \in Nat /\ a[h] \in Nat
      BY <1>1, <3>2
    <3>4. g \in Int /\ h \in Int
      BY <1>1, <3>1 DEF N
    <3> QED BY <3>2, <3>3, <3>4
  <2>2. ~(a[h] <= a[g])
    BY <1>9, <2>1
  <2> QED BY <2>1, <2>2
<1>11. \A g \in DOMAIN a : a[g] \in Nat
  BY <1>1, <1>7
<1>12. \A k \in DOMAIN s : \E g \in DOMAIN a : a[g] = s[k].reserve
  BY <1>3, <1>8
<1> QED BY <1>10, <1>11, <1>12 DEF a

(* In the order of a burn they stay as they are. *)
LEMMA GroupedIs ==
  ASSUME NEW s, RowsTyped(s), Ordered(s)
  PROVE  Grouped(s) = s
<1> DEFINE S == ToSet(s)
           a == ReservesOf(s)
           G == Len(a)
           Q(g) == {k \in DOMAIN s : s[k].reserve = a[g]}
           P(n) == {k \in DOMAIN s : \E g \in 1 .. n : s[k].reserve = a[g]}
           c == [g \in 1 .. G |-> Picked(s)[Q(g)]]
           F(n) == FlattenSeq(SubSeq(c, 1, n))
           Good(n) == F(n) = Picked(s)[P(n)]
           Bad == {n \in 0 .. G : ~Good(n)}
<1>1. s \in Seq(S) /\ DOMAIN s = 1 .. Len(s) /\ Len(s) \in Nat /\ \A k \in DOMAIN s : s[k].reserve \in Nat
  BY RowsTypedIs
<1>2. /\ G \in Nat /\ DOMAIN a = 1 .. G
      /\ \A g, h \in 1 .. G : g < h => a[g] < a[h]
      /\ \A g \in 1 .. G : a[g] \in Nat
      /\ \A k \in DOMAIN s : \E g \in 1 .. G : s[k].reserve = a[g]
  <2>1. G \in Nat /\ DOMAIN a = 1 .. G
    BY EachReserve
  <2> QED BY <2>1, ReservesSorted
<1>3. Grouped(s) = FlattenSeq(c)
  BY <1>2 DEF Grouped, GroupOf
<1>4. c \in Seq(Seq(S)) /\ Len(c) = G
  <2>1. \A g \in 1 .. G : c[g] \in Seq(S)
    <3> TAKE g \in 1 .. G
    <3>1. Q(g) \in SUBSET DOMAIN s
      OBVIOUS
    <3> HIDE DEF Q
    <3>2. Picked(s)[Q(g)] \in Seq(S)
      BY <1>1, <3>1, PickedIs
    <3> QED BY <3>2
  <2>2. c = [g \in 1 .. G |-> c[g]]
    OBVIOUS
  <2> HIDE DEF c, S
  <2> QED BY <1>2, <2>1, <2>2
<1>5. Picked(s)[{}] = <<>> /\ Picked(s)[DOMAIN s] = s
  BY <1>1, PickedAll
<1>6. SUFFICES ASSUME Bad # {} PROVE FALSE
  <2>1. G \in 0 .. G /\ SubSeq(c, 1, G) = c
    <3> HIDE DEF c
    <3> QED BY <1>2, <1>4
  <2>2. Good(G)
    <3> HIDE DEF Good
    <3> QED BY <1>6, <2>1
  <2>3. P(G) = DOMAIN s
    BY <1>2
  <2> HIDE DEF c, P
  <2> QED BY <1>3, <1>5, <2>1, <2>2, <2>3
<1>7. PICK n \in Bad : \A m \in Bad : n <= m
  <2>1. Bad \subseteq Nat
    OBVIOUS
  <2> HIDE DEF Bad
  <2> QED BY <1>6, <2>1, HasLeast
<1>8. Good(0)
  <2>1. SubSeq(c, 1, 0) = <<>>
    <3> HIDE DEF c
    <3> QED BY <1>4
  <2>2. F(0) = <<>>
    BY <2>1, FlatEmpty
  <2>3. P(0) = {}
    OBVIOUS
  <2> HIDE DEF F, P
  <2> QED BY <1>5, <2>2, <2>3
<1>9. n # 0 /\ n \in 1 .. G /\ n - 1 \in 0 .. G /\ n - 1 \in Nat /\ n - 1 < G /\ n - 1 < n /\ n \in Nat /\ (n - 1) + 1 = n
  <2> HIDE DEF Good, a
  <2> QED BY <1>2, <1>7, <1>8
<1>10. Good(n - 1)
  <2>1. n - 1 \notin Bad
    <3> HIDE DEF Bad
    <3> QED BY <1>7, <1>9
  <2> HIDE DEF Good
  <2> QED BY <1>9, <2>1
<1>11. F(n) = F(n - 1) \o c[n]
  <2> HIDE DEF c, Bad
  <2>1. FlattenSeq(SubSeq(c, 1, (n - 1) + 1)) = FlattenSeq(SubSeq(c, 1, n - 1)) \o c[(n - 1) + 1]
    BY <1>4, <1>9, FlatPrefix
  <2> QED BY <1>9, <2>1
<1> DEFINE x == P(n - 1)
           y == Q(n)
<1>12. x \in SUBSET DOMAIN s /\ y \in SUBSET DOMAIN s /\ P(n) = x \cup y
  <2>1. 1 .. n = (1 .. n - 1) \cup {n}
    BY <1>9
  <2> HIDE DEF a, Bad
  <2> QED BY <2>1
<1>13. \A i \in x, j \in y : i < j
  <2> SUFFICES ASSUME NEW i \in x, NEW j \in y PROVE i < j
    OBVIOUS
  <2> HIDE DEF a, Bad
  <2>1. PICK g \in 1 .. n - 1 : s[i].reserve = a[g]
    OBVIOUS
  <2>2. s[j].reserve = a[n] /\ i \in DOMAIN s /\ j \in DOMAIN s /\ i \in Nat /\ j \in Nat
    BY <1>1
  <2>3. g \in 1 .. G /\ g < n
    BY <1>2, <1>9, <2>1
  <2>4. s[i].reserve < s[j].reserve /\ s[i].reserve \in Nat /\ s[j].reserve \in Nat
    BY <1>1, <1>2, <1>9, <2>1, <2>2, <2>3
  <2>5. i # j
    BY <2>4
  <2>6. ~(j < i)
    <3>1. j < i => s[j].reserve <= s[i].reserve
      BY <2>2 DEF Ordered
    <3> QED BY <2>4, <3>1
  <2> QED BY <2>2, <2>5, <2>6
<1> HIDE DEF x, y
<1>14. Picked(s)[x \cup y] = Picked(s)[x] \o Picked(s)[y]
  BY <1>1, <1>12, <1>13, PickedJoin
<1>15. c[n] = Picked(s)[y]
  BY <1>9 DEF y
<1>16. F(n - 1) = Picked(s)[x]
  BY <1>10 DEF x
<1>17. Good(n)
  <2> HIDE DEF F, c, P, Bad
  <2> QED BY <1>11, <1>12, <1>14, <1>15, <1>16
<1>18. ~Good(n)
  <2> HIDE DEF Good
  <2> QED BY <1>7
<1> QED BY <1>17, <1>18

(***************************************************************************)
(* What a leader lays out is accepted by a member with the same rows.      *)
(***************************************************************************)
(* The places of a burn. *)
IsBurnOf(t, s) ==
  LET L == Len(s)
      G == Len(ReservesOf(s))
      T == Len(BurnOutputs(s)) IN
  /\ IsSeq(t.inputs) /\ IsSeq(t.outputs)
  /\ Len(t.inputs) = 1 + L + G /\ Len(t.outputs) = 1 + T + G + 1
  /\ t.inputs[1].out = EyeOut /\ t.outputs[1] = EyeOut
  /\ \A k \in 1 .. L : t.inputs[1 + k] = ItemInput(s[k])
  /\ \A g \in 1 .. G : t.inputs[1 + L + g] = ReserveInput(utxo, s, ReservesOf(s)[g])
  /\ \A k \in 1 .. T : t.outputs[1 + k] = BurnOutputs(s)[k]
  /\ \A g \in 1 .. G :
       t.outputs[1 + T + g]
         = Out(Account(OwnerOf(s, ReservesOf(s)[g])), "policy", Remaining(utxo, s, g))
  /\ t.outputs[1 + T + G + 1] = Out(MinerFee, "policy", BurnFee(L, G))

LEMMA BurnPlaces ==
  ASSUME NEW s, RowsTyped(s), Ordered(s)
  PROVE  IsBurnOf(BurnOf(utxo, s), s)
<1> DEFINE reserves == ReservesOf(s)
           L == Len(s)
           G == Len(reserves)
           first == In(<<"eye">>, EyeOut)
           A == [k \in DOMAIN s |-> ItemInput(s[k])]
           B == [g \in DOMAIN reserves |-> ReserveInput(utxo, s, reserves[g])]
           D == BurnOutputs(s)
           T == Len(D)
           C == [g \in DOMAIN reserves |->
                  Out(Account(OwnerOf(s, reserves[g])), "policy", Remaining(utxo, s, g))]
           fee == Out(MinerFee, "policy", BurnFee(L, G))
           ins == <<first>> \o A \o B
           front == <<EyeOut>> \o D \o C
           outs == front \o <<fee>>
           t == BurnOf(utxo, s)
<1>1. t.inputs = ins /\ t.outputs = outs
  <2>1. Grouped(s) = s
    BY GroupedIs
  <2> QED BY <2>1 DEF BurnOf
<1>2. DOMAIN reserves = 1 .. G /\ G \in Nat /\ DOMAIN s = 1 .. L /\ L \in Nat
  BY EachReserve, RowsTypedIs
<1>3. /\ A = [k \in 1 .. L |-> A[k]] /\ \A k \in 1 .. L : A[k] = ItemInput(s[k])
      /\ B = [g \in 1 .. G |-> B[g]] /\ \A g \in 1 .. G : B[g] = ReserveInput(utxo, s, reserves[g])
      /\ C = [g \in 1 .. G |-> C[g]]
      /\ \A g \in 1 .. G :
           C[g] = Out(Account(OwnerOf(s, reserves[g])), "policy", Remaining(utxo, s, g))
  BY <1>2
<1> HIDE DEF A, B, C, D, t, reserves
<1>4. IsSeq(A) /\ Len(A) = L /\ IsSeq(B) /\ Len(B) = G /\ IsSeq(C) /\ Len(C) = G
  BY <1>2, <1>3, MapIs
<1>5. IsSeq(D) /\ T \in Nat
  BY BurnOutputsAre DEF D
<1>6. /\ IsSeq(ins) /\ Len(ins) = 1 + L + G /\ ins[1] = first
      /\ \A k \in 1 .. L : ins[1 + k] = A[k]
      /\ \A g \in 1 .. G : ins[1 + L + g] = B[g]
  <2>1. IsSeq(A) /\ IsSeq(B)
    BY <1>4
  <2>2. /\ IsSeq(<<first>> \o A \o B) /\ Len(<<first>> \o A \o B) = 1 + Len(A) + Len(B)
        /\ (<<first>> \o A \o B)[1] = first
        /\ \A k \in 1 .. Len(A) : (<<first>> \o A \o B)[1 + k] = A[k]
        /\ \A k \in 1 .. Len(B) : (<<first>> \o A \o B)[1 + Len(A) + k] = B[k]
    BY <2>1, ThreeParts
  <2> QED BY <1>4, <2>2
<1>7. /\ IsSeq(front) /\ Len(front) = 1 + T + G /\ front[1] = EyeOut
      /\ \A k \in 1 .. T : front[1 + k] = D[k]
      /\ \A g \in 1 .. G : front[1 + T + g] = C[g]
  <2>1. IsSeq(D) /\ IsSeq(C)
    BY <1>4, <1>5
  <2>2. /\ IsSeq(<<EyeOut>> \o D \o C) /\ Len(<<EyeOut>> \o D \o C) = 1 + Len(D) + Len(C)
        /\ (<<EyeOut>> \o D \o C)[1] = EyeOut
        /\ \A k \in 1 .. Len(D) : (<<EyeOut>> \o D \o C)[1 + k] = D[k]
        /\ \A k \in 1 .. Len(C) : (<<EyeOut>> \o D \o C)[1 + Len(D) + k] = C[k]
    BY <2>1, ThreeParts
  <2> QED BY <1>4, <2>2
<1> HIDE DEF ins, front, fee, T, G, L
<1>8. /\ IsSeq(outs) /\ Len(outs) = 1 + T + G + 1
      /\ \A k \in 1 .. Len(front) : outs[k] = front[k]
      /\ outs[1 + T + G + 1] = fee
  <2> DEFINE one == <<fee>>
  <2>1. IsSeq(one) /\ Len(one) = 1 /\ one[1] = fee
    BY OneIs
  <2> HIDE DEF one
  <2>2. IsSeq(front) /\ IsSeq(one)
    BY <1>7, <2>1
  <2>3. /\ IsSeq(front \o one) /\ Len(front \o one) = Len(front) + Len(one)
        /\ \A k \in 1 .. Len(front) : (front \o one)[k] = front[k]
        /\ \A k \in 1 .. Len(one) : (front \o one)[Len(front) + k] = one[k]
    BY <2>2, Joined
  <2>4. 1 \in 1 .. Len(one)
    BY <2>1
  <2>5. (front \o one)[Len(front) + 1] = one[1]
    BY <2>3, <2>4
  <2>6. outs = front \o one
    BY DEF one
  <2> HIDE DEF outs
  <2> QED BY <1>7, <2>1, <2>3, <2>5, <2>6
<1> HIDE DEF outs
<1>9. /\ 1 \in 1 .. Len(front) /\ \A k \in 1 .. T : 1 + k \in 1 .. Len(front)
  BY <1>2, <1>5, <1>7
<1>10. \A g \in 1 .. G : 1 + T + g \in 1 .. Len(front)
  BY <1>2, <1>5, <1>7
<1>11. /\ outs[1] = EyeOut
       /\ \A k \in 1 .. T : outs[1 + k] = D[k]
       /\ \A g \in 1 .. G : outs[1 + T + g] = C[g]
  BY <1>7, <1>8, <1>9, <1>10
<1>12. ins[1].out = EyeOut
  BY <1>6 DEF first, In
<1> QED BY <1>1, <1>3, <1>6, <1>8, <1>11, <1>12 DEF IsBurnOf, D, T, G, L, reserves, t, fee

(* The members find in it the items that it burns. *)
LEMMA BurnItems ==
  ASSUME NEW expired, RowsTyped(expired), Ordered(expired),
         NEW s, RowsTyped(s), s # <<>>, ToSet(s) \subseteq ToSet(expired), NEW t, IsBurnOf(t, s)
  PROVE  ItemsIn(t, expired) = s
<1> DEFINE item(k) == \E r \in ToSet(expired) : t.inputs[k].from = <<"out", r.out>>
           top == Len(t.inputs)
           L == Len(s)
           G == Len(ReservesOf(s))
           Leads(n) == /\ \A k \in 2 .. n + 1 : item(k)
                       /\ n + 1 < top => ~item(n + 2)
           count == CHOOSE n \in 0 .. top - 1 : Leads(n)
           rowOf(k) == CHOOSE r \in ToSet(expired) : t.inputs[1 + k].from = <<"out", r.out>>
           items == ItemsIn(t, expired)
<1>1. items = [k \in 1 .. count |-> rowOf(k)]
  BY DEF ItemsIn
<1>2. /\ L \in Nat \ {0} /\ G \in Nat \ {0} /\ DOMAIN s = 1 .. L /\ top = 1 + L + G
      /\ DOMAIN ReservesOf(s) = 1 .. G
      /\ \A k \in 1 .. L : s[k] \in ToSet(s) /\ s[k] \in ToSet(expired)
      /\ s = [k \in 1 .. L |-> s[k]]
  <2>1. DOMAIN s = 1 .. L /\ L \in Nat /\ s \in Seq(ToSet(s)) /\ \A k \in DOMAIN s : s[k] \in ToSet(s)
    BY RowsTypedIs
  <2>2. L # 0 /\ s = [k \in 1 .. L |-> s[k]]
    BY <2>1
  <2>3. DOMAIN ReservesOf(s) = 1 .. G /\ G \in Nat /\ G # 0
    BY EachReserve
  <2>4. top = 1 + L + G
    BY DEF IsBurnOf
  <2> QED BY <2>1, <2>2, <2>3, <2>4
<1>3. \A k \in 1 .. L : t.inputs[1 + k].from = <<"out", s[k].out>>
  <2> TAKE k \in 1 .. L
  <2>1. t.inputs[1 + k] = ItemInput(s[k])
    BY DEF IsBurnOf
  <2> QED BY <2>1 DEF ItemInput, In
<1>4. \A r, q \in ToSet(expired) : r.out = q.out => r = q
  <2> SUFFICES ASSUME NEW r \in ToSet(expired), NEW q \in ToSet(expired), r.out = q.out PROVE r = q
    OBVIOUS
  <2>1. PICK i \in DOMAIN expired : r = expired[i]
    BY DEF ToSet
  <2>2. PICK j \in DOMAIN expired : q = expired[j]
    BY DEF ToSet
  <2>3. DOMAIN expired = 1 .. Len(expired) /\ Len(expired) \in Nat
    BY RowsTypedIs
  <2>4. ~(i < j) /\ ~(j < i)
    <3>1. i < j => expired[i].out < expired[j].out
      BY DEF Ordered
    <3>2. j < i => expired[j].out < expired[i].out
      BY DEF Ordered
    <3>3. expired[i].out \in Nat
      BY DEF Ordered
    <3> QED BY <2>1, <2>2, <3>1, <3>2, <3>3
  <2>5. i = j
    BY <2>3, <2>4
  <2> QED BY <2>1, <2>2, <2>5
<1>5. \A k \in 2 .. L + 1 : item(k)
  <2> TAKE k \in 2 .. L + 1
  <2>1. k - 1 \in 1 .. L /\ 1 + (k - 1) = k
    BY <1>2
  <2>2. t.inputs[1 + (k - 1)].from = <<"out", s[k - 1].out>> /\ s[k - 1] \in ToSet(expired)
    BY <1>2, <1>3, <2>1
  <2> QED BY <2>1, <2>2
<1>6. ~item(L + 2)
  <2> SUFFICES ASSUME NEW r \in ToSet(expired), t.inputs[L + 2].from = <<"out", r.out>> PROVE FALSE
    OBVIOUS
  <2> DEFINE x == ReservesOf(s)[1]
  <2>1. 1 \in 1 .. G /\ 1 + L + 1 = L + 2
    BY <1>2
  <2>2. t.inputs[1 + L + 1] = ReserveInput(utxo, s, x)
    BY <2>1 DEF IsBurnOf
  <2>3. t.inputs[L + 2].from = <<"out", x>>
    BY <2>1, <2>2 DEF ReserveInput, In
  <2>4. r.out = x
    BY <2>3
  <2>5. PICK q \in ToSet(s) : x = q.reserve
    BY <1>2, <2>1, EachReserve
  <2> HIDE DEF x
  <2>6. PICK i \in DOMAIN expired : r = expired[i]
    BY DEF ToSet
  <2>7. PICK j \in DOMAIN expired : q = expired[j]
    BY DEF ToSet
  <2>8. expired[i].out < expired[j].reserve /\ expired[i].out \in Nat
    BY DEF Ordered
  <2> QED BY <2>4, <2>5, <2>6, <2>7, <2>8
<1>7. L \in 0 .. top - 1 /\ Leads(L)
  <2>1. L \in 0 .. top - 1
    BY <1>2
  <2> HIDE DEF item
  <2> QED BY <1>5, <1>6, <2>1
<1>8. ASSUME NEW n \in 0 .. top - 1, Leads(n) PROVE n = L
  <2>0. n \in Int /\ n >= 0
    OBVIOUS
  <2>1. ~(n < L)
    <3> SUFFICES ASSUME n < L PROVE FALSE
      OBVIOUS
    <3>1. n + 2 \in 2 .. L + 1 /\ n + 1 < top
      BY <1>2, <2>0
    <3> HIDE DEF item, top
    <3> QED BY <1>5, <1>8, <3>1
  <2>2. ~(n > L)
    <3> SUFFICES ASSUME n > L PROVE FALSE
      OBVIOUS
    <3>1. L + 2 \in 2 .. n + 1
      BY <1>2, <2>0
    <3> HIDE DEF item, top
    <3> QED BY <1>6, <1>8, <3>1
  <2> QED BY <1>2, <2>0, <2>1, <2>2
<1>9. count = L
  <2> HIDE DEF Leads, top
  <2> QED BY <1>7, <1>8
<1>10. \A k \in 1 .. L : rowOf(k) = s[k]
  <2> TAKE k \in 1 .. L
  <2>1. s[k] \in ToSet(expired) /\ t.inputs[1 + k].from = <<"out", s[k].out>>
    BY <1>2, <1>3
  <2>2. rowOf(k) \in ToSet(expired) /\ t.inputs[1 + k].from = <<"out", rowOf(k).out>>
    BY <2>1
  <2> HIDE DEF rowOf
  <2>3. rowOf(k).out = s[k].out
    BY <2>1, <2>2
  <2> QED BY <1>4, <2>1, <2>2, <2>3
<1> HIDE DEF rowOf, count
<1>11. items = [k \in 1 .. L |-> s[k]]
  BY <1>1, <1>9, <1>10
<1> QED BY <1>2, <1>11 DEF items

(* Every burn that a leader lays out, for rows that cover it, passes every   *)
(* check of a member that knows the same rows and amounts                    *)
(* (build_burn_transaction, validate_layout).                                *)
THEOREM BurnIsValid ==
  ASSUME NEW expired, RowsTyped(expired), Ordered(expired),
         NEW s, RowsTyped(s), Ordered(s), s # <<>>, ToSet(s) \subseteq ToSet(expired),
         Len(s) <= MaxItems, Covered(utxo, s)
  PROVE  ValidBurn(BurnOf(utxo, s), expired, utxo)
<1> DEFINE t == BurnOf(utxo, s)
           reserves == ReservesOf(s)
           L == Len(s)
           G == Len(reserves)
           T == Len(BurnOutputs(s))
<1>1. IsBurnOf(t, s)
  BY BurnPlaces
<1> HIDE DEF t
<1>2. ItemsIn(t, expired) = s
  BY <1>1, BurnItems
<1>3. /\ L \in Nat \ {0} /\ DOMAIN s = 1 .. L /\ G \in Nat \ {0} /\ DOMAIN reserves = 1 .. G
  <2>1. DOMAIN s = 1 .. L /\ L \in Nat /\ s \in Seq(ToSet(s))
    BY RowsTypedIs
  <2>2. L # 0
    BY <2>1
  <2>3. DOMAIN reserves = 1 .. G /\ G \in Nat /\ G # 0
    BY EachReserve
  <2> QED BY <2>1, <2>2, <2>3
<1>4. IsSeq(BurnOutputs(s)) /\ T \in Nat \ {0}
  <2>1. /\ IsSeq(BurnOutputs(s)) /\ DOMAIN BurnOutputs(s) = 1 .. T /\ T \in Nat
        /\ \A v \in KindsIn(s) : \E k \in DOMAIN BurnOutputs(s) : InOrder[KindsIn(s)][k] = v
    <3> HIDE DEF T
    <3>1. IsSeq(BurnOutputs(s)) /\ DOMAIN BurnOutputs(s) = 1 .. Len(BurnOutputs(s)) /\ Len(BurnOutputs(s)) \in Nat
      BY Zenon, BurnOutputsAre
    <3>2. \A v \in KindsIn(s) : \E k \in DOMAIN BurnOutputs(s) : InOrder[KindsIn(s)][k] = v
      BY Zenon, BurnOutputsAre
    <3> QED BY <3>1, <3>2 DEF T
  <2>2. s[1].kind \in KindsIn(s)
    <3>1. 1 \in DOMAIN s
      BY <1>3
    <3> QED BY <3>1, RowsTypedIs DEF KindsIn
  <2>3. \E k \in 1 .. T : TRUE
    BY <2>1, <2>2
  <2> QED BY <2>1, <2>3
<1>5. /\ IsSeq(t.inputs) /\ IsSeq(t.outputs)
      /\ Len(t.inputs) = 1 + L + G /\ Len(t.outputs) = 1 + T + G + 1
      /\ t.inputs[1].out = EyeOut /\ t.outputs[1] = EyeOut
      /\ \A k \in 1 .. L : t.inputs[1 + k] = ItemInput(s[k])
      /\ \A g \in 1 .. G : t.inputs[1 + L + g] = ReserveInput(utxo, s, reserves[g])
      /\ \A k \in 1 .. T : t.outputs[1 + k] = BurnOutputs(s)[k]
      /\ \A g \in 1 .. G :
           t.outputs[1 + T + g]
             = Out(Account(OwnerOf(s, reserves[g])), "policy", Remaining(utxo, s, g))
      /\ t.outputs[1 + T + G + 1] = Out(MinerFee, "policy", BurnFee(L, G))
  BY <1>1 DEF IsBurnOf
<1>6. SubSeq(t.outputs, 2, 1 + T) = BurnOutputs(s)
  <2> DEFINE outs == t.outputs
             b == 1 + T
             x == SubSeq(outs, 2, b)
  <2>1. IsSeq(outs) /\ b \in Nat /\ b <= Len(outs) /\ 2 \in Nat \ {0} /\ 2 <= b /\ b - 2 + 1 = T
    BY <1>3, <1>4, <1>5
  <2>2. \A k \in 1 .. T : 2 + k - 1 = 1 + k
    BY <1>4
  <2> HIDE DEF b, outs
  <2>3. /\ IsSeq(SubSeq(outs, 2, b)) /\ Len(SubSeq(outs, 2, b)) = (IF 2 <= b THEN b - 2 + 1 ELSE 0)
        /\ \A k \in 1 .. b - 2 + 1 : SubSeq(outs, 2, b)[k] = outs[2 + k - 1]
    BY <2>1, IsSeqSub
  <2> HIDE DEF x
  <2>4. IsSeq(x) /\ Len(x) = T /\ \A k \in 1 .. T : x[k] = outs[1 + k]
    BY <2>1, <2>2, <2>3 DEF x
  <2>5. x = BurnOutputs(s)
    <3> DEFINE y == BurnOutputs(s)
    <3>1. IsSeq(x) /\ IsSeq(y) /\ Len(x) = Len(y) /\ \A k \in 1 .. Len(x) : x[k] = y[k]
      BY <1>4, <1>5, <2>4 DEF outs
    <3> HIDE DEF y
    <3>2. x = y
      BY <3>1, SameSeqs
    <3> QED BY <3>2 DEF y
  <2> QED BY <2>5 DEF x, b, outs
<1>7. \A g \in 1 .. G : Remaining(utxo, s, g) > 0
  BY <1>3 DEF Covered
<1>8. Last(t.outputs) = Out(MinerFee, "policy", BurnFee(L, G))
  BY <1>5 DEF Last
<1>9. L \in 1 .. MaxItems /\ Len(t.inputs) >= 3 /\ Len(t.outputs) >= 4
  <2>1. MaxItems \in Nat
    BY WeightAssumption
  <2>2. L <= MaxItems
    OBVIOUS
  <2> HIDE DEF L, G, T
  <2> QED BY <1>3, <1>4, <1>5, <2>1, <2>2
<1>10. ValidBurn(t, expired, utxo)
  BY <1>2, <1>3, <1>5, <1>6, <1>7, <1>8, <1>9 DEF ValidBurn
<1> QED BY <1>10 DEF t

(***************************************************************************)
(* The order of the rows, and what the outputs of a transaction hold.      *)
(***************************************************************************)
(* Items are issued batch by batch. *)
LEMMA IssuedOrdered ==
  ASSUME NEW p \in Seq(Batches)
  PROVE  \A i, j \in 1 .. Len(Issued(p)) : i < j => Issued(p)[i].batch <= Issued(p)[j].batch
<1> DEFINE c == ItemsOf(p)
           I(n) == FlattenSeq(SubSeq(c, 1, n))
           InTurn(s, n) == /\ \A i \in 1 .. Len(s) : s[i].batch \in Nat /\ s[i].batch <= n
                           /\ \A i, j \in 1 .. Len(s) : i < j => s[i].batch <= s[j].batch
           Bad == {n \in 0 .. Len(p) : ~InTurn(I(n), n)}
<1>1. Len(p) \in Nat /\ c \in Seq(Seq(ItemType)) /\ Len(c) = Len(p)
  BY PartsAre
<1>2. I(Len(p)) = Issued(p)
  <2>1. SubSeq(p, 1, Len(p)) = p /\ Len(p) \in 0 .. Len(p)
    OBVIOUS
  <2> QED BY <2>1, PrefixParts
<1>3. InTurn(I(0), 0)
  <2>1. I(0) = <<>>
    <3>1. SubSeq(c, 1, 0) = <<>>
      BY <1>1
    <3> QED BY <3>1, FlatEmpty
  <2> HIDE DEF I
  <2> QED BY <2>1
<1>4. SUFFICES ASSUME Bad # {} PROVE FALSE
  <2>1. Len(p) \in 0 .. Len(p)
    BY <1>1
  <2>2. InTurn(I(Len(p)), Len(p))
    BY <1>4, <2>1
  <2> HIDE DEF I
  <2> QED BY <1>2, <2>2
<1>5. PICK n \in Bad : \A m \in Bad : n <= m
  <2>1. Bad \subseteq Nat
    OBVIOUS
  <2> HIDE DEF Bad
  <2> QED BY <1>4, <2>1, HasLeast
<1>6. n \in Nat /\ n <= Len(p) /\ ~InTurn(I(n), n)
  BY <1>1, <1>5
<1>7. n # 0
  <2> HIDE DEF I
  <2> QED BY <1>3, <1>6
<1> DEFINE m == n - 1
           x == I(m)
           y == c[n]
<1>8. m \in Nat /\ m < Len(p) /\ n = m + 1 /\ m \in 0 .. Len(p)
  BY <1>1, <1>6, <1>7
<1> HIDE DEF m
<1>9. m \notin Bad
  <2> HIDE DEF Bad
  <2> QED BY <1>5, <1>8
<1>10. InTurn(x, m)
  BY <1>8, <1>9
<1>11. x \in Seq(ItemType) /\ y \in Seq(ItemType) /\ I(n) = x \o y
  <2>1. /\ FlattenSeq(SubSeq(c, 1, m)) \in Seq(ItemType) /\ c[m + 1] \in Seq(ItemType)
        /\ FlattenSeq(SubSeq(c, 1, m + 1)) = FlattenSeq(SubSeq(c, 1, m)) \o c[m + 1]
    <3> HIDE DEF c
    <3> QED BY <1>1, <1>8, FlatPrefix
  <2> QED BY <1>8, <2>1
<1>12. \A k \in 1 .. Len(y) : y[k].batch = n
  <2>1. y = [k \in DOMAIN p[n].kinds |->
              [kind |-> p[n].kinds[k], owner |-> p[n].owner, batch |-> n]]
    <3>1. n \in 1 .. Len(p)
      BY <1>6, <1>7
    <3> HIDE DEF I, Bad
    <3> QED BY <3>1 DEF ItemsOf
  <2>2. DOMAIN y = 1 .. Len(y)
    <3> HIDE DEF y
    <3> QED BY <1>11
  <2> QED BY <2>1, <2>2
<1> HIDE DEF x, y, I, Bad
<1>13. InTurn(x \o y, n)
  <2> DEFINE z == x \o y
  <2>1. /\ Len(x) \in Nat /\ Len(y) \in Nat /\ Len(z) = Len(x) + Len(y)
        /\ \A i \in 1 .. Len(z) : \/ i \in 1 .. Len(x) /\ z[i] = x[i]
                                  \/ i - Len(x) \in 1 .. Len(y) /\ z[i] = y[i - Len(x)]
    BY <1>11
  <2> HIDE DEF z
  <2>2. \A i \in 1 .. Len(z) : \/ i \in 1 .. Len(x) /\ z[i].batch = x[i].batch
                               \/ ~(i \in 1 .. Len(x)) /\ z[i].batch = n
    <3>1. \A i \in 1 .. Len(z) : i - Len(x) \in 1 .. Len(y) => i \notin 1 .. Len(x)
      BY <2>1
    <3> QED BY <1>12, <2>1, <3>1
  <2>3. \A i \in 1 .. Len(x) : x[i].batch \in Nat /\ x[i].batch <= m /\ x[i].batch <= n
    BY <1>8, <1>10
  <2>4. \A i \in 1 .. Len(z) : z[i].batch \in Nat /\ z[i].batch <= n
    BY <1>6, <2>2, <2>3, SMTT(20)
  <2>5. ASSUME NEW i \in 1 .. Len(z), NEW j \in 1 .. Len(z), i < j
        PROVE  z[i].batch <= z[j].batch
    <3>1. CASE j \in 1 .. Len(x)
      <4>1. i \in 1 .. Len(x)
        BY <2>1, <2>5, <3>1
      <4> QED BY <1>10, <2>2, <2>5, <3>1, <4>1
    <3>2. CASE j \notin 1 .. Len(x)
      BY <2>2, <2>4, <3>2
    <3> QED BY <3>1, <3>2
  <2> QED BY <2>4, <2>5 DEF z
<1> QED BY <1>6, <1>11, <1>13

(* So the index of an issuance has its rows in order. *)
LEMMA SignedOrdered ==
  ASSUME NEW p, Asked(p), NEW t, IsTx(t), IsLaidOut(t, p)
  PROVE  Ordered(Rows(t)) /\ Len(Rows(t)) = Len(Issued(p))
<1> DEFINE s == Rows(t)
           L == Len(Issued(p))
           F == FirstOf(p)
           A == AccountsOf(p)
<1>1. /\ L \in Nat /\ F \in Nat /\ A = F + L
      /\ \A k \in 1 .. L : Issued(p)[k].batch \in Nat \ {0}
  <2>1. \A k \in 1 .. L : Issued(p)[k].batch \in 1 .. Len(p)
    BY IssuedItems
  <2> QED BY <2>1, Places DEF AccountsOf
<1>2. /\ s = [k \in 1 .. L |-> s[k]]
      /\ \A k \in 1 .. L : /\ s[k].out = F + k /\ s[k].reserve = A + Issued(p)[k].batch
                           /\ s[k].amount = t.outputs[F + k].amount
  BY SignedRows
<1>3. \A k \in 1 .. L : t.outputs[F + k].amount \in Nat
  <2>1. \A k \in 1 .. L : t.outputs[F + k].amount \in Nat \ {0}
    BY DEF IsLaidOut
  <2> HIDE DEF L, F
  <2> QED BY <2>1
<1>4. \A i, j \in 1 .. L : i < j => Issued(p)[i].batch <= Issued(p)[j].batch
  BY IssuedOrdered DEF Asked
<1> HIDE DEF s, L, F, A
<1>5. DOMAIN s = 1 .. L /\ Len(s) = L
  BY <1>1, <1>2, MapIs
<1>6. \A i, j \in 1 .. L : i < j => s[i].out < s[j].out /\ s[i].reserve <= s[j].reserve
  BY <1>1, <1>2, <1>4, SMTT(20)
<1>7. \A i, j \in 1 .. L : s[i].out < s[j].reserve
  BY <1>1, <1>2
<1>8. \A i \in 1 .. L : s[i].out \in Nat /\ s[i].amount \in Nat
  <2>1. \A i \in 1 .. L : s[i].amount \in Nat
    BY <1>2, <1>3
  <2>2. \A i \in 1 .. L : s[i].out \in Nat
    BY <1>1, <1>2
  <2> QED BY <2>1, <2>2
<1> QED BY <1>5, <1>6, <1>7, <1>8 DEF Ordered, s, L

(* What every output of a transaction holds, and every account's. *)
Solvent(t) == /\ AmountsAre(t) /\ Whole(t)
              /\ \A k \in DOMAIN t.outputs : t.outputs[k].to[1] = "account" => t.outputs[k].amount > 0

LEMMA IssuanceHolds ==
  ASSUME NEW p, Asked(p)
  PROVE  Solvent(Issuance(p, Now, Branch))
<1> DEFINE t == Issuance(p, Now, Branch)
           outs == t.outputs
           Fits(o) == o.amount \in Nat /\ (o.to[1] = "account" => o.amount > 0)
<1>1. AmountsAre(t) /\ IsSeq(outs)
  BY IssuanceTyped DEF Asked, IsTx
<1>2. /\ Len(outs) = DescribedAt(p) + 2
      /\ outs[1] = EyeOut
      /\ \A k \in 1 .. Len(Tokens(p)) : outs[1 + k] = TokenOut(Tokens(p)[k])
      /\ \A k \in 1 .. Len(Issued(p)) : outs[FirstOf(p) + k] = IssuedOut(Issued(p)[k], Now, Branch)
      /\ \A b \in 1 .. Len(p) :
           outs[AccountsOf(p) + b] = Out(Account(p[b].owner), "policy", AccountReserve(p, b))
      /\ outs[DescribedAt(p)] = Out(Descriptors(DescriptorsOf(p, Branch)), "policy", 0)
      /\ outs[DescribedAt(p) + 1] = Out(Treasury, "policy", OperationalFee * Len(Issued(p)))
      /\ outs[DescribedAt(p) + 2] = Out(MinerFee, "policy", IssuanceFee)
  BY IssuanceOutputs
<1>3. OperationalFee * Len(Issued(p)) \in Nat /\ IssuanceFee \in Nat /\ Now \in Nat
  BY LeftIsRest, FeeAssumption, TimeAssumption
<1>4. \A b \in 1 .. Len(p) : AccountReserve(p, b) \in Int /\ AccountReserve(p, b) > 0
  <2>1. p \in Seq(Batches) /\ \A b \in 1 .. Len(p) : p[b].kinds # <<>>
    BY DEF Asked, Pays
  <2> QED BY <2>1, ReserveHolds
<1>5. DOMAIN outs = 1 .. DescribedAt(p) + 2
  BY <1>1, <1>2, IsSeqProperties
<1> HIDE DEF outs
<1>6. Fits(outs[1])
  BY <1>2 DEF EyeOut, Eye, Out
<1>7. \A k \in 1 .. Len(Tokens(p)) : Fits(outs[1 + k])
  <2>1. \A kind : Fits(TokenOut(kind))
    BY DEF TokenOut, Treasury, Out
  <2> HIDE DEF Fits
  <2> QED BY <1>2, <2>1
<1>8. \A k \in 1 .. Len(Issued(p)) : Fits(outs[FirstOf(p) + k])
  <2>1. \A i : Fits(IssuedOut(i, Now, Branch))
    BY <1>3 DEF IssuedOut, Voucher, Amount, Out
  <2> HIDE DEF Fits
  <2> QED BY <1>2, <2>1
<1>9. \A b \in 1 .. Len(p) : Fits(outs[AccountsOf(p) + b])
  <2>1. \A to : \A a \in Int : a > 0 => Fits(Out(to, "policy", a))
    BY DEF Out
  <2> HIDE DEF Fits
  <2> QED BY <1>2, <1>4, <2>1
<1>10. Fits(outs[DescribedAt(p)])
  BY <1>2 DEF Descriptors, Out
<1>11. \A k \in 1 .. 2 : Fits(outs[DescribedAt(p) + k])
  <2>1. Fits(outs[DescribedAt(p) + 1])
    BY <1>2, <1>3 DEF Treasury, Out
  <2>2. Fits(outs[DescribedAt(p) + 2])
    BY <1>2, <1>3 DEF MinerFee, Out
  <2>3. \A k \in 1 .. 2 : k = 1 \/ k = 2
    OBVIOUS
  <2> HIDE DEF Fits
  <2> QED BY <2>1, <2>2, <2>3
<1> HIDE DEF Fits
<1>12. \A k \in 1 .. DescribedAt(p) + 2 : Fits(outs[k])
  BY <1>6, <1>7, <1>8, <1>9, <1>10, <1>11, Places
<1> QED BY <1>1, <1>5, <1>12 DEF Solvent, Whole, Fits, outs

LEMMA BurnHolds ==
  ASSUME NEW s, RowsTyped(s), Ordered(s), s # <<>>, Covered(utxo, s),
         \A r \in ToSet(s) : utxo[r.reserve] \in Int
  PROVE  Solvent(BurnOf(utxo, s))
<1> DEFINE t == BurnOf(utxo, s)
           outs == t.outputs
           L == Len(s)
           G == Len(ReservesOf(s))
           T == Len(BurnOutputs(s))
           Fits(o) == IsOut(o) /\ o.amount \in Nat /\ (o.to[1] = "account" => o.amount > 0)
<1>1. /\ IsSeq(outs) /\ Len(outs) = 1 + T + G + 1 /\ outs[1] = EyeOut
      /\ \A k \in 1 .. T : outs[1 + k] = BurnOutputs(s)[k]
      /\ \A g \in 1 .. G :
           outs[1 + T + g]
             = Out(Account(OwnerOf(s, ReservesOf(s)[g])), "policy", Remaining(utxo, s, g))
      /\ outs[1 + T + G + 1] = Out(MinerFee, "policy", BurnFee(L, G))
  BY BurnPlaces DEF IsBurnOf
<1>2. L \in Nat /\ G \in Nat \ {0} /\ T \in Nat /\ DOMAIN ReservesOf(s) = 1 .. G
  BY RowsTypedIs, EachReserve, BurnOutputsAre
<1>3. BurnFee(L, G) \in Nat
  BY <1>2, BurnFeeType
<1>4. \A g \in 1 .. G : Remaining(utxo, s, g) \in Nat /\ Remaining(utxo, s, g) > 0
  <2> TAKE g \in 1 .. G
  <2>1. utxo[ReservesOf(s)[g]] \in Int
    BY <1>2, EachReserve
  <2>2. FeeShare(BurnFee(L, G), G, g) \in Int
    BY <1>2, <1>3, SharesAre
  <2>3. Remaining(utxo, s, g) > 0
    BY <1>2 DEF Covered
  <2> QED BY <2>1, <2>2, <2>3 DEF Remaining
<1>5. \A k \in 1 .. T : \E kind : BurnOutputs(s)[k] = Out(OpReturn, kind, Sum(Held(s, kind)))
  <2>1. DOMAIN BurnOutputs(s) = 1 .. T
    BY BurnOutputsAre
  <2> HIDE DEF T
  <2> QED BY <2>1, BurnOutputsAre, ZenonT(40)
<1>6. \A kind : Sum(Held(s, kind)) \in Nat
  <2> TAKE kind
  <2>1. /\ Held(s, kind) \in Seq(Int) /\ Len(Held(s, kind)) = L
        /\ \A k \in 1 .. L : Held(s, kind)[k] = IF s[k].kind = kind THEN s[k].amount ELSE 0
    BY HeldIs
  <2>2. \A k \in 1 .. L : s[k].amount \in Nat
    BY RowsTypedIs DEF Ordered
  <2>3. Held(s, kind) \in Seq(Nat)
    BY <2>1, <2>2
  <2> QED BY <2>3, SumGrows
<1> HIDE DEF outs, T, G, L
<1>7. Fits(outs[1])
  BY <1>1 DEF EyeOut, Eye, Out, IsOut
<1>8. \A k \in 1 .. T : Fits(outs[1 + k])
  <2>1. \A kind : \A a \in Nat : Fits(Out(OpReturn, kind, a))
    BY DEF OpReturn, Out, IsOut
  <2> HIDE DEF Fits
  <2> QED BY <1>1, <1>5, <1>6, <2>1
<1>9. \A g \in 1 .. G : Fits(outs[1 + T + g])
  <2>1. \A to : \A a \in Nat : a > 0 => Fits(Out(to, "policy", a))
    BY DEF Out, IsOut
  <2> HIDE DEF Fits
  <2> QED BY <1>1, <1>4, <2>1
<1>10. Fits(outs[1 + T + G + 1])
  BY <1>1, <1>3 DEF MinerFee, Out, IsOut
<1>11. \A k \in 1 .. 1 + T + G + 1 :
         \/ k = 1 \/ k = 1 + T + G + 1
         \/ k - 1 \in 1 .. T /\ k = 1 + (k - 1)
         \/ k - (1 + T) \in 1 .. G /\ k = 1 + T + (k - (1 + T))
  <2>1. G \in Nat /\ T \in Nat
    BY <1>2
  <2> QED BY <2>1
<1>12. DOMAIN outs = 1 .. 1 + T + G + 1
  BY <1>1, IsSeqProperties
<1> HIDE DEF Fits
<1>13. \A k \in DOMAIN outs : Fits(outs[k])
  BY <1>7, <1>8, <1>9, <1>10, <1>11, <1>12
<1> QED BY <1>13 DEF Solvent, AmountsAre, Whole, Fits, outs

(***************************************************************************)
(* What is signed is exact: both searches keep their bounds, the rows keep *)
(* their order, and what a leader chose to burn can be burned.             *)
(***************************************************************************)
CanBurn(s) ==
  /\ s # <<>> /\ RowsTyped(s) /\ Ordered(s) /\ Len(s) <= MaxItems
  /\ ToSet(s) \subseteq ToSet(rows) /\ Covered(utxo, s)
RowsFit ==
  /\ Ordered(rows) /\ Len(rows) <= MaxItems
  /\ {rows[k].reserve : k \in DOMAIN rows} \subseteq DOMAIN utxo
BestBurns ==
  /\ pc = "burn" => (search.lo = 1 /\ search.best = <<>>) \/ CanBurn(search.best)
  /\ pc \in {"fire", "sign burn"} => CanBurn(search.best)
AsAsked == pc = "sign" /\ wrong = 0 => tx = Issuance(search.best, Now, Branch)
TxHolds == AmountsAre(tx) /\ Whole(tx) /\ wrong \in Nat /\ (wrong = 0 => Solvent(tx))

ExactInv == SignedInv /\ BoundsHold /\ RowsFit /\ BestBurns /\ AsAsked /\ TxHolds

(* A candidate of a burn has no more groups than its limit. *)
LEMMA GroupsCount ==
  ASSUME RowsTyped(rows), NEW n \in Nat, GroupsOf(n) # <<>>
  PROVE  Len(ReservesOf(GroupsOf(n))) \in Nat \ {0} /\ Len(ReservesOf(GroupsOf(n))) <= n
<1> DEFINE R == ReserveSet(rows)
           P == {k \in DOMAIN rows : /\ rows[k].reserve \notin busy
                                     /\ Age(rows[k].reserve) <= n}
           taken == GroupsOf(n)
           Low == {x \in R : RankIn(R, x) <= n}
<1>1. R \in SUBSET Nat /\ IsFiniteSet(R) /\ Cardinality(R) \in Nat
  BY RowsTypedIs, ReservesAre
<1>2. taken = Picked(rows)[P] /\ P \in SUBSET DOMAIN rows
  BY DEF GroupsOf
<1>3. \A x : Age(x) = RankIn(R, x)
  BY DEF Age, RankIn, ReserveSet
<1>4. RowsTyped(taken) /\ ToSet(taken) = {rows[k] : k \in P}
  <2> HIDE DEF P, taken
  <2>1. rows \in Seq(ToSet(rows))
    BY RowsTypedIs
  <2>2. ToSet(Picked(rows)[P]) = {rows[k] : k \in P}
    BY <1>2, <2>1, PickedIs, ZenonT(40)
  <2>3. ToSet(taken) = {rows[k] : k \in P}
    BY <1>2, <2>2
  <2> QED BY <1>2, <2>3, PickedTyped
<1>5. ReserveSet(taken) \subseteq Low
  <2>1. R = {rows[k].reserve : k \in DOMAIN rows}
    BY DEF ReserveSet, ToSet
  <2>2. \A k \in P : k \in DOMAIN rows /\ RankIn(R, rows[k].reserve) <= n
    BY <1>3
  <2> HIDE DEF P, taken, R
  <2> QED BY <1>4, <2>1, <2>2 DEF ReserveSet
<1> HIDE DEF R, taken
<1>6. IsFiniteSet(Low) /\ Cardinality(Low) \in Nat /\ Cardinality(Low) <= n
  <2>1. IsFiniteSet(Low)
    BY <1>1, FS_Subset
  <2>2. Cardinality(Low) = IF n <= Cardinality(R) THEN n ELSE Cardinality(R)
    BY <1>1, LowestAre
  <2> HIDE DEF Low
  <2> QED BY <1>1, <2>1, <2>2
<1>7. Cardinality(ReserveSet(taken)) <= Cardinality(Low)
  <2> HIDE DEF Low
  <2> QED BY <1>5, <1>6, FS_Subset
<1>8. /\ Len(ReservesOf(taken)) \in Nat /\ taken # <<>> => Len(ReservesOf(taken)) # 0
      /\ Len(ReservesOf(taken)) = Cardinality(ReserveSet(taken))
  BY <1>4, EachReserve, RowsTypedIs, ReservesAre
<1> HIDE DEF Low
<1> QED BY <1>6, <1>7, <1>8 DEF taken

(* How a search goes on. *)
LEMMA NarrowBounds ==
  ASSUME BoundsHold, NEW lo \in Nat \ {0}, NEW hi \in Int, hi <= MaxLimit, NEW best, NEW next,
         Narrow(lo, hi, best, next)
  PROVE  /\ BoundsHold'
         /\ \/ pc' = pc /\ search'.lo = lo /\ search'.best = best
            \/ pc' = "trapped"
            \/ pc' = next /\ lo > hi /\ search'.best = best
<1>1. CASE lo <= hi
  <2>1. hi \in Nat /\ lo + (hi - lo) \div 2 \in lo .. hi
    BY <1>1, Middle
  <2> DEFINE lim == lo + (hi - lo) \div 2
  <2>2. lim \in Nat /\ lo <= lim /\ lim <= hi
    BY <2>1
  <2>3. search' = [lo |-> lo, hi |-> hi, best |-> best, lim |-> lim] /\ pc' = pc
    BY <1>1 DEF Narrow
  <2> HIDE DEF lim
  <2> QED BY <2>1, <2>2, <2>3 DEF BoundsHold
<1>2. CASE lo > hi
  <2>1. /\ search' = [search EXCEPT !.best = IF Checked THEN @ ELSE best]
        /\ pc' = IF Checked THEN "trapped" ELSE next
    BY <1>2 DEF Narrow
  <2>2. BoundsHold' /\ (~Checked => search'.best = best)
    BY <2>1 DEF BoundsHold
  <2> QED BY <1>2, <2>1, <2>2
<1> QED BY <1>1, <1>2

LEMMA SettleBounds ==
  ASSUME BoundsHold, NEW taken, NEW next, Settle(taken, next)
  PROVE  BoundsHold' /\ search'.best = taken /\ pc' = IF taken = <<>> THEN "done" ELSE next
BY DEF Settle, BoundsHold

LEMMA WeighBounds ==
  ASSUME BoundsHold, NEW count \in Nat \ {0}, count <= search.lim, NEW taken, taken # <<>>,
         NEW weight, NEW next, Weigh(taken, count, weight, next)
  PROVE  /\ BoundsHold'
         /\ \/ search'.best = taken /\ pc' \in {pc, next}
            \/ pc' = "trapped"
            \/ pc' = pc /\ search'.lo = search.lo /\ search'.best = search.best
            \/ /\ pc' = next /\ search.lo > count - 1 /\ search'.best = search.best
               /\ weight > LaneWeight
<1>1. \/ Settle(taken, next)
      \/ Narrow(count + 1, search.hi, taken, next)
      \/ weight > LaneWeight /\ Narrow(search.lo, count - 1, search.best, next)
  BY DEF Weigh, Below
<1>2. /\ search.lo \in Nat \ {0} /\ search.hi \in Int /\ search.hi <= MaxLimit
      /\ count + 1 \in Nat \ {0} /\ count - 1 \in Int /\ count - 1 <= MaxLimit
  BY LimitAssumption DEF BoundsHold
<1>3. CASE Settle(taken, next)
  BY <1>3, SettleBounds
<1>4. CASE Narrow(count + 1, search.hi, taken, next)
  BY <1>2, <1>4, NarrowBounds
<1>5. CASE weight > LaneWeight /\ Narrow(search.lo, count - 1, search.best, next)
  BY <1>2, <1>5, NarrowBounds
<1> QED BY <1>1, <1>3, <1>4, <1>5

LEMMA FreshBounds == ASSUME search' = Fresh PROVE BoundsHold'
BY LimitAssumption DEF Fresh, BoundsHold

LEMMA ChooseBounds ==
  ASSUME pending \in Seq(Batches), BoundsHold, Choose
  PROVE  BoundsHold'
<1> DEFINE taken == Prefix(search.lim)
<1>1. search.lim \in Nat \ {0}
  BY DEF BoundsHold
<1>2. Len(taken) \in Nat /\ Len(taken) <= search.lim /\ (taken # <<>> => Len(taken) # 0)
  <2>1. PICK n \in 0 .. Len(pending) :
          taken = SubSeq(pending, 1, n) /\ Len(taken) = n /\ n <= search.lim
    BY <1>1, PrefixIs
  <2>2. n \in Nat
    OBVIOUS
  <2>3. n = 0 => taken = <<>>
    BY <2>1
  <2> HIDE DEF taken
  <2> QED BY <2>1, <2>2, <2>3
<1>3. \/ Settle(search.best, "propose")
      \/ search' = Fresh
      \/ taken # <<>> /\ Weigh(taken, Len(taken), IssuanceWeight(taken), "propose")
  BY DEF Choose
<1> HIDE DEF taken
<1> QED BY <1>2, <1>3, SettleBounds, FreshBounds, WeighBounds

LEMMA ChooseBurnExact ==
  ASSUME RowsTyped(rows), RowsFit, BoundsHold, BestBurns, ChooseBurn
  PROVE  BoundsHold' /\ BestBurns'
<1> DEFINE taken == GroupsOf(search.lim)
           count == Len(ReservesOf(taken))
           weight == BurnWeight(taken)
           best == search.best
<1>1. /\ pc = "burn" /\ UNCHANGED <<rows, utxo>>
      /\ search.lo \in Nat \ {0} /\ search.lim \in Nat \ {0} /\ search.hi \in Nat
      /\ search.lim <= MaxLimit
  BY LimitAssumption DEF ChooseBurn, BoundsHold
<1>2. (search.lo = 1 /\ best = <<>>) \/ CanBurn(best)
  BY <1>1 DEF BestBurns
<1>3. taken # <<>> => count \in Nat \ {0} /\ count <= search.lim
  BY <1>1, GroupsCount
<1>4. taken # <<>> /\ Covered(utxo, taken) => CanBurn(taken)
  <2> DEFINE P == {k \in DOMAIN rows : /\ rows[k].reserve \notin busy
                                       /\ Age(rows[k].reserve) <= search.lim}
  <2>1. taken = Picked(rows)[P] /\ P \in SUBSET DOMAIN rows
    BY DEF GroupsOf
  <2> HIDE DEF P, taken
  <2>2. /\ Ordered(taken) /\ Len(taken) <= Len(rows) /\ RowsTyped(taken)
        /\ ToSet(taken) \subseteq ToSet(rows)
    BY <2>1, PickedOrdered DEF RowsFit
  <2>3. Len(taken) <= MaxItems
    <3>1. Len(taken) \in Nat /\ Len(rows) \in Nat /\ MaxItems \in Nat /\ Len(rows) <= MaxItems
      BY <2>2, RowsTypedIs, WeightAssumption DEF RowsFit
    <3> QED BY <2>2, <3>1
  <2> QED BY <2>2, <2>3 DEF CanBurn
<1>5. ASSUME NEW s, CanBurn(s), search'.best = s PROVE BestBurns'
  BY <1>1, <1>5 DEF BestBurns, CanBurn
<1>6. ASSUME search'.lo = search.lo, search'.best = best, pc' = "burn" PROVE BestBurns'
  <2>1. CASE CanBurn(best)
    BY <1>5, <1>6, <2>1
  <2>2. CASE search.lo = 1 /\ best = <<>>
    BY <1>6, <2>2 DEF BestBurns
  <2> QED BY <1>2, <2>1, <2>2
<1>7. pc' \notin {"burn", "fire", "sign burn"} => BestBurns'
  BY DEF BestBurns
<1> HIDE DEF taken, count, weight, best
<1>8. CASE /\ taken = <<>> /\ pc' = (IF best = <<>> THEN "live" ELSE "fire") /\ UNCHANGED search
  <2>1. BoundsHold'
    BY <1>8 DEF BoundsHold
  <2> QED BY <1>2, <1>5, <1>7, <1>8, <2>1 DEF best
<1>9. CASE /\ taken # <<>> /\ ~Covered(utxo, taken)
           /\ IF search.lim > 1 THEN Narrow(search.lo, search.lim - 1, best, "fire")
              ELSE pc' = "live" /\ UNCHANGED search
  <2>1. CASE pc' = "live" /\ UNCHANGED search
    BY <1>7, <2>1 DEF BoundsHold
  <2>2. CASE search.lim > 1 /\ Narrow(search.lo, search.lim - 1, best, "fire")
    <3>1. search.lim - 1 \in Int /\ search.lim - 1 <= MaxLimit
      BY <1>1, LimitAssumption
    <3>2. /\ BoundsHold'
          /\ \/ pc' = pc /\ search'.lo = search.lo /\ search'.best = best
             \/ pc' = "trapped"
             \/ pc' = "fire" /\ search.lo > search.lim - 1 /\ search'.best = best
      BY <1>1, <2>2, <3>1, NarrowBounds
    <3>3. search.lo > search.lim - 1 => search.lo # 1
      BY <1>1, <2>2
    <3> QED BY <1>1, <1>2, <1>5, <1>6, <1>7, <3>2, <3>3
  <2> QED BY <1>9, <2>1, <2>2
<1>10. CASE taken # <<>> /\ Covered(utxo, taken) /\ Settle(taken, "fire")
  BY <1>4, <1>5, <1>10, SettleBounds
<1>11. CASE /\ taken # <<>> /\ Covered(utxo, taken) /\ ~(count = 1 /\ weight > LaneWeight)
            /\ Weigh(taken, count, weight, "fire")
  <2>1. /\ BoundsHold'
        /\ \/ search'.best = taken /\ pc' \in {pc, "fire"}
           \/ pc' = "trapped"
           \/ pc' = pc /\ search'.lo = search.lo /\ search'.best = search.best
           \/ /\ pc' = "fire" /\ search.lo > count - 1 /\ search'.best = search.best
              /\ weight > LaneWeight
    BY <1>3, <1>11, WeighBounds
  <2>2. search.lo > count - 1 /\ weight > LaneWeight => search.lo # 1
    BY <1>1, <1>3, <1>11
  <2>3. search.best = best
    BY DEF best
  <2> QED BY <1>1, <1>2, <1>4, <1>5, <1>6, <1>7, <1>11, <2>1, <2>2, <2>3
<1> QED BY <1>8, <1>9, <1>10, <1>11 DEF ChooseBurn, taken, count, weight, best

LEMMA ExactInit == InitRounds => ExactInv
<1> SUFFICES ASSUME InitRounds PROVE ExactInv
  OBVIOUS
<1>1. /\ pc = "choose" /\ search = Fresh /\ tx.outputs = <<>> /\ wrong = 0
      /\ rows = <<>>
  BY DEF InitRounds
<1>2. BoundsHold
  BY <1>1, LimitAssumption DEF BoundsHold, Fresh
<1>3. RowsFit
  <2>1. DOMAIN rows = {} /\ Len(rows) = 0
    BY <1>1
  <2> QED BY <2>1, WeightAssumption DEF RowsFit, Ordered
<1>4. TxHolds
  <2>1. DOMAIN tx.outputs = {}
    BY <1>1
  <2> QED BY <1>1, <2>1 DEF TxHolds, AmountsAre, Whole, Solvent
<1> QED BY <1>1, <1>2, <1>3, <1>4, SignedInit DEF ExactInv, BestBurns, AsAsked

LEMMA ExactStep ==
  ASSUME ExactInv, [NextRounds]_roundsVars
  PROVE  ExactInv'
<1>1. SignedInv'
  BY SignedStep DEF ExactInv
<1>2. /\ BoundsHold /\ RowsFit /\ BestBurns /\ AsAsked /\ TxHolds
      /\ BestAsked /\ IsSigned /\ RoundsInv /\ IsTx(tx) /\ RowsTyped(rows) /\ UtxoIs
      /\ pending \in Seq(Batches)
  BY DEF ExactInv, SignedInv, BurnsInv, RoundsInv
<1>3. ASSUME UNCHANGED <<rows, utxo>> PROVE RowsFit' /\ \A s : CanBurn(s) => CanBurn(s)'
  BY <1>2, <1>3 DEF RowsFit, CanBurn
<1>4. UNCHANGED search => BoundsHold'
  BY <1>2 DEF BoundsHold
<1>5. UNCHANGED <<tx, wrong>> => TxHolds'
  BY <1>2 DEF TxHolds
<1>6. pc' \notin {"burn", "fire", "sign burn"} => BestBurns'
  BY DEF BestBurns
<1>7. pc' # "sign" => AsAsked'
  BY DEF AsAsked
<1>8. CASE Choose
  <2>1. BoundsHold'
    BY <1>2, <1>8, ChooseBounds
  <2>2. UNCHANGED <<tx, wrong, rows, utxo>> /\ pc' \in {"choose", "propose", "done", "trapped"}
    BY <1>2, <1>8, ChooseStep DEF RoundsInv, Choose
  <2> QED BY <1>1, <1>3, <1>5, <1>6, <1>7, <2>1, <2>2 DEF ExactInv
<1>9. CASE Propose
  <2>1. /\ UNCHANGED <<search, wrong, rows, utxo>> /\ pc = "propose" /\ pc' = "sign"
        /\ tx' = Issuance(search.best, Now, Branch)
    BY <1>9 DEF Propose
  <2>2. Asked(search.best)
    BY <1>2, <2>1 DEF BestAsked
  <2>3. Solvent(Issuance(search.best, Now, Branch))
    BY <2>2, IssuanceHolds
  <2>4. TxHolds'
    BY <1>2, <2>1, <2>3 DEF TxHolds, Solvent
  <2>5. AsAsked'
    BY <2>1 DEF AsAsked
  <2> QED BY <1>1, <1>3, <1>4, <1>6, <2>1, <2>4, <2>5 DEF ExactInv
<1>10. ASSUME NEW clock \in Clocks, Sign(clock) PROVE ExactInv'
  <2>1. UNCHANGED <<search, tx, wrong, rows, utxo>> /\ pc' \in {"signed", "refused"}
    BY <1>10 DEF Sign
  <2> QED BY <1>1, <1>3, <1>4, <1>5, <1>6, <1>7, <2>1 DEF ExactInv
<1>11. CASE IndexIssuance
  <2> DEFINE read == Rows(tx)
             best == search.best
  <2>1. /\ UNCHANGED <<search, tx, wrong>> /\ pc = "signed" /\ pc' \in {"live", "stopped"}
        /\ \/ UNCHANGED <<rows, utxo>>
           \/ /\ rows' = read
              /\ utxo' = [k \in {read[i].reserve : i \in DOMAIN read} |-> tx.outputs[k].amount]
    BY <1>11 DEF IndexIssuance
  <2>2. Asked(best) /\ Len(Issued(best)) <= MaxItems
    BY <1>2, <2>1 DEF BestAsked
  <2>3. PICK clock \in Clocks : ValidIssuance(tx, best, clock, Branch)
    BY <1>2, <2>1 DEF IsSigned
  <2> HIDE DEF best
  <2>4. IsLaidOut(tx, best)
    BY <1>2, <2>2, <2>3, SignedOutputs DEF TxHolds
  <2>5. Ordered(read) /\ Len(read) <= MaxItems
    BY <1>2, <2>2, <2>4, SignedOrdered
  <2> HIDE DEF read
  <2>6. RowsFit'
    <3>1. CASE UNCHANGED <<rows, utxo>>
      BY <1>3, <3>1
    <3>2. CASE /\ rows' = read
               /\ utxo' = [k \in {read[i].reserve : i \in DOMAIN read} |-> tx.outputs[k].amount]
      BY <2>5, <3>2 DEF RowsFit
    <3> QED BY <2>1, <3>1, <3>2
  <2> QED BY <1>1, <1>4, <1>5, <1>6, <1>7, <2>1, <2>6 DEF ExactInv
<1>12. ASSUME NEW P \in SUBSET DOMAIN rows, rows' = Picked(rows)[P], utxo' = utxo
       PROVE  RowsFit'
  <2>1. /\ Ordered(rows') /\ Len(rows') <= Len(rows) /\ RowsTyped(rows')
        /\ ToSet(rows') \subseteq ToSet(rows)
    BY <1>2, <1>12, PickedOrdered DEF RowsFit
  <2>2. Len(rows') <= MaxItems
    <3>1. Len(rows') \in Nat /\ Len(rows) \in Nat /\ MaxItems \in Nat /\ Len(rows) <= MaxItems
      BY <1>2, <2>1, RowsTypedIs, WeightAssumption DEF RowsFit
    <3> QED BY <2>1, <3>1
  <2>3. {rows'[k].reserve : k \in DOMAIN rows'} \subseteq DOMAIN utxo
    BY <1>2, <2>1 DEF RowsFit, ToSet
  <2> QED BY <1>12, <2>1, <2>2, <2>3 DEF RowsFit
<1>13. ASSUME NEW spent, NEW taken, Expire(spent, taken) PROVE ExactInv'
  <2> DEFINE P == {k \in DOMAIN rows : rows[k].out \notin spent}
  <2>1. /\ UNCHANGED <<tx, wrong, utxo>> /\ pc' \in {"done", "burn"} /\ search' = Fresh
        /\ rows' = Picked(rows)[P] /\ P \in SUBSET DOMAIN rows
    BY <1>13 DEF Expire
  <2> HIDE DEF P
  <2>2. RowsFit'
    BY <1>12, <2>1
  <2>3. BestBurns'
    BY <2>1 DEF BestBurns, Fresh
  <2> QED BY <1>1, <1>5, <1>7, <2>1, <2>2, <2>3, FreshBounds DEF ExactInv
<1>14. CASE ChooseBurn
  <2>1. BoundsHold' /\ BestBurns'
    BY <1>2, <1>14, ChooseBurnExact
  <2>2. UNCHANGED <<tx, wrong, rows, utxo>> /\ pc' \in {"burn", "live", "fire", "done", "trapped"}
    BY <1>14 DEF ChooseBurn, Narrow, Settle, Weigh
  <2> QED BY <1>1, <1>3, <1>5, <1>7, <2>1, <2>2 DEF ExactInv
<1>15. CASE Fire
  <2>1. /\ UNCHANGED <<search, wrong, rows, utxo>> /\ pc = "fire" /\ pc' = "sign burn"
        /\ tx' = BurnOf(utxo, search.best)
    BY <1>15 DEF Fire
  <2>2. CanBurn(search.best)
    BY <1>2, <2>1 DEF BestBurns
  <2>3. BestBurns'
    BY <1>3, <2>1, <2>2 DEF BestBurns
  <2>4. Solvent(BurnOf(utxo, search.best))
    <3>1. \A r \in ToSet(search.best) : utxo[r.reserve] \in Int
      BY <1>2, <2>2 DEF CanBurn, UtxoIs
    <3> QED BY <2>2, <3>1, BurnHolds DEF CanBurn
  <2>5. TxHolds'
    BY <1>2, <2>1, <2>4 DEF TxHolds, Solvent
  <2> QED BY <1>1, <1>3, <1>4, <1>7, <2>1, <2>3, <2>5 DEF ExactInv
<1>16. CASE SignBurn
  <2>1. UNCHANGED <<search, tx, wrong, rows, utxo>> /\ pc' \in {"burned", "live"}
    BY <1>16 DEF SignBurn
  <2> QED BY <1>1, <1>3, <1>4, <1>5, <1>6, <1>7, <2>1 DEF ExactInv
<1>17. CASE Burned
  <2> DEFINE spent == {tx.inputs[k].from : k \in DOMAIN tx.inputs}
             P == {k \in DOMAIN rows : <<"out", rows[k].out>> \notin spent}
  <2>1. /\ UNCHANGED <<search, tx, wrong, utxo>> /\ pc' \in {"done", "live"}
        /\ rows' = Picked(rows)[P] /\ P \in SUBSET DOMAIN rows
    BY <1>17 DEF Burned
  <2> HIDE DEF P
  <2>2. RowsFit'
    BY <1>12, <2>1
  <2> QED BY <1>1, <1>4, <1>5, <1>6, <1>7, <2>1, <2>2 DEF ExactInv
<1>18. ASSUME NEW t \in Near(tx), LayOutOtherwise(t) PROVE ExactInv'
  <2>1. /\ UNCHANGED <<pc, search, rows, utxo>> /\ pc \in {"sign", "sign burn"}
        /\ tx' = t /\ wrong' = wrong + 1
    BY <1>18 DEF LayOutOtherwise
  <2>2. AmountsAre(t) /\ Whole(t)
    BY <1>2, NearTyped DEF TxHolds
  <2>3. wrong' \in Nat /\ wrong' # 0
    <3>1. wrong \in Nat /\ wrong' = wrong + 1
      BY <1>2, <2>1 DEF TxHolds
    <3> QED BY <3>1
  <2>4. TxHolds' /\ AsAsked'
    BY <2>1, <2>2, <2>3 DEF TxHolds, AsAsked
  <2>5. BestBurns'
    BY <1>2, <1>3, <2>1 DEF BestBurns
  <2> QED BY <1>1, <1>3, <1>4, <2>1, <2>4, <2>5 DEF ExactInv
<1>19. CASE UNCHANGED roundsVars
  <2>1. UNCHANGED <<pc, search, tx, wrong, rows, utxo>>
    BY <1>19 DEF roundsVars
  <2>2. BestBurns' /\ AsAsked'
    BY <1>2, <1>3, <2>1 DEF BestBurns, AsAsked
  <2> QED BY <1>1, <1>3, <1>4, <1>5, <2>1, <2>2 DEF ExactInv
<1> QED BY <1>8, <1>9, <1>10, <1>11, <1>13, <1>14, <1>15, <1>16, <1>17, <1>18, <1>19
     DEF NextRounds, Round

LEMMA ExactInvTypes == ASSUME ExactInv PROVE TypeOKRounds
<1>1. /\ search.lo \in Nat \ {0} /\ search.lim \in Nat /\ search.hi \in Nat
      /\ search.lo <= search.lim /\ search.lim <= search.hi /\ search.hi <= MaxLimit
      /\ MaxLimit \in Nat
  BY LimitAssumption DEF ExactInv, BoundsHold
<1>2. search.lo \in 1 .. MaxLimit + 1 /\ search.lim \in 1 .. MaxLimit
  BY <1>1
<1>3. pending \in Seq(Batches) /\ TxHolds /\ RowsFit
  BY DEF ExactInv, SignedInv, BurnsInv, RoundsInv
<1> QED BY <1>2, <1>3 DEF TypeOKRounds, TxHolds, RowsFit, Whole, Solvent

LEMMA ExactInvImplies == ASSUME ExactInv PROVE SigningIsExact
<1>1. /\ BestBurns /\ AsAsked /\ RowsFit /\ BestAsked /\ RowsTyped(rows) /\ SignedInv
  BY DEF ExactInv, SignedInv, BurnsInv
<1>2. pc = "sign" /\ wrong = 0 => ValidIssuance(tx, search.best, Now, Branch)
  BY <1>1, IssuanceIsValid DEF AsAsked, BestAsked
<1>3. pc = "sign burn" /\ tx = BurnOf(utxo, search.best) => ValidBurn(tx, rows, utxo)
  <2> SUFFICES ASSUME pc = "sign burn", tx = BurnOf(utxo, search.best) PROVE ValidBurn(tx, rows, utxo)
    OBVIOUS
  <2>1. CanBurn(search.best)
    BY <1>1 DEF BestBurns
  <2> QED BY <1>1, <2>1, BurnIsValid DEF CanBurn, RowsFit
<1>4. pc # "stopped" /\ (pc = "signed" => ReadsAs(tx, search.best))
  BY <1>1, SignedInvReads
<1> QED BY <1>2, <1>3, <1>4, ExactInvTypes DEF SigningIsExact, ReadsAs

(* The members sign what the coordinator and the leader lay out, if their   *)
(* clocks agree; and whatever they sign, however it was laid out, the index *)
(* of no node stops at it and reads from it what the users asked for, each  *)
(* item with a reserve of its own account that holds what burns it          *)
(* (validate_execute_request, validate_accounting_outputs, validate_layout, *)
(* indexed_issued_outputs).                                                 *)
THEOREM SigningSafety == SpecRounds => []SigningIsExact
<1>1. InitRounds => ExactInv
  BY ExactInit
<1>2. ExactInv /\ [NextRounds]_roundsVars => ExactInv'
  BY ExactStep
<1>3. ExactInv => SigningIsExact
  BY ExactInvImplies
<1> QED BY <1>1, <1>2, <1>3, PTL DEF SpecRounds
=============================================================================
