------------------------------- MODULE Voting -------------------------------
(***************************************************************************)
(* Votes on changes of the network (high-storm/src/high_storm/voting.rs    *)
(* and the table behind it, high-storm/src/db/voting.rs).                  *)
(*                                                                         *)
(* A member proposes a request, signed with the height at which it was     *)
(* made; the others store it under the height at which they heard of it.   *)
(* Operators approve; each node counts the approvals it has seen and notes *)
(* the height at which they became enough.  Every ten seconds a node asks  *)
(* its peers for what it missed.  What times out is deleted by each node   *)
(* on its own, by the height that node has indexed.                        *)
(*                                                                         *)
(* A vote is identified by the hash of its message, here the message       *)
(* itself.  Signatures are symbolic: an approval exists once its operator  *)
(* gave it.  The requests are Storm Eye reshapes, valid for every          *)
(* membership.                                                             *)
(***************************************************************************)
EXTENDS Naturals, FiniteSets

CONSTANTS
  Node,          \* the members
  Request,       \* what can be voted on, by its canonical hash
  Proposer,      \* the members whose operators propose
  Executor,      \* bound: the members whose executions are considered
  Timeout,       \* VOTING_TIMEOUT_BLOCKS
  MaxFuture,     \* MAX_PROPOSAL_FUTURE_BLOCKS
  MaxActive,     \* MAX_ACTIVE_VOTINGS_PER_PROPOSER
  Start,         \* the height of the chain at the start
  MaxHeight,     \* bound: the height the chain grows to
  MaxProposals,  \* bound: votes proposed in a behaviour
  MaxRestarts,   \* bound: restarts in a behaviour
  MaxInFlight,   \* bound: messages on their way at the same time
  NotYet         \* approved_at_block_height IS NULL

ASSUME MemberAssumption == /\ IsFiniteSet(Node) /\ Node # {}
                           /\ Proposer \subseteq Node /\ Executor \subseteq Node
ASSUME HeightAssumption == /\ Timeout \in Nat \ {0}
                           /\ MaxFuture \in Nat
                           /\ MaxActive \in Nat
                           /\ Start \in Nat
                           /\ MaxHeight \in Nat
                           /\ MaxProposals \in Nat
                           /\ MaxRestarts \in Nat
                           /\ MaxInFlight \in Nat
                           /\ NotYet \notin Nat

(* A signed proposal: its subject, its proposer and the height it names. *)
Vote == [request : Request, proposer : Node, created : Nat]

(* How far the execution of a stored vote has come: the columns            *)
(* execution_started, execution_txid and execution_confirmed.              *)
Execution == {"none", "started", "broadcast", "confirmed"}

(* A row of voting_requests with its approvals. *)
Row == [height : Nat, approvals : SUBSET Node, approvedAt : Nat \cup {NotYet},
        execution : Execution]

(* A table that holds some of the votes in P. *)
IsTable(store, P) == /\ DOMAIN store \subseteq P
                     /\ store \in [DOMAIN store -> Row]

(* What is on its way to a node.  The answer to a question about votings   *)
(* is one record per vote, which its receiver handles one by one.          *)
Message == [kind : {"request"}, to : Node, vote : Vote]
             \cup [kind : {"approval"}, to : Node, vote : Vote, by : Node]
             \cup [kind : {"ask"}, to : Node, from : Node]
             \cup [kind : {"record"}, to : Node, from : Node, vote : Vote,
                   approvals : SUBSET Node]

VARIABLES
  tip,        \* the height of the chain
  height,     \* height[n]: NetworkState.block_height of n
  votes,      \* votes[n]: the voting_requests table of n, by vote
  net,        \* messages on their way
  proposed,   \* history: the votes that were proposed
  approvers,  \* history: <<n, v>> when n's operator approved v
  restarts    \* restarts so far

vars == <<tip, height, votes, net, proposed, approvers, restarts>>

Others(n) == Node \ {n}

(* The messages that are sent and not lost join those on their way. *)
Send(waiting, sent) ==
  \E kept \in SUBSET sent : /\ Cardinality(waiting \cup kept) <= MaxInFlight
                            /\ net' = waiting \cup kept

-----------------------------------------------------------------------------
(* The table of one node. *)

(* Variant for sensitivity checking: half of the members suffices. *)
HalfOfMembers(count) == count \div 2

(* Two thirds of the members, rounded up. *)
RequiredApprovals(count) == (count * 2 + 2) \div 3

Approved(row) == row.approvedAt # NotYet

(* The height from which a vote times out. *)
TimeoutStart(row) == IF Approved(row) THEN row.approvedAt ELSE row.height

TimedOut(row, h) == TimeoutStart(row) + Timeout <= h

(* Variant for sensitivity checking: the last block of the term is lost. *)
DeletableEarly(row, h) ==
  /\ row.execution \in {"none", "confirmed"}
  /\ TimeoutStart(row) + Timeout <= h + 1

(* An execution that has started keeps its vote until it is confirmed. *)
Deletable(row, h) == /\ row.execution \in {"none", "confirmed"}
                     /\ TimedOut(row, h)

(* delete_expired: the rows that stay. *)
DeleteExpired(store, h) ==
  [v \in {w \in DOMAIN store : ~Deletable(store[w], h)} |-> store[v]]

Unconfirmed(store) == {v \in DOMAIN store : store[v].execution # "confirmed"}

(* Variant for sensitivity checking: looks at the age since reception. *)
RivalByReceipt(store, r, h) ==
  \E v \in Unconfirmed(store) : v.request = r /\ ~(store[v].height + Timeout <= h)

(* Another vote on the same request is running. *)
Rival(store, r, h) ==
  \E v \in Unconfirmed(store) : v.request = r /\ ~TimedOut(store[v], h)

Active(store, p) == {v \in Unconfirmed(store) : v.proposer = p}

(* Variant for sensitivity checking: one vote too many. *)
QuotaOffByOne(store, p) == Cardinality(Active(store, p)) > MaxActive

QuotaReached(store, p) == Cardinality(Active(store, p)) >= MaxActive

(* insert_request, which leaves a known vote alone. *)
Insert(store, v, h) ==
  IF v \in DOMAIN store THEN store
  ELSE [w \in DOMAIN store \cup {v} |->
          IF w = v THEN [height |-> h, approvals |-> {}, approvedAt |-> NotYet,
                         execution |-> "none"]
          ELSE store[w]]

(* ensure_unique_active_request on what delete_expired has left. *)
Admissible(store, v, h) == /\ ~Rival(store, v.request, h)
                           /\ ~QuotaReached(store, v.proposer)

(* Expired votes go first, whether or not the new one is then refused. *)
Admit(store, v, h) ==
  LET kept == DeleteExpired(store, h) IN
  IF Admissible(kept, v, h) THEN Insert(kept, v, h) ELSE kept

(* insert_approval of the members `by`: the height is noted when, for the  *)
(* first time, they are enough.                                            *)
InsertApprovals(row, by, h) ==
  LET all == row.approvals \cup by
      enough == Cardinality(all) >= RequiredApprovals(Cardinality(Node))
  IN [height |-> row.height, approvals |-> all,
      approvedAt |-> IF enough /\ ~Approved(row) THEN h ELSE row.approvedAt,
      execution |-> row.execution]

(* accept_approval: an approval of an unknown vote is refused. *)
AcceptApprovals(store, v, by, h) ==
  IF v \notin DOMAIN store THEN store
  ELSE [store EXCEPT ![v] = InsertApprovals(store[v], by, h)]

(* validate_proposal_height *)
TooEarly(v, h) == v.created > h + MaxFuture
TooOld(v, h) == v.created + Timeout <= h

(* Variant for sensitivity checking: approvals of a known vote are skipped. *)
AcceptNewOnly(store, m, h) ==
  LET kept == DeleteExpired(store, h) IN
  IF m.vote \in DOMAIN kept \/ TooOld(m.vote, h) \/ TooEarly(m.vote, h) THEN kept
  ELSE AcceptApprovals(Admit(kept, m.vote, h), m.vote, m.approvals, h)

(* accept_synchronized_request: nothing more is learnt of a confirmed vote, *)
(* an unknown one is stored if it is admissible, and then the approvals     *)
(* that came with it are counted.                                           *)
AcceptSynchronized(store, m, h) ==
  LET kept == DeleteExpired(store, h)
      v == m.vote
      known == v \in DOMAIN kept
      stored == IF known \/ TooOld(v, h) \/ TooEarly(v, h) THEN kept
                ELSE Admit(kept, v, h)
  IN IF known /\ kept[v].execution = "confirmed" THEN kept
     ELSE AcceptApprovals(stored, v, m.approvals, h)

-----------------------------------------------------------------------------
Init ==
  /\ tip = Start
  /\ height = [n \in Node |-> Start]
  /\ votes = [n \in Node |-> <<>>]
  /\ net = {}
  /\ proposed = {}
  /\ approvers = {}
  /\ restarts = 0

(* A block arrives. *)
NewBlock ==
  /\ tip < MaxHeight
  /\ tip' = tip + 1
  /\ UNCHANGED <<height, votes, net, proposed, approvers, restarts>>

(* The node indexes the chain up to its tip and publishes the height. *)
Index(n) ==
  /\ height[n] # tip
  /\ height' = [height EXCEPT ![n] = tip]
  /\ UNCHANGED <<tip, votes, net, proposed, approvers, restarts>>

(* The height is not persisted: it is 0 until the next indexing pass.      *)
(* What was on its way to the node is lost.                                *)
Restart(n) ==
  /\ restarts < MaxRestarts
  /\ restarts' = restarts + 1
  /\ height' = [height EXCEPT ![n] = 0]
  /\ net' = {m \in net : m.to # n}
  /\ UNCHANGED <<tip, votes, proposed, approvers>>

(* create: stored, then sent to the peers that can be reached.  A refused  *)
(* call leaves what RemoveExpired leaves.                                  *)
Create(n, r) ==
  LET v == [request |-> r, proposer |-> n, created |-> height[n]]
      kept == DeleteExpired(votes[n], height[n])
  IN /\ n \in Proposer
     /\ Cardinality(proposed) < MaxProposals
     /\ Admissible(kept, v, height[n])
     /\ v \notin DOMAIN kept
     /\ votes' = [votes EXCEPT ![n] = Insert(kept, v, height[n])]
     /\ proposed' = proposed \cup {v}
     /\ Send(net, {[kind |-> "request", to |-> p, vote |-> v] : p \in Others(n)})
     /\ UNCHANGED <<tip, height, approvers, restarts>>

(* approve: a second approval changes nothing here but is sent again. *)
Approve(n, v) ==
  /\ v \in DOMAIN votes[n]
  /\ votes' = [votes EXCEPT ![n] = AcceptApprovals(@, v, {n}, height[n])]
  /\ approvers' = approvers \cup {<<n, v>>}
  /\ Send(net, {[kind |-> "approval", to |-> p, vote |-> v, by |-> n] : p \in Others(n)})
  /\ UNCHANGED <<tip, height, proposed, restarts>>

HandleRequest(m) ==
  LET n == m.to
      refused == TooEarly(m.vote, height[n]) \/ TooOld(m.vote, height[n])
  IN /\ m.kind = "request"
     /\ votes' = IF refused THEN votes
                 ELSE [votes EXCEPT ![n] = Admit(@, m.vote, height[n])]
     /\ net' = net \ {m}
     /\ UNCHANGED <<tip, height, proposed, approvers, restarts>>

HandleApproval(m) ==
  /\ m.kind = "approval"
  /\ votes' = [votes EXCEPT ![m.to] = AcceptApprovals(@, m.vote, {m.by}, height[m.to])]
  /\ net' = net \ {m}
  /\ UNCHANGED <<tip, height, proposed, approvers, restarts>>

(* synchronize: every ten seconds the peers are asked for their votes.     *)
(* Bound: one exchange of a node with a peer at a time.                    *)
Synchronize(n, p) ==
  /\ p # n
  /\ ~\E m \in net : \/ m.kind = "ask" /\ m.to = p /\ m.from = n
                     \/ m.kind = "record" /\ m.to = n /\ m.from = p
  /\ Cardinality(net) < MaxInFlight
  /\ net' = net \cup {[kind |-> "ask", to |-> p, from |-> n]}
  /\ UNCHANGED <<tip, height, votes, proposed, approvers, restarts>>

(* handle_synchronization of a question: every vote that is not confirmed, *)
(* as far as the answer arrives.                                           *)
HandleAsk(m) ==
  LET n == m.to
      kept == DeleteExpired(votes[n], height[n])
      record(v) == [kind |-> "record", to |-> m.from, from |-> n, vote |-> v,
                    approvals |-> kept[v].approvals]
  IN /\ m.kind = "ask"
     /\ votes' = [votes EXCEPT ![n] = kept]
     /\ Send(net \ {m}, {record(v) : v \in Unconfirmed(kept)})
     /\ UNCHANGED <<tip, height, proposed, approvers, restarts>>

(* handle_synchronization of an answer, record by record. *)
HandleRecord(m) ==
  /\ m.kind = "record"
  /\ votes' = [votes EXCEPT ![m.to] = AcceptSynchronized(@, m, height[m.to])]
  /\ net' = net \ {m}
  /\ UNCHANGED <<tip, height, proposed, approvers, restarts>>

(* remove_expired, from the main loop. *)
RemoveExpired(n) ==
  /\ DeleteExpired(votes[n], height[n]) # votes[n]
  /\ votes' = [votes EXCEPT ![n] = DeleteExpired(@, height[n])]
  /\ UNCHANGED <<tip, height, net, proposed, approvers, restarts>>

(* The execution of a vote marks its row: start_execution,                 *)
(* cancel_execution, record_broadcast and confirm_execution with the       *)
(* conditions of their statements.  Which of them is called, and when, is  *)
(* for the execution to decide.                                            *)
MarkExecution(n, v, from, to) ==
  LET row == votes[n][v]
      marked == [height |-> row.height, approvals |-> row.approvals,
                 approvedAt |-> row.approvedAt, execution |-> to]
  IN /\ n \in Executor
     /\ v \in DOMAIN votes[n]
     /\ row.execution \in from
     /\ votes' = [votes EXCEPT ![n] = [votes[n] EXCEPT ![v] = marked]]
     /\ UNCHANGED <<tip, height, net, proposed, approvers, restarts>>

StartExecution(n, v) == /\ MarkExecution(n, v, {"none"}, "started")
                        /\ Approved(votes[n][v])
CancelExecution(n, v) == MarkExecution(n, v, {"started"}, "none")
RecordBroadcast(n, v) == /\ MarkExecution(n, v, {"none", "started"}, "broadcast")
                         /\ Approved(votes[n][v])
ConfirmExecution(n, v) == /\ MarkExecution(n, v, {"broadcast"}, "confirmed")
                          /\ Approved(votes[n][v])

Execute(n, v) == \/ StartExecution(n, v) \/ CancelExecution(n, v)
                 \/ RecordBroadcast(n, v) \/ ConfirmExecution(n, v)

Deliver(m) == HandleRequest(m) \/ HandleApproval(m) \/ HandleAsk(m) \/ HandleRecord(m)

Next ==
  \/ NewBlock
  \/ \E n \in Node : Index(n) \/ Restart(n) \/ RemoveExpired(n)
  \/ \E n \in Node, r \in Request : Create(n, r)
  \/ \E n \in Node : \E v \in DOMAIN votes[n] : Approve(n, v) \/ Execute(n, v)
  \/ \E n, p \in Node : Synchronize(n, p)
  \/ \E m \in net : Deliver(m)

Spec == Init /\ [][Next]_vars

-----------------------------------------------------------------------------
(* Types.  No node counts blocks that do not exist, and no vote is on its *)
(* way or stored that nobody proposed.                                    *)
TypeOK ==
  /\ tip \in Nat
  /\ height \in [Node -> 0 .. tip]
  /\ votes = [n \in Node |-> votes[n]]
  /\ \A n \in Node : IsTable(votes[n], proposed)
  /\ net \subseteq Message
  /\ \A m \in net : m.kind # "ask" => m.vote \in proposed
  /\ proposed \subseteq Vote
  /\ approvers \subseteq Node \X proposed
  /\ restarts \in Nat

(* Whatever a node heard directly, by synchronization or twice, a vote it  *)
(* holds for approved, and so may execute, was approved by the operators   *)
(* of two thirds of the members (required_approvals and insert_approval).  *)
ApprovedByQuorum ==
  \A n \in Node : \A v \in DOMAIN votes[n] :
    Approved(votes[n][v]) \/ votes[n][v].execution # "none" =>
      3 * Cardinality({p \in Node : <<p, v>> \in approvers}) >= 2 * Cardinality(Node)

(* Two votes on the same request never run side by side in one node, even *)
(* when one was renewed by its approval and the other came from a peer    *)
(* that never heard of it (ensure_unique_active_request).                 *)
OneLiveVote ==
  \A n \in Node : \A v, w \in Unconfirmed(votes[n]) :
    /\ v.request = w.request
    /\ ~TimedOut(votes[n][v], tip)
    /\ ~TimedOut(votes[n][w], tip)
    => v = w

(* No proposer occupies more than its share of a node's table, whichever  *)
(* way its votes arrive (MAX_ACTIVE_VOTINGS_PER_PROPOSER).                *)
ProposerQuota ==
  \A n, p \in Node : Cardinality(Active(votes[n], p)) <= MaxActive

(* A vote whose execution has not started is deleted only after its term: *)
(* never earlier than Timeout blocks after it was proposed, give or take  *)
(* the blocks by which a proposer may be ahead (delete_expired), unless a *)
(* restart has set the height of its node back (see ApprovedIsKept).      *)
RunsItsTerm ==
  [][\A n \in Node : \A v \in DOMAIN votes[n] :
       /\ restarts = 0
       /\ votes[n][v].execution = "none"
       /\ v \notin DOMAIN votes'[n]
       => tip + MaxFuture >= v.created + Timeout]_vars

(* A vote that a node holds for approved is not deleted before the chain   *)
(* has grown by Timeout blocks since the vote was proposed: the            *)
(* specification counts the week from the approval, which comes later.     *)
ApprovedIsKept ==
  [][\A n \in Node : \A v \in DOMAIN votes[n] :
       /\ Approved(votes[n][v])
       /\ votes[n][v].execution = "none"
       /\ v \notin DOMAIN votes'[n]
       => tip + MaxFuture >= v.created + Timeout]_vars

-----------------------------------------------------------------------------
(* Every node indexes and asks again and again, and what is on its way     *)
(* arrives: a message that is lost is lost when it is sent.  An answer may *)
(* be lost each time, but not every time: connections come back.  Asking   *)
(* is strongly fair, since only the bound MaxInFlight makes it wait.       *)
AskHeard(n, p) == \E m \in net : /\ m.to = p /\ m.kind = "ask" /\ m.from = n
                                 /\ HandleAsk(m)
                                 /\ \A v \in Unconfirmed(votes'[p]) :
                                      \E r \in net' : /\ r.kind = "record" /\ r.to = n
                                                      /\ r.from = p /\ r.vote = v
RecordHeard(n, p) == \E m \in net : /\ m.to = n /\ m.kind = "record" /\ m.from = p
                                    /\ HandleRecord(m)
Arrive(n) == \E m \in net : m.to = n /\ Deliver(m)

Fairness ==
  /\ \A n \in Node : WF_vars(Index(n)) /\ WF_vars(Arrive(n))
  /\ \A n \in Node : \A p \in Others(n) : /\ SF_vars(Synchronize(n, p))
                                          /\ SF_vars(AskHeard(n, p))
                                          /\ WF_vars(RecordHeard(n, p))

FairSpec == Spec /\ Fairness

Running(n, v) == /\ v \in DOMAIN votes[n]
                 /\ Approved(votes[n][v])
                 /\ votes[n][v].execution # "confirmed"

(* p does not hold the vote and may not store it. *)
Barred(p, v) == /\ v \notin DOMAIN votes[p]
                /\ \/ TooOld(v, height[p])
                   \/ QuotaReached(votes[p], v.proposer)
                   \/ \E w \in DOMAIN votes[p] : w.request = v.request

(* An approval is not lost: while a node holds a vote for approved, every  *)
(* other node comes to hold it for approved too, however many messages it  *)
(* missed, unless it may not store the vote (synchronize).                 *)
SpreadsTo(p, n) ==
  \A r \in Request, q \in Proposer, h \in Start .. MaxHeight :
    LET v == [request |-> r, proposer |-> q, created |-> h] IN
    Running(n, v) ~> \/ ~Running(n, v)
                     \/ Barred(p, v)
                     \/ v \in DOMAIN votes[p] /\ Approved(votes[p][v])

ApprovalSpreads == \A n \in Node : \A p \in Others(n) : SpreadsTo(p, n)
=============================================================================
