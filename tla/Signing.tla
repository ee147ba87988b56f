------------------------------ MODULE Signing ------------------------------
(***************************************************************************)
(* MuSig2 signing sessions of the oracle nodes                             *)
(* (high-storm/src/high_storm/signing.rs, over storm/src/network.rs).      *)
(*                                                                         *)
(* A call of `sign_per_branch` races at most two Storm Tree branches.  For *)
(* each branch it opens a session under the hash of the request message,   *)
(* sends the request and its nonces to the other signers of the branch and *)
(* waits.  Every signer answers with nonces, signs once it holds the       *)
(* nonces of the whole branch, and the requestor aggregates.  Cryptography *)
(* is symbolic: a nonce is a number that its signer never draws twice, and *)
(* a partial signature records what it was computed from.                  *)
(***************************************************************************)
EXTENDS Naturals, Sequences, FiniteSets

CONSTANTS
  Node,          \* members, ordered like their serialized public keys
  Call,          \* calls of sign_per_branch
  Caller,        \* Caller[c]: the node that makes call c
  Request,       \* contents to be signed
  Req,           \* Req[c]: the content call c signs
  Rate,          \* Rate[n]: the price hash n validated, or NoRate
  NoRate,
  Refusing,      \* nodes whose validation or recovery state may refuse
  Links,         \* links that are up at the start
  Timeout,       \* SIGNING_SESSION_TIMEOUT, in ticks
  MaxDrops,      \* bound: links lost in a behaviour
  MaxCrashes,    \* bound: restarts in a behaviour
  NoCall         \* a session that no local call waits on

(* Two thirds of the members, rounded up. *)
MinimumThreshold(count) == count - count \div 3

(* The branches of the Storm Tree: every subset of threshold size. *)
Branches ==
  {b \in SUBSET Node : Cardinality(b) = MinimumThreshold(Cardinality(Node))}

ASSUME NodeAssumption == Node \subseteq Nat /\ IsFiniteSet(Node)
ASSUME MembersAssumption == Cardinality(Node) >= 3
ASSUME CallAssumption == /\ Caller \in [Call -> Node]
                         /\ Req \in [Call -> Request]
                         /\ NoCall \notin Call
ASSUME BoundAssumption == /\ Timeout \in Nat \ {0}
                          /\ MaxDrops \in Nat
                          /\ MaxCrashes \in Nat
ASSUME LinkAssumption == Links \subseteq SUBSET Node

(* A round issued at a rate signs the rate after the transaction. *)
ExecuteMessageHashes(r, rate) == IF rate = NoRate THEN <<r>> ELSE <<r, rate>>

HashLists == {ExecuteMessageHashes(r, Rate[n]) : r \in Request, n \in Node}

(* The hash of a request message: its content and its branch. *)
Hash == [req : Request, branch : Branches]
HashOf(c, b) == [req |-> Req[c], branch |-> b]

(* A partial signature and everything that enters its equation. *)
Partial == [signer : Node, nonce : Nat, agg : [Node -> Nat], hashes : HashLists]

Session ==
  [node : Node, h : Hash, requestor : Node, hashes : HashLists,
   nonces : [Node -> Nat],        \* public nonces received, 0 when absent
   partials : SUBSET Partial,     \* contributions, at most one per signer
   verified : SUBSET Node,        \* signers whose contribution was verified
   secret : Nat,                  \* the unused secret nonce, 0 once taken
   call : Call \cup {NoCall},     \* the waiting attempt (the oneshot sender)
   age : 0 .. Timeout]            \* created_at.elapsed(), saturated

Message ==
  [kind : {"request"}, h : Hash]
    \cup [kind : {"nonces"}, h : Hash, nonce : Nat \ {0}, count : Nat]
    \cup [kind : {"partials"}, h : Hash, partial : Partial]

Result == [branch : Branches, hashes : HashLists, agg : [Node -> Nat]]

VARIABLES
  sessions,   \* SigningState.sessions of every node
  calls,      \* calls[c]: progress of sign_per_branch
  tasks,      \* tasks[c][b]: the spawned attempt of branch b
  net,        \* net[<<m, n>>]: the ordered connection from m to n
  sending,    \* messages whose handler or attempt released the lock unsent
  up,         \* connected pairs of nodes
  drawn,      \* drawn[n]: nonces n has drawn so far
  signed,     \* history: every partial signature ever produced
  results,    \* results[c]: the signatures delivered to the attempts of call c
  faults      \* links lost and restarts so far

vars == <<sessions, calls, tasks, net, sending, up, drawn, signed, results, faults>>

Running == {"filling", "joining"}
Phases == {"none", "initial", "nonces", "wait", "ok", "failed", "joined"}

(* A spawned attempt: how far it is, how long it waits, the nonces it has *)
(* to send (0 for none) and the state of its oneshot receiver.            *)
Attempt == [phase : Phases, age : 0 .. Timeout, nonce : Nat,
            rx : {"open", "ok", "expired", "closed"}]
Task == {t \in Attempt : t.phase = "nonces" => t.nonce # 0}

Unsent == [node : Node, conn : Node, msg : Message]

(* Types.  An attempt that goes on to send nonces has some to send, and no *)
(* nonce message is empty (the Option that start_session returns).         *)
TypeOK ==
  /\ sessions \subseteq Session
  /\ calls \in [Call -> {"idle", "ok", "failed", "lost"} \cup Running]
  /\ tasks \in [Call -> [Branches -> Task]]
  /\ net \in [Node \X Node -> Seq(Message)]
  /\ sending \subseteq Unsent
  /\ up \subseteq SUBSET Node
  /\ drawn \in [Node -> Nat]
  /\ signed \subseteq Partial
  /\ results \in [Call -> SUBSET Result]
  /\ faults \in [drops : Nat, crashes : Nat]

-----------------------------------------------------------------------------
(* Sessions of one node. *)

SessionAt(n, h) == {s \in sessions : s.node = n /\ s.h = h}

Expired(n) == {s \in sessions : s.node = n /\ s.age = Timeout}

(* The receivers of the attempts whose sessions are told they expired. *)
TellExpired(t, gone) ==
  [c \in Call |-> [b \in Branches |->
     IF \E s \in gone : s.node = Caller[c] /\ s.call = c /\ s.h = HashOf(c, b)
       THEN [t[c][b] EXCEPT !.rx = "expired"]
       ELSE t[c][b]]]

(* remove_expired_sessions: the live sessions that stay. *)
RemoveExpiredSessions(n) == sessions \ Expired(n)

(* Variant for sensitivity checking: a signer derives its nonces. *)
NewSessionDerived(n, h, requestor, nonce, c) ==
  LET k == IF c = NoCall THEN 1 ELSE nonce IN
  [node |-> n, h |-> h, requestor |-> requestor,
   hashes |-> ExecuteMessageHashes(h.req, Rate[n]),
   nonces |-> [m \in Node |-> IF m = n THEN k ELSE 0],
   partials |-> {}, verified |-> {}, secret |-> k, call |-> c, age |-> 0]

(* start_session on a signer: its own nonces are its first contribution. *)
NewSession(n, h, requestor, nonce, c) ==
  [node |-> n, h |-> h, requestor |-> requestor,
   hashes |-> ExecuteMessageHashes(h.req, Rate[n]),
   nonces |-> [m \in Node |-> IF m = n THEN nonce ELSE 0],
   partials |-> {}, verified |-> {}, secret |-> nonce, call |-> c, age |-> 0]

AllNonces(s) == \A m \in s.h.branch : s.nonces[m] # 0

Contributed(s, m) == \E p \in s.partials : p.signer = m

(* musig_session: the aggregate nonce covers the signers of the branch. *)
Aggregate(s) == [m \in Node |-> IF m \in s.h.branch THEN s.nonces[m] ELSE 0]

(* Variant for sensitivity checking: the hashes are not compared. *)
VerifyNoncesOnly(s, p) ==
  /\ p.nonce = s.nonces[p.signer]
  /\ p.agg = Aggregate(s)

(* partial_verify: a share fits one nonce round and one list of hashes. *)
VerifySignerPartials(s, p) ==
  /\ p.nonce = s.nonces[p.signer]
  /\ p.agg = Aggregate(s)
  /\ p.hashes = s.hashes

PartialSign(s) ==
  [signer |-> s.node, nonce |-> s.secret, agg |-> Aggregate(s), hashes |-> s.hashes]

(* Variant for sensitivity checking: contributions count as verified. *)
NoteTrusting(s, m, p) ==
  [s EXCEPT !.partials = @ \cup {p}, !.verified = @ \cup {m}]

(* A contribution is marked as verified when all nonces were there. *)
NotePartial(s, m, p) ==
  [s EXCEPT !.partials = @ \cup {p},
            !.verified = IF AllNonces(s) THEN @ \cup {m} ELSE @]

Invalid(s) == {p \in s.partials : p.signer \notin s.verified /\ ~VerifySignerPartials(s, p)}

(* complete_session: verify what is pending in signer order, drop the first *)
(* invalid contribution.                                                    *)
Check(s) ==
  IF s.requestor # s.node \/ ~AllNonces(s) THEN s
  ELSE IF Invalid(s) = {}
    THEN [s EXCEPT !.verified = @ \cup {p.signer : p \in s.partials}]
    ELSE LET bad == CHOOSE p \in Invalid(s) :
                      \A q \in Invalid(s) : p.signer <= q.signer
         IN [s EXCEPT !.partials = @ \ {bad},
                      !.verified = @ \cup {p.signer : p \in {q \in s.partials :
                                                  q.signer < bad.signer}}]

CheckFailed(s) == s.requestor = s.node /\ AllNonces(s) /\ Invalid(s) # {}

Complete(s) ==
  /\ s.requestor = s.node
  /\ AllNonces(s)
  /\ Invalid(s) = {}
  /\ \A m \in s.h.branch : Contributed(s, m)

ResultOf(s) == [branch |-> s.h.branch, hashes |-> s.hashes, agg |-> Aggregate(s)]

(* Put session new in the place of old, finishing it when it is complete:   *)
(* the waiting attempt receives the signatures and the session is removed.  *)
CompleteSession(old, new) ==
  IF Complete(new)
    THEN /\ sessions' = sessions \ {old}
         /\ IF new.call \in Call
              THEN /\ tasks' = [tasks EXCEPT ![new.call][new.h.branch].rx = "ok"]
                   /\ results' = [results EXCEPT ![new.call] = @ \cup {ResultOf(new)}]
              ELSE UNCHANGED <<tasks, results>>
    ELSE /\ sessions' = (sessions \ {old}) \cup {Check(new)}
         /\ UNCHANGED <<tasks, results>>

-----------------------------------------------------------------------------
(* Transport: one ordered queue per connected pair. *)

Connected(m, n) == {m, n} \in up

Receivable(m, n) == net[<<m, n>>] # <<>> /\ ~\E o \in sending : o.node = n /\ o.conn = m

Consumed(m, n) == [net EXCEPT ![<<m, n>>] = Tail(@)]

(* try_send to every connected recipient. *)
Sent(queues, from, to, msg) ==
  [ch \in Node \X Node |->
     IF ch[1] = from /\ ch[2] \in to /\ Connected(from, ch[2])
       THEN Append(queues[ch], msg)
       ELSE queues[ch]]

-----------------------------------------------------------------------------
(* The requestor: sign_per_branch. *)

(* What is left of an attempt that was joined, skipped or aborted. *)
Joined == [phase |-> "joined", age |-> 0, nonce |-> 0, rx |-> "closed"]

Pending(c) == {b \in Branches : tasks[c][b].phase \notin {"none", "joined"}}
Attempted(c) == {b \in Branches : tasks[c][b].phase # "none"}

(* select_branch: an untried branch whose signers are this node and        *)
(* connected peers.  The order of branches is the order of aggregate keys, *)
(* which says nothing about their members: any candidate may come first.   *)
SelectBranch(c) ==
  {b \in Branches : /\ b \notin Attempted(c)
                    /\ Caller[c] \in b
                    /\ \A m \in b \ {Caller[c]} : Connected(Caller[c], m)}

(* Sessions the caller keeps when all attempts of a call are abandoned. *)
Abandoned(c, bs) ==
  {s \in sessions : s.node = Caller[c] /\ s.h \in {HashOf(c, b) : b \in bs}}

(* remove_attempt removes whatever session the hash names, and a sender    *)
(* that goes with it closes its receiver.                                  *)
CloseReceivers(t, gone) ==
  [c \in Call |-> [b \in Branches |->
     IF /\ t[c][b].rx = "open"
        /\ \E s \in gone : s.node = Caller[c] /\ s.call = c /\ s.h = HashOf(c, b)
       THEN [t[c][b] EXCEPT !.rx = "closed"]
       ELSE t[c][b]]]

Begin(c) ==
  /\ calls[c] = "idle"
  /\ calls' = [calls EXCEPT ![c] = "filling"]
  /\ UNCHANGED <<sessions, tasks, net, sending, up, drawn, signed, results, faults>>

(* Select a branch and open its session.  A session that exists under the  *)
(* same hash is left alone: no nonces are sent and the receiver of this    *)
(* attempt is closed with its sender.                                      *)
Launch(c, b) ==
  LET n == Caller[c]
      h == HashOf(c, b)
      live == RemoveExpiredSessions(n)
      told == TellExpired(tasks, Expired(n))
      opens == ~\E s \in live : s.node = n /\ s.h = h
  IN
  /\ calls[c] = "filling"
  /\ Cardinality(Pending(c)) < 2
  /\ b \in SelectBranch(c)
  /\ tasks' = [told EXCEPT ![c][b] =
                 [phase |-> "initial", age |-> 0,
                  nonce |-> IF opens THEN drawn[n] + 1 ELSE 0,
                  rx |-> IF opens THEN "open" ELSE "closed"]]
  /\ sessions' = IF opens THEN live \cup {NewSession(n, h, n, drawn[n] + 1, c)} ELSE live
  /\ drawn' = IF opens THEN [drawn EXCEPT ![n] = @ + 1] ELSE drawn
  /\ UNCHANGED <<calls, net, sending, up, signed, results, faults>>

(* make_attempt fails: the branch is skipped. *)
SkipBranch(c, b) ==
  LET n == Caller[c] IN
  /\ n \in Refusing
  /\ calls[c] = "filling"
  /\ Cardinality(Pending(c)) < 2
  /\ b \in SelectBranch(c)
  /\ tasks' = [TellExpired(tasks, Expired(n)) EXCEPT ![c][b] = Joined]
  /\ sessions' = RemoveExpiredSessions(n)
  /\ UNCHANGED <<calls, net, sending, up, drawn, signed, results, faults>>

(* The fill loop ends with two attempts pending or no branch to select. *)
StopFilling(c) ==
  /\ calls[c] = "filling"
  /\ Cardinality(Pending(c)) = 2 \/ SelectBranch(c) = {}
  /\ calls' = [calls EXCEPT ![c] = "joining"]
  /\ IF Cardinality(Pending(c)) = 2
       THEN UNCHANGED <<sessions, tasks>>
       ELSE /\ sessions' = RemoveExpiredSessions(Caller[c])
            /\ tasks' = TellExpired(tasks, Expired(Caller[c]))
  /\ UNCHANGED <<net, sending, up, drawn, signed, results, faults>>

(* An attempt fails: remove_attempt drops the session of its hash. *)
FailAttempt(c, b, queues) ==
  /\ sessions' = sessions \ Abandoned(c, {b})
  /\ tasks' = [CloseReceivers(tasks, Abandoned(c, {b})) EXCEPT ![c][b].phase = "failed"]
  /\ net' = queues

(* The attempt sends the request to the other signers; a signer that is not *)
(* connected fails the attempt although the others were sent to.            *)
SendInitial(c, b) ==
  LET n == Caller[c]
      to == b \ {n}
      queues == Sent(net, n, to, [kind |-> "request", h |-> HashOf(c, b)])
  IN
  /\ calls[c] \in Running
  /\ tasks[c][b].phase = "initial"
  /\ IF \A m \in to : Connected(n, m)
       THEN /\ net' = queues
            /\ tasks' = [tasks EXCEPT ![c][b].phase =
                           IF tasks[c][b].nonce = 0 THEN "wait" ELSE "nonces"]
            /\ UNCHANGED sessions
       ELSE FailAttempt(c, b, queues)
  /\ UNCHANGED <<calls, sending, up, drawn, signed, results, faults>>

(* The attempt sends the nonces of the session it opened. *)
SendNonces(c, b) ==
  LET n == Caller[c]
      to == b \ {n}
      queues == Sent(net, n, to,
                  [kind |-> "nonces", h |-> HashOf(c, b), nonce |-> tasks[c][b].nonce,
                   count |-> Len(ExecuteMessageHashes(Req[c], Rate[n]))])
  IN
  /\ calls[c] \in Running
  /\ tasks[c][b].phase = "nonces"
  /\ IF \A m \in to : Connected(n, m)
       THEN /\ net' = queues
            /\ tasks' = [tasks EXCEPT ![c][b].phase = "wait"]
            /\ UNCHANGED sessions
       ELSE FailAttempt(c, b, queues)
  /\ UNCHANGED <<calls, sending, up, drawn, signed, results, faults>>

(* Variants: no deadline of its own, and a deadline that beats a result. *)
AwaitForever(c, b) ==
  /\ calls[c] \in Running
  /\ tasks[c][b].phase = "wait"
  /\ \/ /\ tasks[c][b].rx = "ok"
        /\ tasks' = [tasks EXCEPT ![c][b].phase = "ok"]
        /\ UNCHANGED <<sessions, net>>
     \/ /\ tasks[c][b].rx \notin {"ok", "open"}
        /\ FailAttempt(c, b, net)
  /\ UNCHANGED <<calls, sending, up, drawn, signed, results, faults>>

AwaitDeadlineFirst(c, b) ==
  /\ calls[c] \in Running
  /\ tasks[c][b].phase = "wait"
  /\ \/ /\ tasks[c][b].rx = "ok" /\ tasks[c][b].age < Timeout
        /\ tasks' = [tasks EXCEPT ![c][b].phase = "ok"]
        /\ UNCHANGED <<sessions, net>>
     \/ /\ tasks[c][b].rx \notin {"ok", "open"} \/ tasks[c][b].age = Timeout
        /\ FailAttempt(c, b, net)
  /\ UNCHANGED <<calls, sending, up, drawn, signed, results, faults>>

(* The attempt's receiver resolves, or its own deadline passes first. *)
Await(c, b) ==
  /\ calls[c] \in Running
  /\ tasks[c][b].phase = "wait"
  /\ \/ /\ tasks[c][b].rx = "ok"
        /\ tasks' = [tasks EXCEPT ![c][b].phase = "ok"]
        /\ UNCHANGED <<sessions, net>>
     \/ /\ tasks[c][b].rx # "ok"
        /\ tasks[c][b].rx # "open" \/ tasks[c][b].age = Timeout
        /\ FailAttempt(c, b, net)
  /\ UNCHANGED <<calls, sending, up, drawn, signed, results, faults>>

(* Variant for sensitivity checking: the sessions of the aborted attempts stay. *)
EndCallKeeping(c, outcome) ==
  /\ calls' = [calls EXCEPT ![c] = outcome]
  /\ tasks' = [tasks EXCEPT ![c] =
                 [b \in Branches |-> IF tasks[c][b].phase = "none" THEN tasks[c][b]
                                     ELSE Joined]]
  /\ UNCHANGED <<sessions, net, sending, up, drawn, signed, results, faults>>

(* The call ends: the remaining attempts are aborted and every session of  *)
(* the call that this node still holds is removed.                         *)
EndCall(c, outcome) ==
  LET gone == Abandoned(c, Attempted(c)) IN
  /\ calls' = [calls EXCEPT ![c] = outcome]
  /\ sessions' = sessions \ gone
  /\ tasks' = [CloseReceivers(tasks, gone) EXCEPT ![c] =
                 [b \in Branches |-> IF tasks[c][b].phase = "none" THEN tasks[c][b]
                                     ELSE Joined]]
  /\ UNCHANGED <<net, sending, up, drawn, signed, results, faults>>

JoinOk(c, b) ==
  /\ calls[c] = "joining"
  /\ tasks[c][b].phase = "ok"
  /\ EndCall(c, "ok")

JoinFailed(c, b) ==
  /\ calls[c] = "joining"
  /\ tasks[c][b].phase = "failed"
  /\ tasks' = [tasks EXCEPT ![c][b] = Joined]
  /\ calls' = [calls EXCEPT ![c] = "filling"]
  /\ UNCHANGED <<sessions, net, sending, up, drawn, signed, results, faults>>

(* No attempt is left and no branch could be selected. *)
GiveUp(c) ==
  /\ calls[c] = "joining"
  /\ Pending(c) = {}
  /\ EndCall(c, "failed")

-----------------------------------------------------------------------------
(* Handlers of a node, one at a time per connection. *)

(* handle_execute_user_requests and its four siblings, after validation: a *)
(* request under a known hash changes nothing.                             *)
HandleRequest(n, m) ==
  LET msg == Head(net[<<m, n>>])
      live == RemoveExpiredSessions(n)
      opens == ~\E s \in live : s.node = n /\ s.h = msg.h
      new == NewSession(n, msg.h, m, drawn[n] + 1, NoCall)
  IN
  /\ Receivable(m, n)
  /\ msg.kind = "request"
  /\ net' = Consumed(m, n)
  /\ tasks' = TellExpired(tasks, Expired(n))
  /\ IF opens
       THEN /\ sessions' = live \cup {new}
            /\ drawn' = [drawn EXCEPT ![n] = @ + 1]
            /\ sending' = sending \cup
                 {[node |-> n, conn |-> m,
                   msg |-> [kind |-> "nonces", h |-> msg.h, nonce |-> new.secret,
                            count |-> Len(new.hashes)]]}
       ELSE /\ sessions' = live
            /\ UNCHANGED <<drawn, sending>>
  /\ UNCHANGED <<calls, up, signed, results, faults>>

(* dispatch refuses: the message fails validation, or the node is          *)
(* rebuilding its chain state or waiting for a migration to be final.      *)
Refuse(n, m) ==
  /\ n \in Refusing
  /\ Receivable(m, n)
  /\ net' = Consumed(m, n)
  /\ UNCHANGED <<sessions, calls, tasks, sending, up, drawn, signed, results, faults>>

(* The handler that released the lock sends.  The nonces of a session that *)
(* has disappeared meanwhile are not sent.                                 *)
SendFromHandle(o) ==
  /\ o \in sending
  /\ sending' = sending \ {o}
  /\ net' = IF o.msg.kind = "nonces" /\ SessionAt(o.node, o.msg.h) = {}
              THEN net
              ELSE Sent(net, o.node, o.msg.h.branch \ {o.node}, o.msg)
  /\ UNCHANGED <<sessions, calls, tasks, up, drawn, signed, results, faults>>

(* The session that the message at the head of a connection contributes to. *)
Target(n, msg) == SessionAt(n, msg.h)

(* handle_signing_nonces: ignored without a session, with the wrong count, *)
(* or when the sender has contributed already.                             *)
IgnoreNonces(n, m) ==
  LET msg == Head(net[<<m, n>>]) IN
  /\ Receivable(m, n)
  /\ msg.kind = "nonces"
  /\ \A s \in Target(n, msg) : \/ msg.count # Len(s.hashes)
                               \/ m \notin s.h.branch
                               \/ s.nonces[m] # 0
  /\ net' = Consumed(m, n)
  /\ UNCHANGED <<sessions, calls, tasks, sending, up, drawn, signed, results, faults>>

(* accept_nonces: record the nonces; with the last of them sign, taking the *)
(* secret nonces out of the session.  The signatures are not sent when the  *)
(* completion check that follows fails.                                     *)
AcceptNonces(n, m) ==
  LET msg == Head(net[<<m, n>>]) IN
  /\ Receivable(m, n)
  /\ msg.kind = "nonces"
  /\ \E s \in Target(n, msg) :
       LET noted == [s EXCEPT !.nonces[m] = msg.nonce]
           share == PartialSign(noted)
           signs == noted.secret # 0 /\ AllNonces(noted)
           new == IF signs
                    THEN [noted EXCEPT !.secret = 0, !.partials = @ \cup {share}]
                    ELSE noted
       IN
       /\ msg.count = Len(s.hashes)
       /\ m \in s.h.branch
       /\ s.nonces[m] = 0
       /\ CompleteSession(s, new)
       /\ signed' = IF signs THEN signed \cup {share} ELSE signed
       /\ sending' = IF signs /\ ~CheckFailed(new)
                       THEN sending \cup
                              {[node |-> n, conn |-> m,
                                msg |-> [kind |-> "partials", h |-> s.h, partial |-> share]]}
                       ELSE sending
  /\ net' = Consumed(m, n)
  /\ UNCHANGED <<calls, up, drawn, faults>>

(* handle_partial_signatures: ignored without a session, with the wrong    *)
(* count, when the sender has contributed, or when the share is invalid.   *)
IgnorePartials(n, m) ==
  LET msg == Head(net[<<m, n>>]) IN
  /\ Receivable(m, n)
  /\ msg.kind = "partials"
  /\ \A s \in Target(n, msg) :
       \/ Len(msg.partial.hashes) # Len(s.hashes)
       \/ m \notin s.h.branch
       \/ Contributed(s, m)
       \/ AllNonces(s) /\ ~VerifySignerPartials(s, msg.partial)
  /\ net' = Consumed(m, n)
  /\ UNCHANGED <<sessions, calls, tasks, sending, up, drawn, signed, results, faults>>

(* accept_partial_signatures: verified at once when all nonces are there,  *)
(* kept for complete_session otherwise.                                    *)
AcceptPartialSignatures(n, m) ==
  LET msg == Head(net[<<m, n>>]) IN
  /\ Receivable(m, n)
  /\ msg.kind = "partials"
  /\ \E s \in Target(n, msg) :
       /\ Len(msg.partial.hashes) = Len(s.hashes)
       /\ m \in s.h.branch
       /\ ~Contributed(s, m)
       /\ AllNonces(s) => VerifySignerPartials(s, msg.partial)
       /\ CompleteSession(s, NotePartial(s, m, msg.partial))
  /\ net' = Consumed(m, n)
  /\ UNCHANGED <<calls, sending, up, drawn, signed, faults>>

(* The periodic cleanup task. *)
Cleanup(n) ==
  /\ Expired(n) # {}
  /\ sessions' = RemoveExpiredSessions(n)
  /\ tasks' = TellExpired(tasks, Expired(n))
  /\ UNCHANGED <<calls, net, sending, up, drawn, signed, results, faults>>

-----------------------------------------------------------------------------
(* Time and faults. *)

Older(age) == IF age < Timeout THEN age + 1 ELSE age

Aged(s) == [s EXCEPT !.age = Older(@)]

Tick ==
  /\ sessions' = {Aged(s) : s \in sessions}
  /\ tasks' = [c \in Call |-> [b \in Branches |->
                 IF tasks[c][b].phase = "wait"
                   THEN [tasks[c][b] EXCEPT !.age = Older(@)]
                   ELSE tasks[c][b]]]
  /\ UNCHANGED <<calls, net, sending, up, drawn, signed, results, faults>>

(* A connection breaks and what it still carried is lost. *)
Disconnect(m, n) ==
  /\ m # n
  /\ Connected(m, n)
  /\ faults.drops < MaxDrops
  /\ faults' = [faults EXCEPT !.drops = @ + 1]
  /\ up' = up \ {{m, n}}
  /\ net' = [net EXCEPT ![<<m, n>>] = <<>>, ![<<n, m>>] = <<>>]
  /\ UNCHANGED <<sessions, calls, tasks, sending, drawn, signed, results>>

(* The reconnect loop restores it. *)
Reconnect(m, n) ==
  /\ m # n
  /\ {m, n} \in Links
  /\ ~Connected(m, n)
  /\ up' = up \cup {{m, n}}
  /\ UNCHANGED <<sessions, calls, tasks, net, sending, drawn, signed, results, faults>>

(* A node restarts: sessions and calls are in memory only. *)
Crash(n) ==
  /\ faults.crashes < MaxCrashes
  /\ faults' = [faults EXCEPT !.crashes = @ + 1]
  /\ sessions' = {s \in sessions : s.node # n}
  /\ sending' = {o \in sending : o.node # n}
  /\ calls' = [c \in Call |-> IF Caller[c] = n /\ calls[c] \in Running
                                THEN "lost" ELSE calls[c]]
  /\ tasks' = [c \in Call |-> [b \in Branches |->
                 IF Caller[c] = n /\ tasks[c][b].phase # "none" THEN Joined ELSE tasks[c][b]]]
  /\ net' = [ch \in Node \X Node |-> IF n \in {ch[1], ch[2]} THEN <<>> ELSE net[ch]]
  /\ up' = {l \in up : n \notin l}
  /\ UNCHANGED <<drawn, signed, results>>

-----------------------------------------------------------------------------
(* The nodes have just started and are connected by the links `linked`. *)
Started(linked) ==
  /\ sessions = {}
  /\ calls = [c \in Call |-> "idle"]
  /\ tasks = [c \in Call |-> [b \in Branches |->
                [phase |-> "none", age |-> 0, nonce |-> 0, rx |-> "open"]]]
  /\ net = [ch \in Node \X Node |-> <<>>]
  /\ sending = {}
  /\ up = linked
  /\ drawn = [n \in Node |-> 0]
  /\ signed = {}
  /\ results = [c \in Call |-> {}]
  /\ faults = [drops |-> 0, crashes |-> 0]

Init == Started(Links)

CallStep(c) ==
  \/ Begin(c)
  \/ StopFilling(c)
  \/ GiveUp(c)
  \/ \E b \in Branches : \/ Launch(c, b)
                         \/ SkipBranch(c, b)
                         \/ SendInitial(c, b)
                         \/ SendNonces(c, b)
                         \/ Await(c, b)
                         \/ JoinOk(c, b)
                         \/ JoinFailed(c, b)

Handle(n, m) ==
  \/ HandleRequest(n, m)
  \/ Refuse(n, m)
  \/ IgnoreNonces(n, m)
  \/ AcceptNonces(n, m)
  \/ IgnorePartials(n, m)
  \/ AcceptPartialSignatures(n, m)

Next ==
  \/ \E c \in Call : CallStep(c)
  \/ \E n, m \in Node : Handle(n, m)
  \/ \E o \in sending : SendFromHandle(o)
  \/ \E n \in Node : Cleanup(n)
  \/ Tick
  \/ \E m, n \in Node : Disconnect(m, n) \/ Reconnect(m, n)
  \/ \E n \in Node : Crash(n)

Spec == Init /\ [][Next]_vars

(* The runtime polls every call and attempt, and time passes. *)
Fairness ==
  /\ WF_vars(Tick)
  /\ \A c \in Call : WF_vars(CallStep(c))

FairSpec == Spec /\ Fairness

-----------------------------------------------------------------------------
(* A secret nonce signs once: no node ever produces two different partial  *)
(* signatures from one nonce, whatever is retried, expires, is reordered   *)
(* or restarts (accept_nonces takes the secret nonces out of the session). *)
NonceUsedOnce ==
  \A p, q \in signed : p.signer = q.signer /\ p.nonce = q.nonce => p = q

(* What makes it so: a live secret nonce was drawn, belongs to one session  *)
(* and has signed nothing yet.                                              *)
NonceInv ==
  /\ \A s \in sessions : s.secret <= drawn[s.node]
  /\ \A p \in signed : p.nonce <= drawn[p.signer]
  /\ \A s, t \in sessions :
       s.node = t.node /\ s.secret = t.secret /\ s.secret # 0 => s = t
  /\ \A s \in sessions : \A p \in signed :
       s.node = p.signer /\ s.secret # 0 => s.secret # p.nonce
  /\ NonceUsedOnce

(* A delivered result carries the consent of a whole branch: every signer  *)
(* signed exactly the hashes of the requestor, under the aggregate nonce   *)
(* the requestor used, although shares of other nonce rounds and of other  *)
(* rates reach the same session (complete_session).                        *)
ResultsAreSigned ==
  \A c \in Call : \A r \in results[c] : \A m \in r.branch :
    \E p \in signed : /\ p.signer = m
                      /\ p.hashes = r.hashes
                      /\ p.agg = r.agg

(* The cached flag partial_signatures_verified never outlives what it was  *)
(* computed from.                                                          *)
VerifiedIsCurrent ==
  \A s \in sessions : \A p \in s.partials :
    p.signer \in s.verified => VerifySignerPartials(s, p)

(* One session per hash at a node, and one contribution per signer in it. *)
SessionsAreKeyed ==
  /\ \A s, t \in sessions : s.node = t.node /\ s.h = t.h => s = t
  /\ \A s \in sessions : \A p, q \in s.partials : p.signer = q.signer => p = q

(* A call that fails has thrown no signature away: a result that reached an *)
(* attempt is returned although its deadline passes, another branch fails   *)
(* or a second call removes sessions of the same hash (sign_per_branch).    *)
DeliveredIsReturned == \A c \in Call : calls[c] = "failed" => results[c] = {}

(* No session outlives the call that waits on it: what a call opened is    *)
(* gone when it returns, so a later call under the same hash starts anew.  *)
NoOrphanSessions ==
  \A s \in sessions : s.call # NoCall => calls[s.call] \in Running

(* A live session shares more signers with every branch than the          *)
(* (n - 1) \div 3 that a network of n can have faulty, so that two         *)
(* conflicting transactions need an honest node that signs both            *)
(* (StormTree::minimum_threshold).                                         *)
BranchesOverlap ==
  \A s \in sessions, b \in Branches :
    Cardinality(s.h.branch \cap b) > (Cardinality(Node) - 1) \div 3

(* Every call ends: the deadlines of the attempts and the finite number of *)
(* branches leave no call waiting forever (sign_per_branch).               *)
CallsEnd ==
  \A c \in Call : calls[c] \in Running ~> calls[c] \notin Running

(* Nothing of the session of hash h is on its way or waits to be sent. *)
Quiet(h) ==
  /\ \A ch \in Node \X Node : \A i \in 1 .. Len(net[ch]) : net[ch][i].h # h
  /\ \A o \in sending : o.msg.h # h
  /\ \A c \in Call : \A b \in Branches :
       HashOf(c, b) = h => tasks[c][b].phase = "wait"

(* When no message of a session is on its way and every signer holds a     *)
(* session for it, each of them has had the nonces of the whole branch and *)
(* has signed (handle_signing_nonces).                                     *)
NoncesReachSessions ==
  \A h \in Hash :
    Quiet(h) /\ (\A m \in h.branch : SessionAt(m, h) # {}) =>
      \A m \in h.branch : \A s \in SessionAt(m, h) : s.secret = 0

=============================================================================
