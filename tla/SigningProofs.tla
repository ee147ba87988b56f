--------------------------- MODULE SigningProofs ---------------------------
(***************************************************************************)
(* Proofs about Signing for every set of members, calls and faults.        *)
(***************************************************************************)
EXTENDS Signing, FiniteSetTheorems, WellFoundedInduction, TLAPS

(* Hash lists are short tuples. *)
LEMMA HashLen == \A x \in HashLists : Len(x) \in Nat
  BY DEF HashLists, ExecuteMessageHashes

(* The hash of an attempt names a branch. *)
LEMMA HashOfType == \A c \in Call, b \in Branches : HashOf(c, b) \in Hash
  BY CallAssumption DEF HashOf, Hash

(* A list that start_session builds. *)
LEMMA HashesType ==
  \A r \in Request, n \in Node : ExecuteMessageHashes(r, Rate[n]) \in HashLists
  BY DEF HashLists

(* start_session builds a well-typed session. *)
LEMMA NewSessionType ==
  ASSUME NEW n \in Node, NEW h \in Hash, NEW r \in Node, NEW k \in Nat,
         NEW c \in Call \cup {NoCall}
  PROVE  NewSession(n, h, r, k, c) \in Session
  BY HashesType, BoundAssumption DEF NewSession, Session, Hash

(* An aggregate nonce has a nonce for every signer. *)
LEMMA AggregateType == \A s \in Session : Aggregate(s) \in [Node -> Nat]
  BY DEF Aggregate, Session

(* A signer's share is a partial signature. *)
LEMMA PartialSignType == \A s \in Session : PartialSign(s) \in Partial
  BY AggregateType DEF PartialSign, Partial, Session

(* A finished session yields a result. *)
LEMMA ResultType == \A s \in Session : ResultOf(s) \in Result
  BY AggregateType DEF ResultOf, Result, Session, Hash

(* complete_session only drops contributions and marks signers. *)
LEMMA CheckType == \A s \in Session : Check(s) \in Session
<1> SUFFICES ASSUME NEW s \in Session PROVE Check(s) \in Session
  OBVIOUS
<1> DEFINE bad == CHOOSE p \in Invalid(s) : \A q \in Invalid(s) : p.signer <= q.signer
<1>1. \A p \in s.partials : p.signer \in Node
  BY DEF Session, Partial
<1>2. [s EXCEPT !.verified = @ \cup {p.signer : p \in s.partials}] \in Session
  BY <1>1 DEF Session
<1>3. [s EXCEPT !.partials = @ \ {bad},
                !.verified = @ \cup {p.signer : p \in {q \in s.partials :
                                              q.signer < bad.signer}}] \in Session
  <2> DEFINE before == {q \in s.partials : q.signer < bad.signer}
             marked == {p.signer : p \in before}
             kept == s.partials \ {bad}
  <2>1. marked \subseteq Node
    BY <1>1
  <2>2. kept \subseteq Partial /\ s.verified \cup marked \in SUBSET Node
    BY <2>1 DEF Session
  <2> HIDE DEF bad, before, marked, kept
  <2>3. [s EXCEPT !.partials = kept, !.verified = s.verified \cup marked] \in Session
    BY <2>2 DEF Session
  <2> QED BY <2>3 DEF before, marked, kept
<1> QED BY <1>2, <1>3 DEF Check

(* Sending keeps every connection a queue of messages. *)
LEMMA SentType ==
  ASSUME NEW q \in [Node \X Node -> Seq(Message)], NEW from \in Node, NEW to,
         NEW msg \in Message
  PROVE  Sent(q, from, to, msg) \in [Node \X Node -> Seq(Message)]
  BY DEF Sent

(* Receiving keeps every connection a queue of messages. *)
LEMMA ConsumedType ==
  ASSUME TypeOK, NEW m \in Node, NEW n \in Node, net[<<m, n>>] # <<>>
  PROVE  /\ Consumed(m, n) \in [Node \X Node -> Seq(Message)]
         /\ Head(net[<<m, n>>]) \in Message
<1>1. net[<<m, n>>] \in Seq(Message)
  BY DEF TypeOK
<1>2. Tail(net[<<m, n>>]) \in Seq(Message) /\ Head(net[<<m, n>>]) \in Message
  BY <1>1
<1> QED BY <1>2 DEF TypeOK, Consumed

(* Telling and closing receivers keeps the attempts well typed. *)
LEMMA ReceiversType ==
  ASSUME NEW t \in [Call -> [Branches -> Task]], NEW gone
  PROVE  /\ TellExpired(t, gone) \in [Call -> [Branches -> Task]]
         /\ CloseReceivers(t, gone) \in [Call -> [Branches -> Task]]
  BY DEF TellExpired, CloseReceivers, Task, Attempt

(* An attempt's phase or receiver changes and nothing else. *)
LEMMA TaskUpdateType ==
  ASSUME NEW t \in [Call -> [Branches -> Task]], NEW c \in Call, NEW b \in Branches,
         NEW ph \in Phases, ph = "nonces" => t[c][b].nonce # 0
  PROVE  /\ [t EXCEPT ![c][b].phase = ph] \in [Call -> [Branches -> Task]]
         /\ [t EXCEPT ![c][b].rx = "ok"] \in [Call -> [Branches -> Task]]
<1>1. ASSUME NEW r \in Task
      PROVE  [t EXCEPT ![c] = [t[c] EXCEPT ![b] = r]] \in [Call -> [Branches -> Task]]
  <2>1. [t[c] EXCEPT ![b] = r] \in [Branches -> Task]
    OBVIOUS
  <2> QED BY <2>1
<1>2. [t[c][b] EXCEPT !.phase = ph] \in Task /\ [t[c][b] EXCEPT !.rx = "ok"] \in Task
  <2>1. t[c][b] \in Task
    OBVIOUS
  <2> QED BY <2>1 DEF Task, Attempt
<1>3. [t EXCEPT ![c] = [t[c] EXCEPT ![b] = [t[c][b] EXCEPT !.phase = ph]]]
        = [t EXCEPT ![c][b].phase = ph]
  OBVIOUS
<1>4. [t EXCEPT ![c] = [t[c] EXCEPT ![b] = [t[c][b] EXCEPT !.rx = "ok"]]]
        = [t EXCEPT ![c][b].rx = "ok"]
  OBVIOUS
<1> QED BY <1>1, <1>2, <1>3, <1>4

(* What complete_session leaves is well typed. *)
LEMMA CompleteSessionType ==
  ASSUME TypeOK, NEW old, NEW new \in Session, CompleteSession(old, new)
  PROVE  /\ sessions' \subseteq Session
         /\ tasks' \in [Call -> [Branches -> Task]]
         /\ results' \in [Call -> SUBSET Result]
<1>1. Check(new) \in Session /\ ResultOf(new) \in Result /\ new.h.branch \in Branches
  BY CheckType, ResultType DEF Session, Hash
<1>2. CASE Complete(new) /\ new.call \in Call
  <2>1. results' \in [Call -> SUBSET Result]
    <3>1. results[new.call] \cup {ResultOf(new)} \in SUBSET Result
      BY <1>1, <1>2 DEF TypeOK
    <3>2. results' = [results EXCEPT ![new.call] = results[new.call] \cup {ResultOf(new)}]
      BY <1>2 DEF CompleteSession
    <3> QED BY <3>1, <3>2 DEF TypeOK
  <2>2. tasks' \in [Call -> [Branches -> Task]]
    <3>1. tasks' = [tasks EXCEPT ![new.call][new.h.branch].rx = "ok"]
      BY <1>2 DEF CompleteSession
    <3> QED BY <1>1, <1>2, <3>1, TaskUpdateType DEF TypeOK, Phases
  <2> QED BY <1>2, <2>1, <2>2 DEF CompleteSession, TypeOK
<1>3. CASE Complete(new) /\ new.call \notin Call
  BY <1>3 DEF CompleteSession, TypeOK
<1>4. CASE ~Complete(new)
  BY <1>1, <1>4 DEF CompleteSession, TypeOK
<1> QED BY <1>2, <1>3, <1>4

(* A failed attempt leaves sessions, attempts and queues well typed. *)
LEMMA FailAttemptType ==
  ASSUME TypeOK, NEW c \in Call, NEW b \in Branches,
         NEW q \in [Node \X Node -> Seq(Message)], FailAttempt(c, b, q)
  PROVE  /\ sessions' \subseteq Session
         /\ tasks' \in [Call -> [Branches -> Task]]
         /\ net' \in [Node \X Node -> Seq(Message)]
<1> DEFINE t == CloseReceivers(tasks, Abandoned(c, {b}))
<1>1. t \in [Call -> [Branches -> Task]]
  BY ReceiversType DEF TypeOK
<1> HIDE DEF t
<1>2. [t EXCEPT ![c][b].phase = "failed"] \in [Call -> [Branches -> Task]]
  BY <1>1, TaskUpdateType DEF Phases
<1> QED BY <1>2 DEF FailAttempt, TypeOK, t

(* Steps of a call keep the types. *)
LEMMA CallStepType ==
  ASSUME TypeOK, NEW c \in Call, CallStep(c)
  PROVE  TypeOK'
<1> USE CallAssumption, BoundAssumption
<1>0. /\ tasks \in [Call -> [Branches -> Task]]
      /\ TellExpired(tasks, Expired(Caller[c])) \in [Call -> [Branches -> Task]]
      /\ RemoveExpiredSessions(Caller[c]) \subseteq Session
      /\ Joined \in Task
  <2>1. Joined \in Task
    BY DEF Joined, Task, Attempt, Phases
  <2>2. tasks \in [Call -> [Branches -> Task]]
    BY DEF TypeOK
  <2> QED BY <2>1, <2>2, ReceiversType DEF TypeOK, RemoveExpiredSessions
<1>1. CASE Begin(c)
  BY <1>1 DEF Begin, TypeOK, Running
<1>2. CASE StopFilling(c)
  BY <1>0, <1>2 DEF StopFilling, TypeOK, Running
<1>3. ASSUME NEW o \in {"ok", "failed"}, EndCall(c, o) PROVE TypeOK'
  <2> DEFINE t == CloseReceivers(tasks, Abandoned(c, Attempted(c)))
  <2>1. t \in [Call -> [Branches -> Task]]
    BY <1>0, ReceiversType
  <2>2. tasks' \in [Call -> [Branches -> Task]]
    BY <1>0, <1>3, <2>1 DEF EndCall
  <2> QED BY <1>3, <2>2 DEF EndCall, TypeOK
<1>4. CASE GiveUp(c)
  BY <1>3, <1>4 DEF GiveUp
<1>5. ASSUME NEW b \in Branches, Launch(c, b) PROVE TypeOK'
  <2> DEFINE n == Caller[c]
             told == TellExpired(tasks, Expired(n))
             live == RemoveExpiredSessions(n)
             opens == ~\E s \in live : s.node = n /\ s.h = HashOf(c, b)
             task == [phase |-> "initial", age |-> 0,
                      nonce |-> IF opens THEN drawn[n] + 1 ELSE 0,
                      rx |-> IF opens THEN "open" ELSE "closed"]
  <2>1. drawn[n] + 1 \in Nat /\ n \in Node
    BY DEF TypeOK
  <2>2. task \in Task
    BY <2>1 DEF Task, Attempt, Phases
  <2>3. NewSession(n, HashOf(c, b), n, drawn[n] + 1, c) \in Session
    BY <2>1, HashOfType, NewSessionType
  <2>4. tasks' \in [Call -> [Branches -> Task]]
    <3> HIDE DEF told, task
    <3>1. told \in [Call -> [Branches -> Task]]
      BY <1>0 DEF told
    <3>2. tasks' = [told EXCEPT ![c][b] = task]
      BY <1>5 DEF Launch, told, task
    <3> QED BY <2>2, <3>1, <3>2
  <2>5. sessions' \subseteq Session
    BY <1>0, <1>5, <2>3 DEF Launch
  <2>6. drawn' \in [Node -> Nat]
    BY <1>5, <2>1 DEF Launch, TypeOK
  <2> QED BY <1>5, <2>4, <2>5, <2>6 DEF Launch, TypeOK
<1>6. ASSUME NEW b \in Branches, SkipBranch(c, b) PROVE TypeOK'
  <2> DEFINE told == TellExpired(tasks, Expired(Caller[c]))
  <2>1. tasks' = [told EXCEPT ![c][b] = Joined] /\ told \in [Call -> [Branches -> Task]]
    BY <1>0, <1>6 DEF SkipBranch
  <2> HIDE DEF told
  <2>2. tasks' \in [Call -> [Branches -> Task]]
    BY <1>0, <2>1
  <2> QED BY <1>0, <1>6, <2>2 DEF SkipBranch, TypeOK
<1>7. ASSUME NEW b \in Branches, SendInitial(c, b) PROVE TypeOK'
  <2> DEFINE msg == [kind |-> "request", h |-> HashOf(c, b)]
             q == Sent(net, Caller[c], b \ {Caller[c]}, msg)
  <2>1. msg \in Message
    BY HashOfType DEF Message
  <2>2. q \in [Node \X Node -> Seq(Message)]
    BY <2>1, SentType DEF TypeOK
  <2> HIDE DEF q, msg
  <2>3. CASE FailAttempt(c, b, q)
    BY <1>7, <2>2, <2>3, FailAttemptType DEF SendInitial, TypeOK
  <2>4. CASE ~FailAttempt(c, b, q)
    <3>1. /\ net' = q
          /\ tasks' = [tasks EXCEPT ![c][b].phase =
                         IF tasks[c][b].nonce = 0 THEN "wait" ELSE "nonces"]
          /\ sessions' = sessions
      BY <1>7, <2>4 DEF SendInitial, q, msg
    <3>2. tasks' \in [Call -> [Branches -> Task]]
      <4> DEFINE ph == IF tasks[c][b].nonce = 0 THEN "wait" ELSE "nonces"
      <4>1. ph \in Phases /\ (ph = "nonces" => tasks[c][b].nonce # 0)
        BY DEF Phases
      <4> HIDE DEF ph
      <4>2. [tasks EXCEPT ![c][b].phase = ph] \in [Call -> [Branches -> Task]]
        BY <1>0, <4>1, TaskUpdateType
      <4> QED BY <3>1, <4>2 DEF ph
    <3> QED BY <1>7, <2>2, <3>1, <3>2 DEF SendInitial, TypeOK
  <2> QED BY <2>3, <2>4
<1>8. ASSUME NEW b \in Branches, SendNonces(c, b) PROVE TypeOK'
  <2> DEFINE msg == [kind |-> "nonces", h |-> HashOf(c, b), nonce |-> tasks[c][b].nonce,
                     count |-> Len(ExecuteMessageHashes(Req[c], Rate[Caller[c]]))]
             q == Sent(net, Caller[c], b \ {Caller[c]}, msg)
  <2>0. Len(ExecuteMessageHashes(Req[c], Rate[Caller[c]])) \in Nat
    BY HashesType, HashLen
  <2>1. msg \in Message
    <3>1. tasks[c][b].nonce \in Nat \ {0}
      BY <1>0, <1>8 DEF SendNonces, Task, Attempt
    <3> QED BY <2>0, <3>1, HashOfType DEF Message
  <2>2. q \in [Node \X Node -> Seq(Message)]
    BY <2>1, SentType DEF TypeOK
  <2> HIDE DEF q, msg
  <2>3. CASE FailAttempt(c, b, q)
    BY <1>8, <2>2, <2>3, FailAttemptType DEF SendNonces, TypeOK
  <2>4. CASE ~FailAttempt(c, b, q)
    <3>1. /\ net' = q
          /\ tasks' = [tasks EXCEPT ![c][b].phase = "wait"]
          /\ sessions' = sessions
      BY <1>8, <2>4 DEF SendNonces, q, msg
    <3>2. tasks' \in [Call -> [Branches -> Task]]
      BY <1>0, <3>1, TaskUpdateType DEF Phases
    <3> QED BY <1>8, <2>2, <3>1, <3>2 DEF SendNonces, TypeOK
  <2> QED BY <2>3, <2>4
<1>9. ASSUME NEW b \in Branches, Await(c, b) PROVE TypeOK'
  <2>1. CASE FailAttempt(c, b, net)
    BY <1>9, <2>1, FailAttemptType DEF Await, TypeOK
  <2>2. CASE ~FailAttempt(c, b, net)
    <3>1. tasks' = [tasks EXCEPT ![c][b].phase = "ok"] /\ UNCHANGED <<sessions, net>>
      BY <1>9, <2>2 DEF Await
    <3>2. tasks' \in [Call -> [Branches -> Task]]
      BY <1>0, <3>1, TaskUpdateType DEF Phases
    <3> QED BY <1>9, <3>1, <3>2 DEF Await, TypeOK
  <2> QED BY <2>1, <2>2
<1>10. ASSUME NEW b \in Branches, JoinOk(c, b) PROVE TypeOK'
  BY <1>3, <1>10 DEF JoinOk
<1>11. ASSUME NEW b \in Branches, JoinFailed(c, b) PROVE TypeOK'
  BY <1>0, <1>11 DEF JoinFailed, TypeOK, Running
<1> QED
  BY <1>1, <1>2, <1>4, <1>5, <1>6, <1>7, <1>8, <1>9, <1>10, <1>11 DEF CallStep

(* Handling a request keeps the types. *)
LEMMA HandleRequestType ==
  ASSUME TypeOK, NEW n \in Node, NEW m \in Node, HandleRequest(n, m)
  PROVE  TypeOK'
<1> DEFINE msg == Head(net[<<m, n>>])
           live == RemoveExpiredSessions(n)
           new == NewSession(n, msg.h, m, drawn[n] + 1, NoCall)
           out == [node |-> n, conn |-> m,
                   msg |-> [kind |-> "nonces", h |-> msg.h, nonce |-> new.secret,
                            count |-> Len(new.hashes)]]
<1>1. net' \in [Node \X Node -> Seq(Message)] /\ msg \in Message
  BY ConsumedType DEF HandleRequest, Receivable
<1>2. msg.h \in Hash
  BY <1>1 DEF Message
<1>3. drawn[n] + 1 \in Nat
  BY DEF TypeOK
<1>4. new \in Session /\ new.secret \in Nat \ {0} /\ new.hashes \in HashLists
  <2>1. new \in Session
    BY <1>2, <1>3, NewSessionType
  <2>2. new.secret = drawn[n] + 1
    BY DEF NewSession
  <2>3. drawn[n] + 1 # 0
    BY DEF TypeOK
  <2>4. new.hashes \in HashLists
    BY <2>1 DEF Session
  <2> HIDE DEF new
  <2> QED BY <1>3, <2>1, <2>2, <2>3, <2>4
<1>5. out \in Unsent
  <2>1. Len(new.hashes) \in Nat
    BY <1>4, HashLen
  <2> HIDE DEF new, msg
  <2>2. [kind |-> "nonces", h |-> msg.h, nonce |-> new.secret, count |-> Len(new.hashes)]
          \in Message
    BY <1>2, <1>4, <2>1 DEF Message
  <2> QED BY <2>2 DEF Unsent
<1>6. /\ tasks' \in [Call -> [Branches -> Task]]
      /\ live \subseteq Session
  BY ReceiversType DEF TypeOK, HandleRequest, RemoveExpiredSessions
<1>7. /\ sessions' \subseteq live \cup {new}
      /\ sending' \subseteq sending \cup {out}
      /\ drawn' = drawn \/ drawn' = [drawn EXCEPT ![n] = drawn[n] + 1]
      /\ UNCHANGED <<calls, up, signed, results, faults>>
  BY DEF HandleRequest
<1> HIDE DEF msg, live, new, out
<1>8. drawn' \in [Node -> Nat]
  BY <1>3, <1>7 DEF TypeOK
<1> QED BY <1>1, <1>4, <1>5, <1>6, <1>7, <1>8 DEF TypeOK

(* Handling nonces keeps the types. *)
LEMMA HandleNoncesType ==
  ASSUME TypeOK, NEW n \in Node, NEW m \in Node, AcceptNonces(n, m)
  PROVE  TypeOK'
<1> DEFINE msg == Head(net[<<m, n>>])
<1>1. net' \in [Node \X Node -> Seq(Message)] /\ msg \in Message
  BY ConsumedType DEF AcceptNonces, Receivable
<1>2. msg.h \in Hash /\ msg.nonce \in Nat
  BY <1>1 DEF Message, AcceptNonces
<1> DEFINE noted(s) == [s EXCEPT !.nonces[m] = msg.nonce]
           share(s) == PartialSign(noted(s))
           new(s) == IF noted(s).secret # 0 /\ AllNonces(noted(s))
                       THEN [noted(s) EXCEPT !.secret = 0,
                                             !.partials = @ \cup {share(s)}]
                       ELSE noted(s)
           out(s) == [node |-> n, conn |-> m,
                      msg |-> [kind |-> "partials", h |-> s.h, partial |-> share(s)]]
<1>3. PICK s \in Target(n, msg) :
        /\ CompleteSession(s, new(s))
        /\ signed' \subseteq signed \cup {share(s)}
        /\ sending' \subseteq sending \cup {out(s)}
  BY DEF AcceptNonces
<1>4. s \in Session
  BY <1>3 DEF Target, SessionAt, TypeOK
<1>5. noted(s) \in Session
  <2>1. [s.nonces EXCEPT ![m] = msg.nonce] \in [Node -> Nat]
    BY <1>2, <1>4 DEF Session
  <2> QED BY <1>4, <2>1 DEF Session
<1>6. share(s) \in Partial
  BY <1>5, PartialSignType
<1>7. new(s) \in Session
  <2> HIDE DEF noted, share
  <2>1. noted(s).partials \cup {share(s)} \in SUBSET Partial
    BY <1>5, <1>6 DEF Session
  <2>2. [noted(s) EXCEPT !.secret = 0, !.partials = noted(s).partials \cup {share(s)}]
          \in Session
    BY <1>5, <2>1 DEF Session
  <2> QED BY <1>5, <2>2
<1>8. out(s) \in Unsent
  <2> HIDE DEF share
  <2>1. s.h \in Hash
    BY <1>4 DEF Session
  <2>2. [kind |-> "partials", h |-> s.h, partial |-> share(s)] \in Message
    BY <1>6, <2>1 DEF Message
  <2> QED BY <2>2 DEF Unsent
<1> HIDE DEF noted, share, new, out
<1>9. /\ sessions' \subseteq Session
      /\ tasks' \in [Call -> [Branches -> Task]]
      /\ results' \in [Call -> SUBSET Result]
  BY <1>3, <1>7, CompleteSessionType
<1>10. UNCHANGED <<calls, up, drawn, faults>>
  BY DEF AcceptNonces
<1> QED BY <1>1, <1>3, <1>6, <1>8, <1>9, <1>10 DEF TypeOK

(* A noted contribution leaves a well-typed session. *)
LEMMA NotePartialType ==
  ASSUME NEW s \in Session, NEW m \in Node, NEW p \in Partial
  PROVE  /\ NotePartial(s, m, p) \in Session
         /\ NotePartial(s, m, p).node = s.node
         /\ NotePartial(s, m, p).secret = s.secret
<1>1. s.partials \cup {p} \in SUBSET Partial /\ s.verified \cup {m} \in SUBSET Node
  BY DEF Session
<1>2. (IF AllNonces(s) THEN s.verified \cup {m} ELSE s.verified) \in SUBSET Node
  BY <1>1 DEF Session
<1> QED BY <1>1, <1>2 DEF Session, NotePartial

(* Handling partial signatures keeps the types. *)
LEMMA HandlePartialsType ==
  ASSUME TypeOK, NEW n \in Node, NEW m \in Node, AcceptPartialSignatures(n, m)
  PROVE  TypeOK'
<1> DEFINE msg == Head(net[<<m, n>>])
           new(s) == NotePartial(s, m, msg.partial)
<1>1. net' \in [Node \X Node -> Seq(Message)] /\ msg \in Message
  BY ConsumedType DEF AcceptPartialSignatures, Receivable
<1>2. msg.partial \in Partial
  BY <1>1 DEF Message, AcceptPartialSignatures
<1>3. PICK s \in Target(n, msg) : CompleteSession(s, new(s))
  BY DEF AcceptPartialSignatures
<1>4. s \in Session
  BY <1>3 DEF Target, SessionAt, TypeOK
<1>5. new(s) \in Session
  BY <1>2, <1>4, NotePartialType
<1> HIDE DEF new
<1>6. /\ sessions' \subseteq Session
      /\ tasks' \in [Call -> [Branches -> Task]]
      /\ results' \in [Call -> SUBSET Result]
  BY <1>3, <1>5, CompleteSessionType
<1>7. UNCHANGED <<calls, sending, up, drawn, signed, faults>>
  BY DEF AcceptPartialSignatures
<1> QED BY <1>1, <1>6, <1>7 DEF TypeOK

(* Every handler keeps the types. *)
LEMMA HandleType ==
  ASSUME TypeOK, NEW n \in Node, NEW m \in Node, Handle(n, m)
  PROVE  TypeOK'
<1>1. ASSUME Refuse(n, m) \/ IgnoreNonces(n, m) \/ IgnorePartials(n, m)
      PROVE  TypeOK'
  <2>1. net' \in [Node \X Node -> Seq(Message)]
    <3>1. net' = Consumed(m, n) /\ net[<<m, n>>] # <<>>
      BY <1>1 DEF Refuse, IgnoreNonces, IgnorePartials, Receivable
    <3> QED BY <3>1, ConsumedType
  <2> QED BY <1>1, <2>1 DEF Refuse, IgnoreNonces, IgnorePartials, TypeOK
<1> QED BY <1>1, HandleRequestType, HandleNoncesType, HandlePartialsType DEF Handle

(* Steps of the environment: delivery, time, lost links and restarts. *)
LEMMA EnvironmentType ==
  ASSUME TypeOK,
         \/ \E o \in sending : SendFromHandle(o)
         \/ \E n \in Node : Cleanup(n)
         \/ Tick
         \/ \E m, n \in Node : Disconnect(m, n) \/ Reconnect(m, n)
         \/ \E n \in Node : Crash(n)
  PROVE  TypeOK'
<1> USE BoundAssumption
<1>0. ASSUME NEW f \in [drops : Nat, crashes : Nat]
      PROVE  /\ [f EXCEPT !.drops = @ + 1] \in [drops : Nat, crashes : Nat]
             /\ [f EXCEPT !.crashes = @ + 1] \in [drops : Nat, crashes : Nat]
  OBVIOUS
<1>1. ASSUME NEW o \in sending, SendFromHandle(o) PROVE TypeOK'
  <2>1. o.node \in Node /\ o.msg \in Message
    BY DEF TypeOK, Unsent
  <2>2. Sent(net, o.node, o.msg.h.branch \ {o.node}, o.msg)
          \in [Node \X Node -> Seq(Message)]
    BY <2>1, SentType DEF TypeOK
  <2> QED BY <1>1, <2>2 DEF SendFromHandle, TypeOK
<1>2. ASSUME NEW n \in Node, Cleanup(n) PROVE TypeOK'
  <2>1. tasks' \in [Call -> [Branches -> Task]]
    BY <1>2, ReceiversType DEF Cleanup, TypeOK
  <2> QED BY <1>2, <2>1 DEF Cleanup, RemoveExpiredSessions, TypeOK
<1>3. CASE Tick
  <2>1. \A a \in 0 .. Timeout : Older(a) \in 0 .. Timeout
    BY DEF Older
  <2>2. ASSUME NEW s \in Session PROVE Aged(s) \in Session
    BY <2>1 DEF Aged, Session
  <2>3. ASSUME NEW t \in Task PROVE [t EXCEPT !.age = Older(@)] \in Task
    BY <2>1 DEF Task, Attempt
  <2>4. tasks' \in [Call -> [Branches -> Task]]
    <3>1. \A c \in Call, b \in Branches : tasks[c][b] \in Task
      BY DEF TypeOK
    <3> QED BY <1>3, <2>3, <3>1 DEF Tick
  <2> QED BY <1>3, <2>2, <2>4 DEF Tick, TypeOK
<1>4. ASSUME NEW m \in Node, NEW n \in Node, Disconnect(m, n) PROVE TypeOK'
  <2>1. net' \in [Node \X Node -> Seq(Message)]
    <3>1. <<>> \in Seq(Message) /\ net \in [Node \X Node -> Seq(Message)]
      BY DEF TypeOK
    <3>2. net' = [net EXCEPT ![<<m, n>>] = <<>>, ![<<n, m>>] = <<>>]
      BY <1>4 DEF Disconnect
    <3> DEFINE q == [net EXCEPT ![<<m, n>>] = <<>>]
    <3>3. q \in [Node \X Node -> Seq(Message)]
      BY <3>1
    <3>4. [q EXCEPT ![<<n, m>>] = <<>>] \in [Node \X Node -> Seq(Message)]
      <4> HIDE DEF q
      <4> QED BY <3>1, <3>3
    <3> QED BY <3>2, <3>4
  <2>2. faults' \in [drops : Nat, crashes : Nat]
    BY <1>0, <1>4 DEF Disconnect, TypeOK
  <2> QED BY <1>4, <2>1, <2>2 DEF Disconnect, TypeOK
<1>5. ASSUME NEW m \in Node, NEW n \in Node, Reconnect(m, n) PROVE TypeOK'
  BY <1>5 DEF Reconnect, TypeOK
<1>6. ASSUME NEW n \in Node, Crash(n) PROVE TypeOK'
  <2>1. tasks' \in [Call -> [Branches -> Task]]
    BY <1>6 DEF Crash, TypeOK, Joined, Task, Attempt, Phases
  <2>2. net' \in [Node \X Node -> Seq(Message)]
    BY <1>6 DEF Crash, TypeOK
  <2>3. faults' \in [drops : Nat, crashes : Nat]
    BY <1>0, <1>6 DEF Crash, TypeOK
  <2> QED BY <1>6, <2>1, <2>2, <2>3 DEF Crash, TypeOK
<1> QED BY <1>1, <1>2, <1>3, <1>4, <1>5, <1>6

(* Every reachable state of the signing protocol is well typed, for every  *)
(* network, set of calls, rate table and number of faults.                 *)
THEOREM TypeCorrect == Spec => []TypeOK
<1>1. Init => TypeOK
  BY BoundAssumption, LinkAssumption DEF Init, Started, TypeOK, Task, Attempt, Phases
<1>2. TypeOK /\ [Next]_vars => TypeOK'
  <2>1. ASSUME TypeOK, Next PROVE TypeOK'
    BY <2>1, CallStepType, HandleType, EnvironmentType DEF Next
  <2>2. ASSUME TypeOK, UNCHANGED vars PROVE TypeOK'
    BY <2>2 DEF TypeOK, vars
  <2> QED BY <2>1, <2>2
<1> QED BY <1>1, <1>2, PTL DEF Spec

-----------------------------------------------------------------------------
(* Single use of secret nonces.  Four ways to change sessions. *)

(* Sessions only disappear. *)
LEMMA NonceDrop ==
  ASSUME NonceInv, sessions' \subseteq sessions, UNCHANGED <<drawn, signed>>
  PROVE  NonceInv'
  BY DEF NonceInv, NonceUsedOnce

(* start_session opens one session with the next nonce. *)
LEMMA NonceOpen ==
  ASSUME TypeOK, NonceInv, NEW n \in Node, NEW new \in Session,
         new.node = n, new.secret = drawn[n] + 1,
         sessions' \subseteq sessions \cup {new},
         drawn' = [drawn EXCEPT ![n] = @ + 1], signed' = signed
  PROVE  NonceInv'
<1>1. /\ \A s \in sessions : s.node \in Node /\ s.secret \in Nat
      /\ \A p \in signed : p.signer \in Node /\ p.nonce \in Nat
      /\ \A m \in Node : drawn[m] \in Nat
  BY DEF TypeOK, Session, Partial
<1>2. \A m \in Node : drawn'[m] = IF m = n THEN drawn[m] + 1 ELSE drawn[m]
  BY DEF TypeOK
<1>3. /\ \A s \in sessions : s.secret <= drawn[s.node]
      /\ \A p \in signed : p.nonce <= drawn[p.signer]
  BY DEF NonceInv
<1>4. \A s \in sessions' : s.secret <= drawn'[s.node]
  BY <1>1, <1>2, <1>3
<1>5. \A p \in signed' : p.nonce <= drawn'[p.signer]
  BY <1>1, <1>2, <1>3
<1>6. \A s \in sessions : s.node = n => s.secret # new.secret
  BY <1>1, <1>3
<1>7. \A p \in signed : p.signer = n => p.nonce # new.secret
  BY <1>1, <1>3
<1>8. \A s, t \in sessions' :
        s.node = t.node /\ s.secret = t.secret /\ s.secret # 0 => s = t
  BY <1>6 DEF NonceInv
<1>9. \A s \in sessions' : \A p \in signed' :
        s.node = p.signer /\ s.secret # 0 => s.secret # p.nonce
  BY <1>7 DEF NonceInv
<1> QED BY <1>4, <1>5, <1>8, <1>9 DEF NonceInv, NonceUsedOnce

(* A session receives a contribution and keeps its secret nonce. *)
LEMMA NonceKeep ==
  ASSUME NonceInv, NEW old \in sessions, NEW new,
         new.node = old.node, new.secret = old.secret,
         sessions' \subseteq (sessions \ {old}) \cup {new},
         UNCHANGED <<drawn, signed>>
  PROVE  NonceInv'
  BY DEF NonceInv, NonceUsedOnce

(* accept_nonces takes the secret nonce and signs with it. *)
LEMMA NonceTake ==
  ASSUME TypeOK, NonceInv, NEW old \in sessions, NEW new, NEW p,
         new.node = old.node, new.secret = 0, old.secret # 0,
         p.signer = old.node, p.nonce = old.secret,
         sessions' \subseteq (sessions \ {old}) \cup {new},
         signed' = signed \cup {p}, drawn' = drawn
  PROVE  NonceInv'
<1>1. \A s \in sessions' : s.secret <= drawn'[s.node]
  <2>1. drawn[old.node] \in Nat
    BY DEF TypeOK, Session
  <2> QED BY <2>1 DEF NonceInv
<1>2. \A q \in signed' : q.nonce <= drawn'[q.signer]
  BY DEF NonceInv
<1>3. \A s, t \in sessions' :
        s.node = t.node /\ s.secret = t.secret /\ s.secret # 0 => s = t
  BY DEF NonceInv
<1>4. \A s \in sessions' : s.node = p.signer /\ s.secret # 0 => s.secret # p.nonce
  BY DEF NonceInv
<1>5. \A s \in sessions' : \A q \in signed' :
        s.node = q.signer /\ s.secret # 0 => s.secret # q.nonce
  BY <1>4 DEF NonceInv
<1>6. \A q \in signed : q.signer = p.signer => q.nonce # p.nonce
  BY DEF NonceInv
<1>7. NonceUsedOnce'
  BY <1>6 DEF NonceInv, NonceUsedOnce
<1> QED BY <1>1, <1>2, <1>3, <1>5, <1>7 DEF NonceInv

(* complete_session keeps the node and the secret nonce. *)
LEMMA CheckKeeps ==
  ASSUME NEW s \in Session
  PROVE  Check(s).node = s.node /\ Check(s).secret = s.secret
  BY DEF Check, Session

(* complete_session touches no secret nonce. *)
LEMMA CompleteKeeps ==
  ASSUME NEW old, NEW new \in Session, CompleteSession(old, new)
  PROVE  \E kept : /\ kept.node = new.node /\ kept.secret = new.secret
                   /\ sessions' \subseteq (sessions \ {old}) \cup {kept}
<1>1. CASE Complete(new)
  BY <1>1 DEF CompleteSession
<1>2. CASE ~Complete(new)
  BY <1>2, CheckKeeps DEF CompleteSession
<1> QED BY <1>1, <1>2

(* Steps of a call draw fresh nonces and sign nothing. *)
LEMMA CallStepNonce ==
  ASSUME TypeOK, NonceInv, NEW c \in Call, CallStep(c)
  PROVE  NonceInv'
<1>1. ASSUME NEW b \in Branches, Launch(c, b) PROVE NonceInv'
  <2> DEFINE n == Caller[c]
             new == NewSession(n, HashOf(c, b), n, drawn[n] + 1, c)
  <2>1. n \in Node /\ drawn[n] + 1 \in Nat
    BY CallAssumption DEF TypeOK
  <2>2. new \in Session
    BY <2>1, HashOfType, NewSessionType
  <2>3. new.node = n /\ new.secret = drawn[n] + 1
    BY DEF NewSession
  <2>4. \/ sessions' \subseteq sessions /\ drawn' = drawn /\ signed' = signed
        \/ /\ sessions' \subseteq sessions \cup {new}
           /\ drawn' = [drawn EXCEPT ![n] = @ + 1]
           /\ signed' = signed
    BY <1>1 DEF Launch, RemoveExpiredSessions
  <2> HIDE DEF new, n
  <2> QED BY <2>1, <2>2, <2>3, <2>4, NonceDrop, NonceOpen
<1>2. ASSUME NEW o, EndCall(c, o) PROVE sessions' \subseteq sessions /\ UNCHANGED <<drawn, signed>>
  BY <1>2 DEF EndCall
<1>3. CASE ~\E b \in Branches : Launch(c, b)
  <2>1. sessions' \subseteq sessions /\ UNCHANGED <<drawn, signed>>
    BY <1>2, <1>3 DEF CallStep, Begin, StopFilling, GiveUp, SkipBranch, SendInitial,
       SendNonces, Await, FailAttempt, JoinOk, JoinFailed, RemoveExpiredSessions
  <2> QED BY <2>1, NonceDrop
<1> QED BY <1>1, <1>3

(* A handled request draws a fresh nonce. *)
LEMMA HandleRequestNonce ==
  ASSUME TypeOK, NonceInv, NEW n \in Node, NEW m \in Node, HandleRequest(n, m)
  PROVE  NonceInv'
<1> DEFINE msg == Head(net[<<m, n>>])
           new == NewSession(n, msg.h, m, drawn[n] + 1, NoCall)
<1>1. msg.h \in Hash
  BY ConsumedType DEF HandleRequest, Receivable, Message
<1>2. drawn[n] + 1 \in Nat
  BY DEF TypeOK
<1>3. new \in Session
  BY <1>1, <1>2, NewSessionType
<1>4. new.node = n /\ new.secret = drawn[n] + 1
  BY DEF NewSession
<1>5. \/ sessions' \subseteq sessions /\ drawn' = drawn /\ signed' = signed
      \/ /\ sessions' \subseteq sessions \cup {new}
         /\ drawn' = [drawn EXCEPT ![n] = @ + 1]
         /\ signed' = signed
  BY DEF HandleRequest, RemoveExpiredSessions
<1> HIDE DEF new, msg
<1> QED BY <1>3, <1>4, <1>5, NonceDrop, NonceOpen

(* accept_nonces takes the secret nonce it signs with. *)
LEMMA AcceptNoncesNonce ==
  ASSUME TypeOK, NonceInv, NEW n \in Node, NEW m \in Node, AcceptNonces(n, m)
  PROVE  NonceInv'
<1> DEFINE msg == Head(net[<<m, n>>])
           noted(s) == [s EXCEPT !.nonces[m] = msg.nonce]
           share(s) == PartialSign(noted(s))
           signs(s) == noted(s).secret # 0 /\ AllNonces(noted(s))
           new(s) == IF signs(s)
                       THEN [noted(s) EXCEPT !.secret = 0,
                                             !.partials = @ \cup {share(s)}]
                       ELSE noted(s)
<1>1. PICK s \in Target(n, msg) :
        /\ CompleteSession(s, new(s))
        /\ signed' = IF signs(s) THEN signed \cup {share(s)} ELSE signed
  BY DEF AcceptNonces
<1>2. s \in sessions /\ s \in Session /\ drawn' = drawn
  BY <1>1 DEF Target, SessionAt, TypeOK, AcceptNonces
<1>3. noted(s) \in Session /\ noted(s).node = s.node /\ noted(s).secret = s.secret
  <2>1. msg.nonce \in Nat
    BY ConsumedType DEF AcceptNonces, Receivable, Message
  <2>2. [s.nonces EXCEPT ![m] = msg.nonce] \in [Node -> Nat]
    BY <1>2, <2>1 DEF Session
  <2> QED BY <1>2, <2>2 DEF Session
<1>4. share(s) \in Partial /\ share(s).signer = s.node /\ share(s).nonce = s.secret
  BY <1>3, PartialSignType DEF PartialSign
<1>5. /\ new(s) \in Session
      /\ new(s).node = s.node
      /\ new(s).secret = IF signs(s) THEN 0 ELSE s.secret
  <2> HIDE DEF noted, share, signs
  <2>1. noted(s).partials \cup {share(s)} \in SUBSET Partial
    BY <1>3, <1>4 DEF Session
  <2> QED BY <1>3, <2>1 DEF Session
<1>6. signs(s) => s.secret # 0
  BY <1>3
<1> HIDE DEF noted, share, signs, new
<1>7. PICK kept : /\ kept.node = new(s).node /\ kept.secret = new(s).secret
                  /\ sessions' \subseteq (sessions \ {s}) \cup {kept}
  BY <1>1, <1>5, CompleteKeeps
<1>8. CASE signs(s)
  BY <1>1, <1>2, <1>4, <1>5, <1>6, <1>7, <1>8, NonceTake
<1>9. CASE ~signs(s)
  BY <1>1, <1>2, <1>5, <1>7, <1>9, NonceKeep
<1> QED BY <1>8, <1>9

(* accept_partial_signatures signs nothing. *)
LEMMA AcceptPartialsNonce ==
  ASSUME TypeOK, NonceInv, NEW n \in Node, NEW m \in Node, AcceptPartialSignatures(n, m)
  PROVE  NonceInv'
<1> DEFINE msg == Head(net[<<m, n>>])
           new(s) == NotePartial(s, m, msg.partial)
<1>1. PICK s \in Target(n, msg) : CompleteSession(s, new(s))
  BY DEF AcceptPartialSignatures
<1>2. s \in sessions /\ s \in Session /\ UNCHANGED <<drawn, signed>>
  BY <1>1 DEF Target, SessionAt, TypeOK, AcceptPartialSignatures
<1>3. msg.partial \in Partial
  BY ConsumedType DEF AcceptPartialSignatures, Receivable, Message
<1>4. new(s) \in Session /\ new(s).node = s.node /\ new(s).secret = s.secret
  BY <1>2, <1>3, NotePartialType
<1> HIDE DEF new
<1>5. PICK kept : /\ kept.node = new(s).node /\ kept.secret = new(s).secret
                  /\ sessions' \subseteq (sessions \ {s}) \cup {kept}
  BY <1>1, <1>4, CompleteKeeps
<1> QED BY <1>2, <1>4, <1>5, NonceKeep

(* Time changes no nonce. *)
LEMMA TickNonce ==
  ASSUME TypeOK, NonceInv, Tick
  PROVE  NonceInv'
<1>1. \A s \in sessions : Aged(s).node = s.node /\ Aged(s).secret = s.secret
  BY DEF Aged, TypeOK, Session
<1>2. sessions' = {Aged(s) : s \in sessions} /\ UNCHANGED <<drawn, signed>>
  BY DEF Tick
<1> QED BY <1>1, <1>2 DEF NonceInv, NonceUsedOnce

(* No node ever makes two different partial signatures from one secret     *)
(* nonce, in any network, with any retries, timeouts, lost links and       *)
(* restarts (start_session draws, accept_nonces takes).                    *)
THEOREM NonceSafety == Spec => []NonceUsedOnce
<1>1. Init => NonceInv
  BY DEF Init, Started, NonceInv, NonceUsedOnce
<1>2. TypeOK /\ NonceInv /\ [Next]_vars => NonceInv'
  <2> SUFFICES ASSUME TypeOK, NonceInv, [Next]_vars PROVE NonceInv'
    OBVIOUS
  <2>1. ASSUME NEW c \in Call, CallStep(c) PROVE NonceInv'
    BY <2>1, CallStepNonce
  <2>2. ASSUME NEW n \in Node, NEW m \in Node, Handle(n, m) PROVE NonceInv'
    <3>1. ASSUME Refuse(n, m) \/ IgnoreNonces(n, m) \/ IgnorePartials(n, m) PROVE NonceInv'
      BY <3>1, NonceDrop DEF Refuse, IgnoreNonces, IgnorePartials
    <3> QED BY <2>2, <3>1, HandleRequestNonce, AcceptNoncesNonce, AcceptPartialsNonce DEF Handle
  <2>3. CASE Tick
    BY <2>3, TickNonce
  <2>4. ASSUME \/ \E o \in sending : SendFromHandle(o)
               \/ \E n \in Node : Cleanup(n) \/ Crash(n)
               \/ \E m, n \in Node : Disconnect(m, n) \/ Reconnect(m, n)
               \/ UNCHANGED vars
        PROVE  NonceInv'
    <3>1. sessions' \subseteq sessions /\ UNCHANGED <<drawn, signed>>
      BY <2>4 DEF SendFromHandle, Cleanup, RemoveExpiredSessions, Crash, Disconnect,
         Reconnect, vars
    <3> QED BY <3>1, NonceDrop
  <2> QED BY <2>1, <2>2, <2>3, <2>4 DEF Next
<1>3. NonceInv => NonceUsedOnce
  BY DEF NonceInv
<1> QED BY <1>1, <1>2, <1>3, TypeCorrect, PTL DEF Spec

-----------------------------------------------------------------------------
(* The arithmetic of the threshold. *)
LEMMA ThresholdOverlap ==
  ASSUME NEW k \in Nat, k >= 3
  PROVE  /\ MinimumThreshold(k) \in Nat
         /\ 2 * MinimumThreshold(k) - k > (k - 1) \div 3
  BY DEF MinimumThreshold

(* Two branches share more than a third of the members. *)
LEMMA BranchesIntersect ==
  ASSUME NEW a \in Branches, NEW b \in Branches
  PROVE  Cardinality(a \cap b) > (Cardinality(Node) - 1) \div 3
<1> DEFINE k == Cardinality(Node)
<1>1. k \in Nat /\ k >= 3
  BY NodeAssumption, MembersAssumption, FS_CardinalityType
<1>2. /\ a \subseteq Node /\ b \subseteq Node
      /\ Cardinality(a) = MinimumThreshold(k) /\ Cardinality(b) = MinimumThreshold(k)
  BY DEF Branches
<1>3. IsFiniteSet(a) /\ IsFiniteSet(b) /\ IsFiniteSet(a \cap b)
  BY <1>2, NodeAssumption, FS_Subset, FS_Intersection
<1>4. Cardinality(a \cup b) = Cardinality(a) + Cardinality(b) - Cardinality(a \cap b)
  BY <1>3, FS_Union
<1>5. Cardinality(a \cup b) \in Nat /\ Cardinality(a \cup b) <= k
  <2>1. a \cup b \subseteq Node
    BY <1>2
  <2> QED BY <2>1, NodeAssumption, FS_Subset, FS_CardinalityType
<1>6. Cardinality(a \cap b) \in Nat
  BY <1>3, FS_CardinalityType
<1>7. MinimumThreshold(k) \in Nat /\ 2 * MinimumThreshold(k) - k > (k - 1) \div 3
  <2> HIDE DEF k
  <2> QED BY <1>1, ThresholdOverlap
<1> HIDE DEF k
<1>8. Cardinality(a \cap b) >= 2 * MinimumThreshold(k) - k
  BY <1>1, <1>2, <1>4, <1>5, <1>6, <1>7
<1>9. (k - 1) \div 3 \in Int
  BY <1>1
<1> QED BY <1>1, <1>6, <1>7, <1>8, <1>9 DEF k

(* A live session shares more signers with every branch than the network   *)
(* can have faulty, for every number of members (minimum_threshold).       *)
THEOREM QuorumsIntersect == Spec => []BranchesOverlap
<1>1. TypeOK => BranchesOverlap
  <2> SUFFICES ASSUME TypeOK, NEW s \in sessions, NEW b \in Branches
               PROVE  Cardinality(s.h.branch \cap b) > (Cardinality(Node) - 1) \div 3
    BY DEF BranchesOverlap
  <2>1. s.h.branch \in Branches
    BY DEF TypeOK, Session, Hash
  <2> QED BY <2>1, BranchesIntersect
<1> QED BY <1>1, TypeCorrect, PTL

-----------------------------------------------------------------------------
(* The cached verification of contributions. *)

(* A nonempty set of naturals has a least element. *)
LEMMA NatHasMin ==
  ASSUME NEW S \in SUBSET Nat, S # {}
  PROVE  \E i \in S : \A j \in S : i <= j
<1>1. PICK i \in S : \A j \in S : <<j, i>> \notin OpToRel(<, Nat)
  BY WFMin, NatLessThanWellFounded, Zenon
<1>2. \A j \in S : i <= j
  <2> TAKE j \in S
  <2>1. ~(j < i)
    BY <1>1, Zenon DEF OpToRel
  <2> QED BY <2>1
<1> QED BY <1>2

(* A contribution is marked as verified only once the nonces of the whole  *)
(* branch are there: from then on the aggregate nonce does not change.     *)
VerifiedInv ==
  /\ VerifiedIsCurrent
  /\ \A s \in sessions : s.verified # {} => AllNonces(s)

(* The same of one session. *)
Current(s) ==
  /\ \A p \in s.partials : p.signer \in s.verified => VerifySignerPartials(s, p)
  /\ s.verified # {} => AllNonces(s)

(* An invalid contribution comes first among the invalid ones. *)
LEMMA FirstInvalid ==
  ASSUME NEW s \in Session, Invalid(s) # {}
  PROVE  \E p \in Invalid(s) : \A q \in Invalid(s) : p.signer <= q.signer
<1> DEFINE S == {p.signer : p \in Invalid(s)}
<1>1. S \in SUBSET Nat /\ S # {}
  BY NodeAssumption DEF Session, Partial, Invalid
<1>2. PICK i \in S : \A j \in S : i <= j
  <2> HIDE DEF S
  <2> QED BY <1>1, NatHasMin
<1> QED BY <1>2

(* What complete_session leaves of a session. *)
LEMMA CheckFields ==
  ASSUME NEW s \in Session
  PROVE  LET t == Check(s) IN
         /\ t.node = s.node /\ t.h = s.h /\ t.requestor = s.requestor
         /\ t.hashes = s.hashes /\ t.nonces = s.nonces /\ t.secret = s.secret
         /\ t.call = s.call /\ t.age = s.age
         /\ t.partials \subseteq s.partials
         /\ \/ t.verified = s.verified /\ t.partials = s.partials
            \/ /\ AllNonces(s) /\ Invalid(s) = {} /\ t.partials = s.partials
               /\ t.verified = s.verified \cup {p.signer : p \in s.partials}
            \/ /\ AllNonces(s)
               /\ \E bad \in Invalid(s) :
                    /\ \A q \in Invalid(s) : bad.signer <= q.signer
                    /\ t.partials = s.partials \ {bad}
                    /\ t.verified = s.verified \cup
                         {p.signer : p \in {q \in s.partials : q.signer < bad.signer}}
<1> DEFINE bad == CHOOSE p \in Invalid(s) : \A q \in Invalid(s) : p.signer <= q.signer
           left == [s EXCEPT !.partials = @ \ {bad},
                             !.verified = @ \cup {p.signer : p \in {q \in s.partials :
                                                     q.signer < bad.signer}}]
           all == [s EXCEPT !.verified = @ \cup {p.signer : p \in s.partials}]
<1>1. CASE s.requestor # s.node \/ ~AllNonces(s)
  <2>1. Check(s) = s
    BY <1>1 DEF Check
  <2> QED BY <2>1
<1>2. CASE s.requestor = s.node /\ AllNonces(s) /\ Invalid(s) = {}
  <2>1. Check(s) = all
    BY <1>2 DEF Check
  <2>2. /\ all.node = s.node /\ all.h = s.h /\ all.requestor = s.requestor
        /\ all.hashes = s.hashes /\ all.nonces = s.nonces /\ all.secret = s.secret
        /\ all.call = s.call /\ all.age = s.age /\ all.partials = s.partials
        /\ all.verified = s.verified \cup {p.signer : p \in s.partials}
    BY DEF Session
  <2> HIDE DEF all
  <2> QED BY <1>2, <2>1, <2>2
<1>3. CASE s.requestor = s.node /\ AllNonces(s) /\ Invalid(s) # {}
  <2>1. Check(s) = left
    BY <1>3 DEF Check
  <2>2. bad \in Invalid(s) /\ \A q \in Invalid(s) : bad.signer <= q.signer
    BY <1>3, FirstInvalid
  <2>3. /\ left.node = s.node /\ left.h = s.h /\ left.requestor = s.requestor
        /\ left.hashes = s.hashes /\ left.nonces = s.nonces /\ left.secret = s.secret
        /\ left.call = s.call /\ left.age = s.age
        /\ left.partials = s.partials \ {bad}
        /\ left.verified = s.verified \cup
             {p.signer : p \in {q \in s.partials : q.signer < bad.signer}}
    BY DEF Session
  <2> HIDE DEF left, bad
  <2> QED BY <1>3, <2>1, <2>2, <2>3
<1> QED BY <1>1, <1>2, <1>3

(* Verification reads the branch, the nonces and the hashes only. *)
LEMMA SameVerification ==
  ASSUME NEW s, NEW t, s.h = t.h, s.nonces = t.nonces, s.hashes = t.hashes
  PROVE  /\ AllNonces(s) <=> AllNonces(t)
         /\ Aggregate(s) = Aggregate(t)
         /\ \A p : VerifySignerPartials(s, p) <=> VerifySignerPartials(t, p)
  BY DEF AllNonces, Aggregate, VerifySignerPartials

(* complete_session marks nothing that is not valid. *)
LEMMA CheckCurrent ==
  ASSUME NEW s \in Session, Current(s)
  PROVE  Current(Check(s))
<1> DEFINE t == Check(s)
<1>1. /\ AllNonces(s) <=> AllNonces(t)
      /\ \A p : VerifySignerPartials(s, p) <=> VerifySignerPartials(t, p)
  BY CheckFields, SameVerification
<1>2. \A p \in s.partials : p.signer \in Nat
  BY NodeAssumption DEF Session, Partial
<1> HIDE DEF t
<1>3. CASE t.verified = s.verified /\ t.partials = s.partials
  BY <1>1, <1>3 DEF Current, t
<1>4. CASE /\ AllNonces(s) /\ Invalid(s) = {} /\ t.partials = s.partials
  BY <1>1, <1>4 DEF Current, Invalid, t
<1>5. ASSUME AllNonces(s), NEW bad \in Invalid(s),
             \A q \in Invalid(s) : bad.signer <= q.signer,
             t.partials = s.partials \ {bad},
             t.verified = s.verified \cup
               {p.signer : p \in {q \in s.partials : q.signer < bad.signer}}
      PROVE  Current(t)
  <2>1. ASSUME NEW p \in t.partials, p.signer \in t.verified
        PROVE  VerifySignerPartials(s, p)
    <3>1. CASE p.signer \in s.verified
      BY <1>5, <2>1, <3>1 DEF Current
    <3>2. CASE p.signer < bad.signer
      <4>1. p \notin Invalid(s)
        BY <1>2, <1>5, <3>2 DEF Invalid
      <4> QED BY <1>5, <2>1, <4>1 DEF Invalid, Current
    <3> QED BY <1>5, <2>1, <3>1, <3>2
  <2> QED BY <1>1, <1>5, <2>1 DEF Current
<1> QED BY <1>3, <1>4, <1>5, CheckFields DEF t

(* A session that is dropped, opened, aged or completed keeps its flags true. *)
LEMMA CompleteCurrent ==
  ASSUME VerifiedInv, NEW old, NEW new \in Session, Current(new),
         CompleteSession(old, new)
  PROVE  VerifiedInv'
<1>1. sessions' \subseteq sessions \cup {Check(new)}
  BY DEF CompleteSession
<1>2. \A s \in sessions' : Current(s)
  BY <1>1, CheckCurrent DEF VerifiedInv, VerifiedIsCurrent, Current
<1> QED BY <1>2 DEF VerifiedInv, VerifiedIsCurrent, Current

(* The nonces of a well-typed session are noted one by one. *)
LEMMA NotedType ==
  ASSUME NEW s \in Session, NEW m \in Node, NEW k \in Nat
  PROVE  LET t == [s EXCEPT !.nonces[m] = k] IN
         /\ t \in Session
         /\ t.node = s.node /\ t.h = s.h /\ t.requestor = s.requestor
         /\ t.hashes = s.hashes /\ t.partials = s.partials /\ t.verified = s.verified
         /\ t.secret = s.secret /\ t.call = s.call /\ t.age = s.age
         /\ t.nonces = [s.nonces EXCEPT ![m] = k]
<1>1. [s.nonces EXCEPT ![m] = k] \in [Node -> Nat]
  BY DEF Session
<1> QED BY <1>1 DEF Session

(* What accept_nonces does, with names for its parts. *)
Noted(s, m, k) == [s EXCEPT !.nonces[m] = k]
SignsWith(s) == s.secret # 0 /\ AllNonces(s)
AfterSigning(s) ==
  IF SignsWith(s)
    THEN [s EXCEPT !.secret = 0, !.partials = @ \cup {PartialSign(s)}]
    ELSE s

LEMMA AfterSigningType ==
  ASSUME NEW s \in Session
  PROVE  LET t == AfterSigning(s) IN
         /\ t \in Session
         /\ t.node = s.node /\ t.h = s.h /\ t.requestor = s.requestor
         /\ t.hashes = s.hashes /\ t.nonces = s.nonces /\ t.verified = s.verified
         /\ t.call = s.call /\ t.age = s.age
         /\ t.secret = IF SignsWith(s) THEN 0 ELSE s.secret
         /\ t.partials = IF SignsWith(s) THEN s.partials \cup {PartialSign(s)}
                                         ELSE s.partials
<1> DEFINE sh == PartialSign(s)
<1>1. s.partials \cup {sh} \in SUBSET Partial
  BY PartialSignType DEF Session
<1> HIDE DEF sh
<1>2. LET t == [s EXCEPT !.secret = 0, !.partials = @ \cup {sh}] IN
         /\ t \in Session
         /\ t.node = s.node /\ t.h = s.h /\ t.requestor = s.requestor
         /\ t.hashes = s.hashes /\ t.nonces = s.nonces /\ t.verified = s.verified
         /\ t.call = s.call /\ t.age = s.age
         /\ t.secret = 0 /\ t.partials = s.partials \cup {sh}
  BY <1>1 DEF Session
<1> QED BY <1>2 DEF AfterSigning, sh

(* The effect of accept_nonces on the session it found. *)
LEMMA AcceptNoncesEffect ==
  ASSUME TypeOK, NEW n \in Node, NEW m \in Node, AcceptNonces(n, m)
  PROVE  LET msg == Head(net[<<m, n>>]) IN
         /\ net[<<m, n>>] # <<>> /\ msg \in Message /\ msg.nonce \in Nat \ {0}
         /\ msg.kind = "nonces"
         /\ net' = Consumed(m, n) /\ UNCHANGED <<calls, up, drawn, faults>>
         /\ \E s \in sessions :
              LET t == Noted(s, m, msg.nonce) IN
              /\ s \in Session /\ t \in Session
              /\ s.node = n /\ s.h = msg.h
              /\ m \in s.h.branch /\ s.nonces[m] = 0
              /\ CompleteSession(s, AfterSigning(t))
              /\ signed' = IF SignsWith(t) THEN signed \cup {PartialSign(t)} ELSE signed
              /\ sending' = IF SignsWith(t) /\ ~CheckFailed(AfterSigning(t))
                              THEN sending \cup
                                {[node |-> n, conn |-> m,
                                  msg |-> [kind |-> "partials", h |-> s.h,
                                           partial |-> PartialSign(t)]]}
                              ELSE sending
<1> DEFINE msg == Head(net[<<m, n>>])
<1>1. net[<<m, n>>] # <<>> /\ msg.kind = "nonces"
  BY DEF AcceptNonces, Receivable
<1>2. msg \in Message /\ msg.nonce \in Nat \ {0}
  BY <1>1, ConsumedType DEF Message
<1>3. net' = Consumed(m, n) /\ UNCHANGED <<calls, up, drawn, faults>>
  BY DEF AcceptNonces
<1>4. PICK s \in Target(n, msg) :
        LET t == Noted(s, m, msg.nonce) IN
        /\ m \in s.h.branch /\ s.nonces[m] = 0
        /\ CompleteSession(s, AfterSigning(t))
        /\ signed' = IF SignsWith(t) THEN signed \cup {PartialSign(t)} ELSE signed
        /\ sending' = IF SignsWith(t) /\ ~CheckFailed(AfterSigning(t))
                        THEN sending \cup
                          {[node |-> n, conn |-> m,
                            msg |-> [kind |-> "partials", h |-> s.h,
                                     partial |-> PartialSign(t)]]}
                        ELSE sending
  BY DEF AcceptNonces, AfterSigning, SignsWith, Noted
<1>5. s \in sessions /\ s \in Session /\ s.node = n /\ s.h = msg.h
  BY DEF Target, SessionAt, TypeOK
<1>6. Noted(s, m, msg.nonce) \in Session
  BY <1>2, <1>5, NotedType DEF Noted
<1> HIDE DEF msg
<1> QED BY <1>1, <1>2, <1>3, <1>4, <1>5, <1>6 DEF msg

(* The effect of accept_partial_signatures on the session it found. *)
LEMMA AcceptPartialsEffect ==
  ASSUME TypeOK, NEW n \in Node, NEW m \in Node, AcceptPartialSignatures(n, m)
  PROVE  LET msg == Head(net[<<m, n>>]) IN
         /\ net[<<m, n>>] # <<>> /\ msg \in Message /\ msg.partial \in Partial
         /\ msg.kind = "partials"
         /\ net' = Consumed(m, n)
         /\ UNCHANGED <<calls, sending, up, drawn, signed, faults>>
         /\ \E s \in sessions :
              LET t == NotePartial(s, m, msg.partial) IN
              /\ s \in Session /\ t \in Session
              /\ s.node = n /\ s.h = msg.h
              /\ AllNonces(s) => VerifySignerPartials(s, msg.partial)
              /\ ~Contributed(s, m)
              /\ t.node = s.node /\ t.h = s.h /\ t.hashes = s.hashes
              /\ t.nonces = s.nonces /\ t.secret = s.secret /\ t.call = s.call
              /\ t.partials = s.partials \cup {msg.partial}
              /\ t.verified = IF AllNonces(s) THEN s.verified \cup {m} ELSE s.verified
              /\ CompleteSession(s, t)
<1> DEFINE msg == Head(net[<<m, n>>])
<1>1. net[<<m, n>>] # <<>> /\ msg.kind = "partials"
  BY DEF AcceptPartialSignatures, Receivable
<1>2. msg \in Message /\ msg.partial \in Partial
  BY <1>1, ConsumedType DEF Message
<1>3. net' = Consumed(m, n) /\ UNCHANGED <<calls, sending, up, drawn, signed, faults>>
  BY DEF AcceptPartialSignatures
<1>4. PICK s \in Target(n, msg) :
        /\ AllNonces(s) => VerifySignerPartials(s, msg.partial)
        /\ ~Contributed(s, m)
        /\ CompleteSession(s, NotePartial(s, m, msg.partial))
  BY DEF AcceptPartialSignatures
<1>5. s \in sessions /\ s \in Session /\ s.node = n /\ s.h = msg.h
  BY DEF Target, SessionAt, TypeOK
<1> HIDE DEF msg
<1> DEFINE t == NotePartial(s, m, msg.partial)
<1>6. t \in Session
  BY <1>2, <1>5, NotePartialType
<1>7. /\ t.node = s.node /\ t.h = s.h /\ t.hashes = s.hashes
      /\ t.nonces = s.nonces /\ t.secret = s.secret /\ t.call = s.call
      /\ t.partials = s.partials \cup {msg.partial}
      /\ t.verified = IF AllNonces(s) THEN s.verified \cup {m} ELSE s.verified
  BY <1>5 DEF NotePartial, Session
<1> HIDE DEF t
<1> QED BY <1>1, <1>2, <1>3, <1>4, <1>5, <1>6, <1>7 DEF msg, t

(* start_session and the attempts of a call. *)
LEMMA CallStepSessions ==
  ASSUME TypeOK, NEW c \in Call, CallStep(c)
  PROVE  \/ sessions' \subseteq sessions
         \/ \E b \in Branches :
              sessions' \subseteq sessions \cup
                {NewSession(Caller[c], HashOf(c, b), Caller[c], drawn[Caller[c]] + 1, c)}
<1>1. ASSUME NEW b \in Branches, Launch(c, b)
      PROVE  \/ sessions' \subseteq sessions
             \/ sessions' \subseteq sessions \cup
                {NewSession(Caller[c], HashOf(c, b), Caller[c], drawn[Caller[c]] + 1, c)}
  BY <1>1 DEF Launch, RemoveExpiredSessions
<1>2. ASSUME NEW o, EndCall(c, o) PROVE sessions' \subseteq sessions
  BY <1>2 DEF EndCall
<1>3. CASE ~\E b \in Branches : Launch(c, b)
  BY <1>2, <1>3 DEF CallStep, Begin, StopFilling, GiveUp, SkipBranch, SendInitial,
     SendNonces, Await, FailAttempt, JoinOk, JoinFailed, RemoveExpiredSessions
<1> QED BY <1>1, <1>3

(* The environment and the handlers that ignore a message open nothing. *)
LEMMA OtherSessions ==
  ASSUME \/ \E n, m \in Node : Refuse(n, m) \/ IgnoreNonces(n, m) \/ IgnorePartials(n, m)
         \/ \E o \in sending : SendFromHandle(o)
         \/ \E n \in Node : Cleanup(n) \/ Crash(n)
         \/ \E m, n \in Node : Disconnect(m, n) \/ Reconnect(m, n)
         \/ UNCHANGED vars
  PROVE  sessions' \subseteq sessions /\ UNCHANGED <<drawn, signed, results>>
  BY DEF Refuse, IgnoreNonces, IgnorePartials, SendFromHandle, Cleanup,
     RemoveExpiredSessions, Crash, Disconnect, Reconnect, vars

(* A new session has no contribution and nothing verified. *)
LEMMA NewSessionCurrent ==
  ASSUME NEW n, NEW h, NEW r, NEW k, NEW c
  PROVE  Current(NewSession(n, h, r, k, c))
  BY DEF Current, NewSession

(* The strengthened invariant of the flags. *)
LEMMA VerifiedInvariance == Spec => []VerifiedInv
<1>1. Init => VerifiedInv
  BY DEF Init, Started, VerifiedInv, VerifiedIsCurrent
<1>2. TypeOK /\ VerifiedInv /\ [Next]_vars => VerifiedInv'
  <2> SUFFICES ASSUME TypeOK, VerifiedInv, [Next]_vars PROVE VerifiedInv'
    OBVIOUS
  <2>0. \A s \in sessions : Current(s)
    BY DEF VerifiedInv, VerifiedIsCurrent, Current
  <2>1. ASSUME \A s \in sessions' : Current(s) PROVE VerifiedInv'
    BY <2>1 DEF VerifiedInv, VerifiedIsCurrent, Current
  <2>2. ASSUME NEW c \in Call, CallStep(c) PROVE VerifiedInv'
    BY <2>0, <2>1, <2>2, CallStepSessions, NewSessionCurrent
  <2>3. ASSUME NEW n \in Node, NEW m \in Node, HandleRequest(n, m) PROVE VerifiedInv'
    <3>1. \E h : sessions' \subseteq sessions \cup
                   {NewSession(n, h, m, drawn[n] + 1, NoCall)}
      BY <2>3 DEF HandleRequest, RemoveExpiredSessions
    <3> QED BY <2>0, <2>1, <3>1, NewSessionCurrent
  <2>4. ASSUME NEW n \in Node, NEW m \in Node, AcceptNonces(n, m) PROVE VerifiedInv'
    <3> DEFINE k == Head(net[<<m, n>>]).nonce
    <3>1. PICK s \in sessions :
            /\ s \in Session /\ Noted(s, m, k) \in Session
            /\ m \in s.h.branch /\ s.nonces[m] = 0
            /\ CompleteSession(s, AfterSigning(Noted(s, m, k)))
            /\ k \in Nat
      BY <2>4, AcceptNoncesEffect
    <3> HIDE DEF k
    <3>2. s.verified = {}
      BY <3>1 DEF VerifiedInv, AllNonces
    <3>3. AfterSigning(Noted(s, m, k)).verified = {}
      <4>1. Noted(s, m, k).verified = s.verified
        BY <3>1, NotedType DEF Noted
      <4> QED BY <3>1, <3>2, <4>1, AfterSigningType
    <3>4. Current(AfterSigning(Noted(s, m, k)))
      BY <3>3 DEF Current
    <3> QED BY <3>1, <3>4, AfterSigningType, CompleteCurrent
  <2>5. ASSUME NEW n \in Node, NEW m \in Node, AcceptPartialSignatures(n, m)
        PROVE  VerifiedInv'
    <3> DEFINE p == Head(net[<<m, n>>]).partial
    <3>1. PICK s \in sessions :
            LET t == NotePartial(s, m, p) IN
            /\ s \in Session /\ t \in Session
            /\ AllNonces(s) => VerifySignerPartials(s, p)
            /\ ~Contributed(s, m)
            /\ t.h = s.h /\ t.hashes = s.hashes /\ t.nonces = s.nonces
            /\ t.partials = s.partials \cup {p}
            /\ t.verified = IF AllNonces(s) THEN s.verified \cup {m} ELSE s.verified
            /\ CompleteSession(s, t)
      BY <2>5, AcceptPartialsEffect
    <3> HIDE DEF p
    <3> DEFINE t == NotePartial(s, m, p)
    <3>2. /\ AllNonces(s) <=> AllNonces(t)
          /\ \A q : VerifySignerPartials(s, q) <=> VerifySignerPartials(t, q)
      BY <3>1, SameVerification
    <3>3. Current(s)
      BY <2>0
    <3> HIDE DEF t
    <3>4. Current(t)
      BY <3>1, <3>2, <3>3 DEF Current, Contributed, t
    <3> QED BY <3>1, <3>4, CompleteCurrent DEF t
  <2>6. CASE Tick
    <3>1. ASSUME NEW s \in sessions PROVE Current(Aged(s))
      <4>1. /\ Aged(s).h = s.h /\ Aged(s).nonces = s.nonces /\ Aged(s).hashes = s.hashes
            /\ Aged(s).partials = s.partials /\ Aged(s).verified = s.verified
        BY DEF Aged, TypeOK, Session
      <4>2. /\ AllNonces(s) <=> AllNonces(Aged(s))
            /\ \A q : VerifySignerPartials(s, q) <=> VerifySignerPartials(Aged(s), q)
        BY <4>1, SameVerification
      <4> QED BY <2>0, <4>1, <4>2 DEF Current
    <3> QED BY <2>1, <2>6, <3>1 DEF Tick
  <2> QED BY <2>0, <2>1, <2>2, <2>3, <2>4, <2>5, <2>6, OtherSessions DEF Next, Handle
<1> QED BY <1>1, <1>2, TypeCorrect, PTL DEF Spec

(* The cached flag partial_signatures_verified never outlives the nonces,  *)
(* the hashes and the contribution it was computed from, for every network *)
(* and every order of messages (complete_session, accept_nonces).          *)
THEOREM VerificationSafety == Spec => []VerifiedIsCurrent
<1>1. VerifiedInv => VerifiedIsCurrent
  BY DEF VerifiedInv
<1> QED BY <1>1, VerifiedInvariance, PTL

-----------------------------------------------------------------------------
(* What the nodes have said and signed. *)

(* A message is on one of the connections from node m, or waits at m. *)
On(q, m, x) == \E n \in Node : \E i \in 1 .. Len(q[<<m, n>>]) : q[<<m, n>>][i] = x
Said(m, x) == On(net, m, x) \/ \E o \in sending : o.node = m /\ o.msg = x

LEMMA SaidNext ==
  ASSUME NEW m, NEW x
  PROVE  Said(m, x)' <=> On(net', m, x) \/ \E o \in sending' : o.node = m /\ o.msg = x
  BY DEF Said, On

(* try_send puts the message of its sender on connections and no other. *)
LEMMA SentOn ==
  ASSUME NEW q \in [Node \X Node -> Seq(Message)], NEW from \in Node, NEW to,
         NEW msg \in Message, NEW m \in Node, NEW x, On(Sent(q, from, to, msg), m, x)
  PROVE  On(q, m, x) \/ (m = from /\ x = msg)
<1>1. PICK n \in Node : \E i \in 1 .. Len(Sent(q, from, to, msg)[<<m, n>>]) :
                          Sent(q, from, to, msg)[<<m, n>>][i] = x
  BY DEF On
<1>2. \/ Sent(q, from, to, msg)[<<m, n>>] = q[<<m, n>>]
      \/ m = from /\ Sent(q, from, to, msg)[<<m, n>>] = Append(q[<<m, n>>], msg)
  BY DEF Sent
<1>3. q[<<m, n>>] \in Seq(Message)
  OBVIOUS
<1>4. CASE Sent(q, from, to, msg)[<<m, n>>] = q[<<m, n>>]
  BY <1>1, <1>4 DEF On
<1>5. CASE m = from /\ Sent(q, from, to, msg)[<<m, n>>] = Append(q[<<m, n>>], msg)
  <2> DEFINE u == q[<<m, n>>]
  <2>1. PICK i \in 1 .. Len(Append(u, msg)) : Append(u, msg)[i] = x
    BY <1>1, <1>5
  <2>2. u \in Seq(Message)
    BY <1>3
  <2>3. (\E j \in 1 .. Len(u) : u[j] = x) \/ x = msg
    <3> HIDE DEF u
    <3> QED BY <2>1, <2>2
  <2> QED BY <1>5, <2>3 DEF On
<1> QED BY <1>2, <1>4, <1>5

(* A message that is received, lost or neither was there before. *)
LEMMA ConsumedOn ==
  ASSUME TypeOK, NEW m \in Node, NEW n \in Node, net[<<m, n>>] # <<>>
  PROVE  /\ \A k \in Node : \A x : On(Consumed(m, n), k, x) => On(net, k, x)
         /\ On(net, m, Head(net[<<m, n>>]))
<1> DEFINE u == net[<<m, n>>]
<1>1. u \in Seq(Message) /\ u # <<>> /\ net \in [Node \X Node -> Seq(Message)]
  BY DEF TypeOK
<1>2. /\ \A i \in 1 .. Len(Tail(u)) : i + 1 \in 1 .. Len(u) /\ Tail(u)[i] = u[i + 1]
      /\ 1 \in 1 .. Len(u) /\ Head(u) = u[1]
  <2> HIDE DEF u
  <2> QED BY <1>1
<1>3. Consumed(m, n) = [net EXCEPT ![<<m, n>>] = Tail(u)]
  BY DEF Consumed
<1>4. ASSUME NEW k \in Node, NEW x, On(Consumed(m, n), k, x) PROVE On(net, k, x)
  <2>1. PICK l \in Node : \E i \in 1 .. Len(Consumed(m, n)[<<k, l>>]) :
                             Consumed(m, n)[<<k, l>>][i] = x
    BY <1>4 DEF On
  <2>2. CASE k = m /\ l = n
    <3>1. Consumed(m, n)[<<k, l>>] = Tail(u)
      BY <1>1, <1>3, <2>2
    <3> HIDE DEF u
    <3>2. \E i \in 1 .. Len(u) : u[i] = x
      BY <1>2, <2>1, <3>1
    <3> QED BY <2>2, <3>2 DEF On, u
  <2>3. CASE ~(k = m /\ l = n)
    <3>1. Consumed(m, n)[<<k, l>>] = net[<<k, l>>]
      BY <1>1, <1>3, <2>3
    <3> QED BY <2>1, <3>1 DEF On
  <2> QED BY <2>2, <2>3
<1>5. On(net, m, Head(u))
  BY <1>2 DEF On
<1> QED BY <1>4, <1>5

(* At the start nothing is said. *)
LEMMA NothingSaid ==
  ASSUME Init, NEW m \in Node, NEW x
  PROVE  ~Said(m, x)
<1>1. \A n \in Node : net[<<m, n>>] = <<>>
  BY DEF Init, Started
<1>2. 1 .. Len(<<>>) = {}
  OBVIOUS
<1> QED BY <1>1, <1>2 DEF Said, On, Init, Started

(* The messages that a step of a call may add. *)
RequestOf(c, b) == [kind |-> "request", h |-> HashOf(c, b)]
NoncesOf(c, b) ==
  [kind |-> "nonces", h |-> HashOf(c, b), nonce |-> tasks[c][b].nonce,
   count |-> Len(ExecuteMessageHashes(Req[c], Rate[Caller[c]]))]

LEMMA CallMessages ==
  ASSUME TypeOK, NEW c \in Call, NEW b \in Branches
  PROVE  /\ RequestOf(c, b) \in Message
         /\ SendNonces(c, b) => NoncesOf(c, b) \in Message
<1>1. RequestOf(c, b) \in Message
  BY HashOfType DEF Message, RequestOf
<1>2. ASSUME SendNonces(c, b) PROVE NoncesOf(c, b) \in Message
  <2>1. tasks[c][b] \in Task
    BY DEF TypeOK
  <2>2. tasks[c][b].nonce \in Nat \ {0}
    BY <1>2, <2>1 DEF SendNonces, Task, Attempt
  <2>3. Len(ExecuteMessageHashes(Req[c], Rate[Caller[c]])) \in Nat
    BY CallAssumption, HashesType, HashLen
  <2> QED BY <2>2, <2>3, HashOfType DEF Message, NoncesOf
<1> QED BY <1>1, <1>2

(* What a call's step adds to what is said: its requests and its nonces. *)
LEMMA CallStepSaid ==
  ASSUME TypeOK, NEW c \in Call, CallStep(c), NEW m \in Node, NEW x, Said(m, x)'
  PROVE  \/ Said(m, x)
         \/ m = Caller[c] /\ \E b \in Branches : SendInitial(c, b) /\ x = RequestOf(c, b)
         \/ m = Caller[c] /\ \E b \in Branches : SendNonces(c, b) /\ x = NoncesOf(c, b)
<1>1. Caller[c] \in Node /\ net \in [Node \X Node -> Seq(Message)]
  BY CallAssumption DEF TypeOK
<1>2. ASSUME NEW o, EndCall(c, o) PROVE UNCHANGED <<net, sending>>
  BY <1>2 DEF EndCall
<1>3. ASSUME NEW b \in Branches, SendInitial(c, b)
      PROVE  /\ net' = Sent(net, Caller[c], b \ {Caller[c]}, RequestOf(c, b))
             /\ sending' = sending
  BY <1>3 DEF SendInitial, FailAttempt, RequestOf
<1>4. ASSUME NEW b \in Branches, SendNonces(c, b)
      PROVE  /\ net' = Sent(net, Caller[c], b \ {Caller[c]}, NoncesOf(c, b))
             /\ sending' = sending
  BY <1>4 DEF SendNonces, FailAttempt, NoncesOf
<1>5. CASE ~\E b \in Branches : SendInitial(c, b) \/ SendNonces(c, b)
  <2>1. UNCHANGED <<net, sending>>
    BY <1>2, <1>5 DEF CallStep, Begin, StopFilling, GiveUp, SkipBranch, Launch, Await,
       FailAttempt, JoinOk, JoinFailed
  <2> QED BY <2>1 DEF Said
<1>6. ASSUME NEW b \in Branches, SendInitial(c, b)
      PROVE  Said(m, x) \/ (m = Caller[c] /\ x = RequestOf(c, b))
  <2> DEFINE q == Sent(net, Caller[c], b \ {Caller[c]}, RequestOf(c, b))
  <2>1. On(q, m, x) => On(net, m, x) \/ (m = Caller[c] /\ x = RequestOf(c, b))
    BY <1>1, CallMessages, SentOn
  <2>2. net' = q /\ sending' = sending
    BY <1>3, <1>6
  <2> HIDE DEF q
  <2> QED BY <2>1, <2>2, SaidNext DEF Said
<1>7. ASSUME NEW b \in Branches, SendNonces(c, b)
      PROVE  Said(m, x) \/ (m = Caller[c] /\ x = NoncesOf(c, b))
  <2> DEFINE q == Sent(net, Caller[c], b \ {Caller[c]}, NoncesOf(c, b))
  <2>1. On(q, m, x) => On(net, m, x) \/ (m = Caller[c] /\ x = NoncesOf(c, b))
    BY <1>1, <1>7, CallMessages, SentOn
  <2>2. net' = q /\ sending' = sending
    BY <1>4, <1>7
  <2> HIDE DEF q
  <2> QED BY <2>1, <2>2, SaidNext DEF Said
<1> QED BY <1>5, <1>6, <1>7

(* Steps that receive, lose or forget messages, or send one that waited. *)
LEMMA QuietSaid ==
  ASSUME TypeOK, NEW m \in Node, NEW x, Said(m, x)',
         \/ \E k, l \in Node :
              /\ net' = Consumed(k, l) /\ net[<<k, l>>] # <<>> /\ sending' = sending
         \/ \E o \in sending : SendFromHandle(o)
         \/ \E n \in Node : Cleanup(n) \/ Crash(n)
         \/ Tick
         \/ \E k, l \in Node : Disconnect(k, l) \/ Reconnect(k, l)
         \/ UNCHANGED vars
  PROVE  Said(m, x)
<1>1. ASSUME NEW o \in sending, SendFromHandle(o) PROVE Said(m, x)
  <2>1. o.node \in Node /\ o.msg \in Message /\ net \in [Node \X Node -> Seq(Message)]
    BY DEF TypeOK, Unsent
  <2> DEFINE q == Sent(net, o.node, o.msg.h.branch \ {o.node}, o.msg)
  <2>2. sending' \subseteq sending /\ (net' = net \/ net' = q)
    BY <1>1 DEF SendFromHandle
  <2>3. On(q, m, x) => On(net, m, x) \/ (m = o.node /\ x = o.msg)
    <3> DEFINE from == o.node
               msg == o.msg
               to == o.msg.h.branch \ {o.node}
    <3>1. from \in Node /\ msg \in Message /\ q = Sent(net, from, to, msg)
      BY <2>1
    <3> HIDE DEF from, msg, to, q
    <3>2. On(q, m, x) => On(net, m, x) \/ (m = from /\ x = msg)
      BY <2>1, <3>1, SentOn
    <3> QED BY <3>2 DEF from, msg
  <2> HIDE DEF q
  <2> QED BY <2>2, <2>3, SaidNext DEF Said
<1>2. ASSUME NEW k \in Node, NEW l \in Node,
             net' = Consumed(k, l), net[<<k, l>>] # <<>>, sending' = sending
      PROVE  Said(m, x)
  BY <1>2, SaidNext, ConsumedOn DEF Said
<1>3. ASSUME sending' \subseteq sending,
             \A ch \in Node \X Node : net'[ch] = net[ch] \/ net'[ch] = <<>>
      PROVE  Said(m, x)
  BY <1>3 DEF Said, On
<1>4. ASSUME NEW n \in Node, Crash(n) PROVE Said(m, x)
  BY <1>3, <1>4 DEF Crash
<1>5. ASSUME NEW k \in Node, NEW l \in Node, Disconnect(k, l) PROVE Said(m, x)
  <2>1. \A ch \in Node \X Node : net'[ch] = net[ch] \/ net'[ch] = <<>>
    BY <1>5 DEF Disconnect, TypeOK
  <2> QED BY <1>3, <1>5, <2>1 DEF Disconnect
<1>6. ASSUME UNCHANGED <<net, sending>> PROVE Said(m, x)
  BY <1>6 DEF Said
<1> QED BY <1>1, <1>2, <1>4, <1>5, <1>6 DEF Cleanup, Tick, Reconnect, vars

(* Every contribution that is kept or on its way was signed by a node. *)
ShareInv ==
  /\ \A s \in sessions : s.partials \subseteq signed
  /\ \A m \in Node : \A x : Said(m, x) /\ x.kind = "partials" => x.partial \in signed

(* A finished session carries a valid contribution of every signer. *)
LEMMA CompleteSigned ==
  ASSUME VerifiedInv, ShareInv, NEW new \in Session, Current(new), Complete(new),
         NEW S, new.partials \subseteq S, NEW m \in new.h.branch
  PROVE  \E p \in S : /\ p.signer = m
                      /\ p.hashes = ResultOf(new).hashes
                      /\ p.agg = ResultOf(new).agg
<1>1. PICK p \in new.partials : p.signer = m
  BY DEF Complete, Contributed
<1>2. VerifySignerPartials(new, p)
  BY <1>1 DEF Complete, Current, Invalid
<1> QED BY <1>1, <1>2 DEF VerifySignerPartials, ResultOf

(* Completing a session hands on nothing that was not signed. *)
LEMMA CompleteShares ==
  ASSUME TypeOK, VerifiedInv, ShareInv, ResultsAreSigned, signed \subseteq signed',
         NEW old \in sessions, NEW new \in Session, Current(new),
         new.partials \subseteq signed', CompleteSession(old, new)
  PROVE  /\ \A s \in sessions' : s.partials \subseteq signed'
         /\ ResultsAreSigned'
<1>1. Check(new).partials \subseteq new.partials
  BY CheckFields
<1>2. \A s \in sessions' : s.partials \subseteq signed'
  BY <1>1 DEF ShareInv, CompleteSession
<1>3. ASSUME NEW c \in Call, NEW r \in results'[c], NEW m \in r.branch
      PROVE  \E p \in signed' : p.signer = m /\ p.hashes = r.hashes /\ p.agg = r.agg
  <2>1. CASE r \in results[c]
    BY <2>1 DEF ResultsAreSigned
  <2>2. CASE r \notin results[c]
    <3>1. Complete(new) /\ r = ResultOf(new)
      <4>1. results' # results
        BY <2>2
      <4>2. Complete(new) /\ new.call \in Call
            /\ results' = [results EXCEPT ![new.call] = @ \cup {ResultOf(new)}]
        BY <4>1 DEF CompleteSession
      <4>3. results'[c] \subseteq results[c] \cup {ResultOf(new)}
        BY <4>2 DEF TypeOK
      <4> QED BY <2>2, <4>2, <4>3
    <3>2. m \in new.h.branch
      BY <3>1 DEF ResultOf
    <3> QED BY <3>1, <3>2, CompleteSigned
  <2> QED BY <2>1, <2>2
<1> QED BY <1>2, <1>3 DEF ResultsAreSigned

(* The invariant of contributions and results. *)
LEMMA SharesInvariance == Spec => [](ShareInv /\ ResultsAreSigned)
<1> DEFINE I == ShareInv /\ ResultsAreSigned
<1>1. Init => VerifiedInv /\ I
  <2> SUFFICES ASSUME Init PROVE VerifiedInv /\ I
    OBVIOUS
  <2>1. \A m \in Node : \A x : ~Said(m, x)
    BY NothingSaid
  <2>2. sessions = {} /\ \A c \in Call : results[c] = {}
    BY DEF Init, Started
  <2> QED BY <2>1, <2>2 DEF VerifiedInv, VerifiedIsCurrent, ShareInv, ResultsAreSigned
<1>2. TypeOK /\ VerifiedInv /\ I /\ [Next]_vars => I'
  <2> SUFFICES ASSUME TypeOK, VerifiedInv, ShareInv, ResultsAreSigned, [Next]_vars
               PROVE  I'
    OBVIOUS
  <2> USE DEF I
  <2>0. \A s \in sessions : s \in Session /\ Current(s)
    BY DEF TypeOK, VerifiedInv, VerifiedIsCurrent, Current
  <2>1. ASSUME signed \subseteq signed',
               \A m \in Node : \A x : Said(m, x)' /\ x.kind = "partials" =>
                                        Said(m, x) \/ x.partial \in signed'
        PROVE  (\A m \in Node : \A x : Said(m, x) /\ x.kind = "partials" =>
                                         x.partial \in signed)'
    BY <2>1 DEF ShareInv
  <2>2. ASSUME NEW c \in Call, CallStep(c) PROVE I'
    <3>1. UNCHANGED <<signed, results>>
      <4>1. ASSUME NEW o, EndCall(c, o) PROVE UNCHANGED <<signed, results>>
        BY <4>1 DEF EndCall
      <4> QED BY <2>2, <4>1 DEF CallStep, Begin, StopFilling, GiveUp, Launch, SkipBranch,
              SendInitial, SendNonces, Await, JoinOk, JoinFailed
    <3>2. \A s \in sessions' : s.partials \subseteq signed
      BY <2>2, CallStepSessions DEF ShareInv, NewSession
    <3>3. \A m \in Node : \A x : Said(m, x)' /\ x.kind = "partials" => Said(m, x)
      BY <2>2, CallStepSaid DEF RequestOf, NoncesOf
    <3> QED BY <2>1, <3>1, <3>2, <3>3 DEF ShareInv, ResultsAreSigned
  <2>3. ASSUME NEW n \in Node, NEW m \in Node, HandleRequest(n, m) PROVE I'
    <3> DEFINE msg == Head(net[<<m, n>>])
               nonces == [kind |-> "nonces", h |-> msg.h, nonce |-> drawn[n] + 1,
                          count |-> Len(ExecuteMessageHashes(msg.h.req, Rate[n]))]
    <3>1. /\ UNCHANGED <<signed, results>> /\ net' = Consumed(m, n) /\ net[<<m, n>>] # <<>>
          /\ sending' \subseteq sending \cup [node : {n}, conn : {m}, msg : {nonces}]
      BY <2>3 DEF HandleRequest, Receivable, NewSession
    <3>2. \A s \in sessions' : s.partials \subseteq signed
      BY <2>3 DEF HandleRequest, RemoveExpiredSessions, ShareInv, NewSession
    <3>3. ASSUME NEW k \in Node, NEW x, Said(k, x)' PROVE Said(k, x) \/ x = nonces
      <4> HIDE DEF nonces
      <4> QED BY <3>1, <3>3, SaidNext, ConsumedOn DEF Said
    <3>4. nonces.kind = "nonces"
      OBVIOUS
    <3> HIDE DEF nonces
    <3> QED BY <2>1, <3>1, <3>2, <3>3, <3>4 DEF ShareInv, ResultsAreSigned
  <2>4. ASSUME NEW n \in Node, NEW m \in Node, AcceptNonces(n, m) PROVE I'
    <3> DEFINE k == Head(net[<<m, n>>]).nonce
    <3>1. net[<<m, n>>] # <<>> /\ net' = Consumed(m, n) /\ k \in Nat
      BY <2>4, AcceptNoncesEffect
    <3>2. PICK s \in sessions :
            LET t == Noted(s, m, k) IN
            /\ t \in Session
            /\ m \in s.h.branch /\ s.nonces[m] = 0
            /\ CompleteSession(s, AfterSigning(t))
            /\ signed' = IF SignsWith(t) THEN signed \cup {PartialSign(t)} ELSE signed
            /\ sending' = IF SignsWith(t) /\ ~CheckFailed(AfterSigning(t))
                            THEN sending \cup
                              {[node |-> n, conn |-> m,
                                msg |-> [kind |-> "partials", h |-> s.h,
                                         partial |-> PartialSign(t)]]}
                            ELSE sending
      BY <2>4, AcceptNoncesEffect
    <3> HIDE DEF k
    <3> DEFINE t == Noted(s, m, k)
               new == AfterSigning(t)
    <3>3. t.partials = s.partials /\ t.verified = s.verified
      BY <2>0, <3>1, NotedType DEF Noted
    <3>4. new \in Session /\ new.verified = {}
      <4>1. s.verified = {}
        BY <3>2 DEF VerifiedInv, AllNonces
      <4> HIDE DEF t
      <4>2. t \in Session
        BY <3>2 DEF t
      <4> QED BY <3>3, <4>1, <4>2, AfterSigningType
    <3>5. new.partials \subseteq signed'
      <4> HIDE DEF t
      <4>1. t \in Session /\ s.partials \subseteq signed
        BY <3>2 DEF t, ShareInv
      <4> QED BY <3>2, <3>3, <4>1, AfterSigningType DEF t
    <3>6. Current(new) /\ signed \subseteq signed' /\ CompleteSession(s, new)
      BY <3>2, <3>4 DEF Current
    <3> HIDE DEF t, new
    <3>7. (\A u \in sessions' : u.partials \subseteq signed') /\ ResultsAreSigned'
      BY <3>4, <3>5, <3>6, CompleteShares
    <3>8. \A l \in Node : \A x : Said(l, x)' /\ x.kind = "partials" =>
                                   Said(l, x) \/ x.partial \in signed'
      BY <3>1, <3>2, SaidNext, ConsumedOn DEF Said
    <3> QED BY <2>1, <3>6, <3>7, <3>8 DEF ShareInv
  <2>5. ASSUME NEW n \in Node, NEW m \in Node, AcceptPartialSignatures(n, m) PROVE I'
    <3> DEFINE p == Head(net[<<m, n>>]).partial
    <3>1. /\ net[<<m, n>>] # <<>> /\ net' = Consumed(m, n) /\ sending' = sending
          /\ signed' = signed /\ Head(net[<<m, n>>]).kind = "partials"
      BY <2>5, AcceptPartialsEffect
    <3>2. PICK s \in sessions :
            LET t == NotePartial(s, m, p) IN
            /\ s \in Session /\ t \in Session
            /\ AllNonces(s) => VerifySignerPartials(s, p)
            /\ ~Contributed(s, m)
            /\ t.h = s.h /\ t.hashes = s.hashes /\ t.nonces = s.nonces
            /\ t.partials = s.partials \cup {p}
            /\ t.verified = IF AllNonces(s) THEN s.verified \cup {m} ELSE s.verified
            /\ CompleteSession(s, t)
      BY <2>5, AcceptPartialsEffect
    <3>3. p \in signed
      BY <3>1, ConsumedOn DEF ShareInv, Said
    <3> DEFINE t == NotePartial(s, m, p)
    <3>4. \A l \in Node : \A x : Said(l, x)' => Said(l, x)
      BY <3>1, SaidNext, ConsumedOn DEF Said
    <3> HIDE DEF p
    <3>5. /\ AllNonces(s) <=> AllNonces(t)
          /\ \A q : VerifySignerPartials(s, q) <=> VerifySignerPartials(t, q)
      BY <3>2, SameVerification
    <3>6. Current(s) /\ s.partials \subseteq signed
      BY <2>0 DEF ShareInv
    <3> HIDE DEF t
    <3>7. Current(t) /\ t.partials \subseteq signed' /\ t \in Session /\ CompleteSession(s, t)
      BY <3>1, <3>2, <3>3, <3>5, <3>6 DEF Current, Contributed, t
    <3>8. (\A u \in sessions' : u.partials \subseteq signed') /\ ResultsAreSigned'
      BY <3>1, <3>7, CompleteShares
    <3> QED BY <2>1, <3>1, <3>4, <3>8 DEF ShareInv
  <2>6. CASE Tick
    <3>1. \A s \in sessions : Aged(s).partials = s.partials
      BY <2>0 DEF Aged, Session
    <3>2. UNCHANGED <<signed, results>> /\ \A s \in sessions' : s.partials \subseteq signed
      BY <2>6, <3>1 DEF Tick, ShareInv
    <3>3. \A m \in Node : \A x : Said(m, x)' => Said(m, x)
      BY <2>6, QuietSaid
    <3> QED BY <2>1, <3>2, <3>3 DEF ShareInv, ResultsAreSigned
  <2>7. ASSUME \/ \E n, m \in Node : Refuse(n, m) \/ IgnoreNonces(n, m) \/ IgnorePartials(n, m)
               \/ \E o \in sending : SendFromHandle(o)
               \/ \E n \in Node : Cleanup(n) \/ Crash(n)
               \/ \E m, n \in Node : Disconnect(m, n) \/ Reconnect(m, n)
               \/ UNCHANGED vars
        PROVE  I'
    <3>1. sessions' \subseteq sessions /\ UNCHANGED <<drawn, signed, results>>
      BY <2>7, OtherSessions
    <3>2. \A m \in Node : \A x : Said(m, x)' => Said(m, x)
      BY <2>7, QuietSaid DEF Refuse, IgnoreNonces, IgnorePartials, Receivable
    <3> QED BY <2>1, <3>1, <3>2 DEF ShareInv, ResultsAreSigned
  <2> QED BY <2>2, <2>3, <2>4, <2>5, <2>6, <2>7 DEF Next, Handle
<1>3. Spec => []VerifiedInv
  BY VerifiedInvariance
<1> HIDE DEF I
<1>4. Spec => []I
  BY <1>1, <1>2, <1>3, TypeCorrect, PTL DEF Spec
<1> QED BY <1>4 DEF I

(* A signature that an attempt of a call receives carries the consent of   *)
(* its whole branch: each signer signed the hashes of the requestor under  *)
(* the requestor's aggregate nonce, whatever rates the members hold and    *)
(* whatever nonce rounds their shares come from (complete_session).        *)
THEOREM ResultSafety == Spec => []ResultsAreSigned
  BY SharesInvariance, PTL

-----------------------------------------------------------------------------
(* Sessions and the attempts that wait on them. *)

Early == {"initial", "nonces"}

(* One session per hash at a node, which has nonces of its own. *)
KeyedInv ==
  /\ \A s, t \in sessions : s.node = t.node /\ s.h = t.h => s = t
  /\ \A s \in sessions : s.nonces[s.node] # 0

(* The attempt t of call c still waits on session s. *)
WaitsOn(t, s) ==
  /\ s.node = Caller[s.call]
  /\ s.node \in s.h.branch
  /\ s.h.req = Req[s.call]
  /\ t.phase \in Early \cup {"wait"}
  /\ t.rx = "open"
  /\ t.nonce = s.nonces[s.node]

(* A session that a call waits on belongs to a running attempt of the call,  *)
(* whose receiver is still open and which has the nonces of that session.    *)
WaitInv ==
  \A s \in sessions : s.call # NoCall =>
    calls[s.call] \in Running /\ WaitsOn(tasks[s.call][s.h.branch], s)

(* A result stays with its attempt until the call returns it. *)
Holds(t) == t.rx = "ok" /\ t.phase \in {"wait", "ok"}

ReturnInv ==
  \A c \in Call : results[c] # {} =>
    \/ calls[c] \in {"ok", "lost"}
    \/ calls[c] \in Running /\ \E b \in Branches : Holds(tasks[c][b])

SessionsInv == KeyedInv /\ WaitInv /\ ReturnInv

(* A branch has another signer than the caller. *)
LEMMA OtherSigner ==
  ASSUME NEW b \in Branches, NEW n \in Node
  PROVE  \E m \in b : m # n
<1>1. Cardinality(Node) \in Nat /\ Cardinality(Node) >= 3
  BY NodeAssumption, MembersAssumption, FS_CardinalityType
<1>2. Cardinality(b) = MinimumThreshold(Cardinality(Node))
  BY DEF Branches
<1>3. Cardinality(b) >= 2
  <2> DEFINE k == Cardinality(Node)
  <2> HIDE DEF k
  <2>1. k \in Nat /\ k >= 3 => MinimumThreshold(k) >= 2
    BY DEF MinimumThreshold
  <2> QED BY <1>1, <1>2, <2>1 DEF k
<1>4. CASE b \subseteq {n}
  <2>1. b = {} \/ b = {n}
    BY <1>4
  <2>2. Cardinality({}) = 0 /\ Cardinality({n}) = 1
    BY FS_EmptySet, FS_Singleton
  <2> QED BY <1>3, <2>1, <2>2
<1> QED BY <1>4

(* The call of a session is a call or none. *)
LEMMA SessionFacts ==
  ASSUME TypeOK, NEW s \in sessions
  PROVE  /\ s \in Session /\ s.node \in Node /\ s.h.branch \in Branches /\ s.h \in Hash
         /\ s.call # NoCall => s.call \in Call
  BY DEF TypeOK, Session, Hash

(* The attempt that a session serves is found by its hash. *)
LEMMA HashOfSession ==
  ASSUME TypeOK, NEW s \in sessions, NEW c \in Call, NEW b \in Branches
  PROVE  s.h = HashOf(c, b) <=> s.h.req = Req[c] /\ s.h.branch = b
  BY SessionFacts DEF HashOf, Hash

(* Sessions that go change the receivers of their own attempts only. *)
LEMMA ReceiversKept ==
  ASSUME TypeOK, KeyedInv, WaitInv, NEW gone \in SUBSET sessions,
         NEW t \in {TellExpired(tasks, gone), CloseReceivers(tasks, gone)}
  PROVE  /\ t \in [Call -> [Branches -> Task]]
         /\ \A s \in sessions \ gone : s.call # NoCall =>
              t[s.call][s.h.branch] = tasks[s.call][s.h.branch]
         /\ \A c \in Call, b \in Branches :
              /\ tasks[c][b].rx = "ok" => t[c][b] = tasks[c][b]
              /\ t[c][b].phase = tasks[c][b].phase
              /\ t[c][b].nonce = tasks[c][b].nonce
<1>0. /\ tasks \in [Call -> [Branches -> Task]]
      /\ t \in [Call -> [Branches -> Task]]
  BY ReceiversType DEF TypeOK
<1> DEFINE Left(c, b) == \E s \in gone : s.node = Caller[c] /\ s.call = c /\ s.h = HashOf(c, b)
<1>1. ASSUME NEW c \in Call, NEW b \in Branches
      PROVE  /\ ~Left(c, b) => t[c][b] = tasks[c][b]
             /\ t[c][b].phase = tasks[c][b].phase
             /\ t[c][b].nonce = tasks[c][b].nonce
  <2>1. tasks[c][b] \in Task
    BY <1>0
  <2>2. \/ t[c][b] = tasks[c][b]
        \/ Left(c, b) /\ t[c][b] = [tasks[c][b] EXCEPT !.rx = "expired"]
        \/ Left(c, b) /\ t[c][b] = [tasks[c][b] EXCEPT !.rx = "closed"]
    BY DEF TellExpired, CloseReceivers
  <2> QED BY <2>1, <2>2 DEF Task, Attempt
<1>2. ASSUME NEW c \in Call, NEW b \in Branches, Left(c, b)
      PROVE  tasks[c][b].rx = "open"
  <2>1. PICK s \in gone : s.node = Caller[c] /\ s.call = c /\ s.h = HashOf(c, b)
    BY <1>2
  <2>2. s.h.branch = b /\ s.call # NoCall
    BY <2>1, CallAssumption DEF HashOf
  <2> QED BY <2>1, <2>2 DEF WaitInv, WaitsOn
<1>3. ASSUME NEW s \in sessions \ gone, s.call # NoCall
      PROVE  ~Left(s.call, s.h.branch)
  <2>1. s.call \in Call /\ s.h.branch \in Branches /\ s \in sessions
    BY <1>3, SessionFacts
  <2>2. WaitsOn(tasks[s.call][s.h.branch], s)
    BY <1>3, <2>1 DEF WaitInv
  <2>3. s.node = Caller[s.call] /\ s.h = HashOf(s.call, s.h.branch)
    BY <2>1, <2>2, HashOfSession DEF WaitsOn
  <2>4. \A u \in gone : ~(u.node = s.node /\ u.h = s.h)
    BY <1>3, <2>1 DEF KeyedInv
  <2> QED BY <2>3, <2>4
<1> HIDE DEF Left
<1>4. \A s \in sessions \ gone : s.call # NoCall =>
        t[s.call][s.h.branch] = tasks[s.call][s.h.branch]
  BY <1>1, <1>3, SessionFacts
<1> QED BY <1>0, <1>1, <1>2, <1>4

(* Sessions go; the attempts of those that stay and the results are kept. *)
LEMMA SessionsDrop ==
  ASSUME TypeOK, SessionsInv, sessions' \subseteq sessions, results' = results,
         \A s \in sessions' : s.call # NoCall =>
           /\ calls'[s.call] \in Running
           /\ WaitsOn(tasks'[s.call][s.h.branch], s),
         \A c \in Call : results[c] # {} =>
           \/ calls'[c] \in {"ok", "lost"}
           \/ calls'[c] \in Running /\ \E b \in Branches : Holds(tasks'[c][b])
  PROVE  SessionsInv'
<1>1. KeyedInv'
  BY DEF SessionsInv, KeyedInv
<1>2. WaitInv'
  BY DEF WaitInv, WaitsOn
<1>3. ReturnInv'
  BY DEF ReturnInv, Holds
<1> QED BY <1>1, <1>2, <1>3 DEF SessionsInv

(* The attempts of a call that changes nothing else. *)
LEMMA CallStepWait ==
  ASSUME TypeOK, SessionsInv, NEW c \in Call, CallStep(c),
         ~\E b \in Branches : Launch(c, b)
  PROVE  SessionsInv'
<1> DEFINE n == Caller[c]
<1>0. /\ tasks \in [Call -> [Branches -> Task]] /\ calls \in [Call -> {"idle", "ok", "failed", "lost"} \cup Running]
      /\ KeyedInv /\ WaitInv /\ ReturnInv
  BY DEF SessionsInv, TypeOK
<1>a. \A s \in sessions : s.call # NoCall =>
        /\ s.call \in Call /\ s.h.branch \in Branches
        /\ calls[s.call] \in Running /\ WaitsOn(tasks[s.call][s.h.branch], s)
  BY <1>0, SessionFacts DEF WaitInv
<1>1. CASE Begin(c)
  BY <1>0, <1>1, <1>a, SessionsDrop DEF Begin, ReturnInv, Running
<1>2. CASE StopFilling(c)
  <2>1. /\ results' = results /\ sessions' \subseteq sessions
        /\ calls' = [calls EXCEPT ![c] = "joining"] /\ calls[c] \in Running
    BY <1>2 DEF StopFilling, RemoveExpiredSessions, Running
  <2>2. /\ \A d \in Call : calls[d] \in Running => calls'[d] \in Running
        /\ \A d \in Call : calls[d] \in {"ok", "lost"} => calls'[d] = calls[d]
    BY <1>0, <2>1 DEF Running
  <2>3. CASE tasks' = tasks
    <3>1. \A s \in sessions' : s.call # NoCall =>
            calls'[s.call] \in Running /\ WaitsOn(tasks'[s.call][s.h.branch], s)
      BY <1>a, <2>1, <2>2, <2>3
    <3>2. \A d \in Call : results[d] # {} =>
            \/ calls'[d] \in {"ok", "lost"}
            \/ calls'[d] \in Running /\ \E b \in Branches : Holds(tasks'[d][b])
      <4>1. \A d \in Call, b \in Branches : Holds(tasks[d][b]) => Holds(tasks'[d][b])
        BY <2>3
      <4>2. \A d \in Call : results[d] # {} =>
              \/ calls[d] \in {"ok", "lost"}
              \/ calls[d] \in Running /\ \E b \in Branches : Holds(tasks[d][b])
        BY <1>0 DEF ReturnInv
      <4> QED BY <2>2, <4>1, <4>2
    <3> QED BY <2>1, <3>1, <3>2, SessionsDrop
  <2>4. CASE tasks' = TellExpired(tasks, Expired(n)) /\ sessions' = sessions \ Expired(n)
    <3> DEFINE gone == Expired(n)
               t == TellExpired(tasks, gone)
    <3>1. gone \in SUBSET sessions
      BY DEF Expired
    <3> HIDE DEF gone
    <3>2. /\ \A s \in sessions \ gone : s.call # NoCall =>
               t[s.call][s.h.branch] = tasks[s.call][s.h.branch]
          /\ \A d \in Call, b \in Branches : tasks[d][b].rx = "ok" => t[d][b] = tasks[d][b]
      BY <1>0, <3>1, ReceiversKept
    <3> HIDE DEF t
    <3>3. tasks' = t /\ sessions' = sessions \ gone
      BY <2>4 DEF t, gone
    <3>4. \A s \in sessions' : s.call # NoCall =>
            calls'[s.call] \in Running /\ WaitsOn(tasks'[s.call][s.h.branch], s)
      BY <1>a, <2>2, <3>2, <3>3
    <3>5. \A d \in Call : results[d] # {} =>
            \/ calls'[d] \in {"ok", "lost"}
            \/ calls'[d] \in Running /\ \E b \in Branches : Holds(tasks'[d][b])
      <4>1. \A d \in Call, b \in Branches : Holds(tasks[d][b]) => Holds(tasks'[d][b])
        BY <3>2, <3>3 DEF Holds
      <4> QED BY <1>0, <2>2, <4>1 DEF ReturnInv
    <3> QED BY <2>1, <3>4, <3>5, SessionsDrop
  <2> QED BY <1>2, <2>3, <2>4 DEF StopFilling, RemoveExpiredSessions
<1>3. ASSUME NEW b \in Branches, NEW gone \in SUBSET sessions,
             NEW t \in {TellExpired(tasks, gone), CloseReceivers(tasks, gone)},
             NEW r,
             \A s \in sessions \ gone : s.call # NoCall => ~(s.call = c /\ s.h.branch = b),
             ~Holds(tasks[c][b]),
             sessions' = sessions \ gone, tasks' = [t EXCEPT ![c][b] = r],
             results' = results, \A d \in Call : calls[d] \in Running => calls'[d] \in Running,
             \A d \in Call : calls[d] \in {"ok", "lost"} => calls'[d] = calls[d]
      PROVE  SessionsInv'
  <2>1. /\ t \in [Call -> [Branches -> Task]]
        /\ \A s \in sessions \ gone : s.call # NoCall =>
             t[s.call][s.h.branch] = tasks[s.call][s.h.branch]
        /\ \A d \in Call, e \in Branches : tasks[d][e].rx = "ok" => t[d][e] = tasks[d][e]
    BY <1>0, <1>3, ReceiversKept
  <2>2. \A d \in Call, e \in Branches : ~(d = c /\ e = b) => tasks'[d][e] = t[d][e]
    BY <1>3, <2>1
  <2>3. \A s \in sessions' : s.call # NoCall =>
          calls'[s.call] \in Running /\ WaitsOn(tasks'[s.call][s.h.branch], s)
    BY <1>3, <1>a, <2>1, <2>2
  <2>4. \A d \in Call : results[d] # {} =>
          \/ calls'[d] \in {"ok", "lost"}
          \/ calls'[d] \in Running /\ \E e \in Branches : Holds(tasks'[d][e])
    <3> SUFFICES ASSUME NEW d \in Call, results[d] # {}
                 PROVE  \/ calls'[d] \in {"ok", "lost"}
                        \/ calls'[d] \in Running /\ \E e \in Branches : Holds(tasks'[d][e])
      OBVIOUS
    <3>1. CASE calls[d] \in {"ok", "lost"}
      BY <1>3, <3>1
    <3>2. ASSUME calls[d] \in Running, NEW e \in Branches, Holds(tasks[d][e])
          PROVE  calls'[d] \in Running /\ \E f \in Branches : Holds(tasks'[d][f])
      <4>1. ~(d = c /\ e = b)
        BY <1>3, <3>2
      <4>2. tasks'[d][e] = tasks[d][e]
        BY <2>1, <2>2, <3>2, <4>1 DEF Holds
      <4> QED BY <1>3, <3>2, <4>2
    <3> QED BY <1>0, <3>1, <3>2 DEF ReturnInv
  <2> QED BY <1>3, <2>3, <2>4, SessionsDrop
<1>b. \A d \in Call, e \in Branches :
        tasks[d][e].phase \notin Early \cup {"wait"} \/ tasks[d][e].rx # "open" =>
          ~\E s \in sessions : s.call = d /\ s.call # NoCall /\ s.h.branch = e
  BY <1>a DEF WaitsOn
<1>4. ASSUME NEW b \in Branches, SkipBranch(c, b) PROVE SessionsInv'
  <2> DEFINE gone == Expired(n)
             t == TellExpired(tasks, gone)
  <2>1. /\ gone \in SUBSET sessions /\ sessions' = sessions \ gone
        /\ tasks' = [t EXCEPT ![c][b] = Joined] /\ results' = results /\ calls' = calls
    BY <1>4 DEF SkipBranch, Expired, RemoveExpiredSessions
  <2>2. tasks[c][b].phase = "none"
    BY <1>4 DEF SkipBranch, SelectBranch, Attempted
  <2>3. /\ ~Holds(tasks[c][b])
        /\ \A s \in sessions : s.call # NoCall => ~(s.call = c /\ s.h.branch = b)
    BY <1>b, <2>2 DEF Holds, Early
  <2>4. t \in {TellExpired(tasks, gone), CloseReceivers(tasks, gone)}
    OBVIOUS
  <2> HIDE DEF gone, t
  <2> QED BY <1>3, <2>1, <2>3, <2>4
<1>5. ASSUME NEW b \in Branches, NEW q, FailAttempt(c, b, q), ~Holds(tasks[c][b]),
             UNCHANGED <<results, calls>>
      PROVE  SessionsInv'
  <2> DEFINE gone == Abandoned(c, {b})
             t == CloseReceivers(tasks, gone)
             r == [t[c][b] EXCEPT !.phase = "failed"]
  <2>1. gone \in SUBSET sessions /\ sessions' = sessions \ gone
    BY <1>5 DEF FailAttempt, Abandoned
  <2>2. tasks' = [t EXCEPT ![c][b].phase = "failed"]
    BY <1>5 DEF FailAttempt
  <2>3. t \in [Call -> [Branches -> Task]]
    BY <1>0, ReceiversType
  <2>4. \A s \in sessions \ gone : s.call # NoCall => ~(s.call = c /\ s.h.branch = b)
    <3>1. \A s \in sessions : s.call # NoCall /\ s.call = c /\ s.h.branch = b => s \in gone
      BY <1>a, HashOfSession DEF Abandoned, WaitsOn
    <3> QED BY <3>1
  <2>5. t \in {TellExpired(tasks, gone), CloseReceivers(tasks, gone)}
    OBVIOUS
  <2> HIDE DEF gone, t
  <2>6. tasks' = [t EXCEPT ![c][b] = r]
    BY <2>2, <2>3
  <2> HIDE DEF r
  <2> QED BY <1>3, <1>5, <2>1, <2>4, <2>5, <2>6
<1>6. ASSUME NEW b \in Branches, NEW ph \in {"wait", "nonces"}, tasks[c][b].phase \in Early,
             tasks' = [tasks EXCEPT ![c][b].phase = ph],
             UNCHANGED <<sessions, results, calls>>
      PROVE  SessionsInv'
  <2>1. \A d \in Call, e \in Branches :
          /\ ~(d = c /\ e = b) => tasks'[d][e] = tasks[d][e]
          /\ tasks'[c][b].phase = ph
          /\ tasks'[d][e].rx = tasks[d][e].rx /\ tasks'[d][e].nonce = tasks[d][e].nonce
    <3>1. tasks[c][b] \in Task
      BY <1>0
    <3> QED BY <1>0, <1>6, <3>1 DEF Task, Attempt
  <2>2. \A s \in sessions' : s.call # NoCall =>
          calls'[s.call] \in Running /\ WaitsOn(tasks'[s.call][s.h.branch], s)
    BY <1>6, <1>a, <2>1 DEF WaitsOn, Early
  <2>3. \A d \in Call, e \in Branches : Holds(tasks[d][e]) => Holds(tasks'[d][e])
    BY <1>6, <2>1 DEF Holds, Early
  <2> QED BY <1>0, <1>6, <2>2, <2>3, SessionsDrop DEF ReturnInv
<1>7. ASSUME NEW b \in Branches, SendInitial(c, b) \/ SendNonces(c, b) PROVE SessionsInv'
  <2>1. tasks[c][b].phase \in Early /\ UNCHANGED <<results, calls>>
    BY <1>7 DEF SendInitial, SendNonces, Early
  <2>2. ~Holds(tasks[c][b])
    BY <2>1 DEF Early, Holds
  <2>3. \/ \E q : FailAttempt(c, b, q)
        \/ /\ sessions' = sessions
           /\ \E ph \in {"wait", "nonces"} : tasks' = [tasks EXCEPT ![c][b].phase = ph]
    BY <1>7 DEF SendInitial, SendNonces
  <2> QED BY <1>5, <1>6, <2>1, <2>2, <2>3
<1>8. ASSUME NEW b \in Branches, Await(c, b) PROVE SessionsInv'
  <2>1. UNCHANGED <<results, calls>> /\ tasks[c][b].phase = "wait"
    BY <1>8 DEF Await
  <2>2. CASE FailAttempt(c, b, net) /\ tasks[c][b].rx # "ok"
    BY <1>5, <2>1, <2>2 DEF Holds
  <2>3. CASE /\ tasks[c][b].rx = "ok" /\ sessions' = sessions
             /\ tasks' = [tasks EXCEPT ![c][b].phase = "ok"]
    <3>1. \A d \in Call, e \in Branches :
            /\ ~(d = c /\ e = b) => tasks'[d][e] = tasks[d][e]
            /\ tasks'[c][b].phase = "ok" /\ tasks'[d][e].rx = tasks[d][e].rx
      <4>1. tasks[c][b] \in Task
        BY <1>0
      <4> QED BY <1>0, <2>3, <4>1 DEF Task, Attempt
    <3>2. \A s \in sessions : s.call # NoCall => ~(s.call = c /\ s.h.branch = b)
      BY <1>b, <2>3
    <3>3. \A s \in sessions' : s.call # NoCall =>
            calls'[s.call] \in Running /\ WaitsOn(tasks'[s.call][s.h.branch], s)
      BY <1>a, <2>1, <2>3, <3>1, <3>2
    <3>4. \A d \in Call, e \in Branches : Holds(tasks[d][e]) => Holds(tasks'[d][e])
      BY <3>1 DEF Holds
    <3> QED BY <1>0, <2>1, <2>3, <3>3, <3>4, SessionsDrop DEF ReturnInv, Await
  <2> QED BY <1>8, <2>2, <2>3 DEF Await
<1>9. ASSUME NEW b \in Branches, JoinFailed(c, b) PROVE SessionsInv'
  <2> DEFINE gone == {}
  <2>1. /\ tasks[c][b].phase = "failed" /\ tasks' = [tasks EXCEPT ![c][b] = Joined]
        /\ sessions' = sessions /\ results' = results
        /\ calls' = [calls EXCEPT ![c] = "filling"] /\ calls[c] = "joining"
    BY <1>9 DEF JoinFailed
  <2>2. /\ \A d \in Call : calls[d] \in Running => calls'[d] \in Running
        /\ \A d \in Call : calls[d] \in {"ok", "lost"} => calls'[d] = calls[d]
    BY <1>0, <2>1 DEF Running
  <2>3. tasks = TellExpired(tasks, {})
    <3>1. \A d \in Call, e \in Branches : TellExpired(tasks, {})[d][e] = tasks[d][e]
      BY DEF TellExpired
    <3>2. TellExpired(tasks, {}) \in [Call -> [Branches -> Task]]
      BY <1>0, ReceiversType
    <3>3. \A d \in Call : TellExpired(tasks, {})[d] = tasks[d]
      BY <1>0, <3>1, <3>2
    <3> QED BY <1>0, <3>2, <3>3
  <2>4. /\ ~Holds(tasks[c][b])
        /\ \A s \in sessions : s.call # NoCall => ~(s.call = c /\ s.h.branch = b)
    BY <1>b, <2>1 DEF Holds, Early
  <2>5. {} \in SUBSET sessions /\ sessions' = sessions \ {}
        /\ tasks \in {TellExpired(tasks, {}), CloseReceivers(tasks, {})}
    BY <2>1, <2>3
  <2> QED BY <1>3, <2>1, <2>2, <2>4, <2>5
<1>10. ASSUME NEW o, EndCall(c, o), calls[c] = "joining",
              o = "ok" \/ \A b \in Branches : ~Holds(tasks[c][b])
       PROVE  SessionsInv'
  <2> DEFINE gone == Abandoned(c, Attempted(c))
             t == CloseReceivers(tasks, gone)
  <2>1. /\ gone \in SUBSET sessions /\ sessions' = sessions \ gone /\ results' = results
        /\ calls' = [calls EXCEPT ![c] = o]
    BY <1>10 DEF EndCall, Abandoned
  <2>2. \A d \in Call : d # c => tasks'[d] = t[d]
    BY <1>10 DEF EndCall
  <2>3. \A s \in sessions \ gone : s.call # NoCall => s.call # c
    <3>1. ASSUME NEW s \in sessions, s.call # NoCall, s.call = c PROVE s \in gone
      <4>1. s.h.branch \in Attempted(c)
        BY <1>a, <3>1 DEF Attempted, WaitsOn, Early
      <4>2. s.h = HashOf(c, s.h.branch)
        BY <1>a, <3>1, HashOfSession DEF WaitsOn
      <4> QED BY <1>a, <3>1, <4>1, <4>2 DEF Abandoned, WaitsOn
    <3> QED BY <3>1
  <2>4. /\ \A s \in sessions \ gone : s.call # NoCall =>
             t[s.call][s.h.branch] = tasks[s.call][s.h.branch]
        /\ \A d \in Call, b \in Branches : tasks[d][b].rx = "ok" => t[d][b] = tasks[d][b]
    <3> HIDE DEF gone
    <3> QED BY <1>0, <2>1, ReceiversKept
  <2> HIDE DEF gone, t
  <2>5. \A s \in sessions' : s.call # NoCall =>
          calls'[s.call] \in Running /\ WaitsOn(tasks'[s.call][s.h.branch], s)
    BY <1>0, <1>a, <2>1, <2>2, <2>3, <2>4
  <2>6. \A d \in Call : results[d] # {} =>
          \/ calls'[d] \in {"ok", "lost"}
          \/ calls'[d] \in Running /\ \E b \in Branches : Holds(tasks'[d][b])
    <3> SUFFICES ASSUME NEW d \in Call, results[d] # {}
                 PROVE  \/ calls'[d] \in {"ok", "lost"}
                        \/ calls'[d] \in Running /\ \E b \in Branches : Holds(tasks'[d][b])
      OBVIOUS
    <3>1. CASE d = c
      BY <1>0, <1>10, <2>1, <3>1 DEF ReturnInv, Running
    <3>2. CASE d # c
      BY <1>0, <2>1, <2>2, <2>4, <3>2 DEF ReturnInv, Holds
    <3> QED BY <3>1, <3>2
  <2> QED BY <2>1, <2>5, <2>6, SessionsDrop
<1>11. CASE GiveUp(c)
  <2>1. calls[c] = "joining" /\ EndCall(c, "failed")
    BY <1>11 DEF GiveUp
  <2>2. \A b \in Branches : ~Holds(tasks[c][b])
    BY <1>11 DEF GiveUp, Pending, Holds
  <2> QED BY <1>10, <2>1, <2>2
<1>12. ASSUME NEW b \in Branches, JoinOk(c, b) PROVE SessionsInv'
  BY <1>10, <1>12 DEF JoinOk
<1> QED BY <1>1, <1>2, <1>4, <1>7, <1>8, <1>9, <1>11, <1>12 DEF CallStep

(* A call selects a branch and opens its session. *)
LEMMA LaunchWait ==
  ASSUME TypeOK, SessionsInv, NEW c \in Call, NEW b \in Branches, Launch(c, b)
  PROVE  SessionsInv'
<1> DEFINE n == Caller[c]
           h == HashOf(c, b)
           gone == Expired(n)
           live == sessions \ gone
           t == TellExpired(tasks, gone)
           opens == ~\E s \in live : s.node = n /\ s.h = h
           new == NewSession(n, h, n, drawn[n] + 1, c)
           r == [phase |-> "initial", age |-> 0,
                 nonce |-> IF opens THEN drawn[n] + 1 ELSE 0,
                 rx |-> IF opens THEN "open" ELSE "closed"]
<1>0. /\ KeyedInv /\ WaitInv /\ ReturnInv
      /\ n \in Node /\ drawn[n] \in Nat /\ h \in Hash /\ n \in b
  BY HashOfType, CallAssumption DEF SessionsInv, TypeOK, Launch, SelectBranch
<1>1. /\ calls[c] = "filling" /\ tasks[c][b].phase = "none"
      /\ tasks' = [t EXCEPT ![c][b] = r]
      /\ sessions' = IF opens THEN live \cup {new} ELSE live
      /\ UNCHANGED <<calls, results>>
  BY DEF Launch, SelectBranch, Attempted, RemoveExpiredSessions
<1>2. gone \in SUBSET sessions
  BY DEF Expired
<1>3. /\ new.node = n /\ new.h = h /\ new.call = c
      /\ new.nonces = [m \in Node |-> IF m = n THEN drawn[n] + 1 ELSE 0]
  BY DEF NewSession
<1>4. h.req = Req[c] /\ h.branch = b
  BY DEF HashOf
<1>5. r.phase = "initial" /\ (opens => r.rx = "open" /\ r.nonce = drawn[n] + 1)
  OBVIOUS
<1> HIDE DEF gone
<1>6. /\ t \in [Call -> [Branches -> Task]]
      /\ \A s \in live : s.call # NoCall =>
           t[s.call][s.h.branch] = tasks[s.call][s.h.branch]
      /\ \A d \in Call, e \in Branches : tasks[d][e].rx = "ok" => t[d][e] = tasks[d][e]
  BY <1>0, <1>2, ReceiversKept
<1> HIDE DEF t, h, r, new, opens, n
<1>7. /\ \A d \in Call, e \in Branches : ~(d = c /\ e = b) => tasks'[d][e] = t[d][e]
      /\ tasks'[c][b] = r
  BY <1>1, <1>6
<1>8. \A s \in sessions : s.call # NoCall =>
        /\ s.call \in Call /\ s.h.branch \in Branches /\ calls[s.call] \in Running
        /\ WaitsOn(tasks[s.call][s.h.branch], s)
  BY <1>0, SessionFacts DEF WaitInv
<1>9. \A s \in live : s.call # NoCall => ~(s.call = c /\ s.h.branch = b)
  BY <1>1, <1>8 DEF WaitsOn, Early
<1>10. \A s \in live : s.call # NoCall =>
         calls'[s.call] \in Running /\ WaitsOn(tasks'[s.call][s.h.branch], s)
  BY <1>1, <1>6, <1>7, <1>8, <1>9
<1>11. \A d \in Call : results[d] # {} =>
         \/ calls'[d] \in {"ok", "lost"}
         \/ calls'[d] \in Running /\ \E e \in Branches : Holds(tasks'[d][e])
  <2>1. \A d \in Call, e \in Branches : Holds(tasks[d][e]) => Holds(tasks'[d][e])
    <3> SUFFICES ASSUME NEW d \in Call, NEW e \in Branches, Holds(tasks[d][e])
                 PROVE  Holds(tasks'[d][e])
      OBVIOUS
    <3>1. ~(d = c /\ e = b)
      BY <1>1 DEF Holds
    <3>2. tasks'[d][e] = tasks[d][e]
      BY <1>6, <1>7, <3>1 DEF Holds
    <3> QED BY <3>2
  <2> QED BY <1>0, <1>1, <2>1 DEF ReturnInv
<1>12. CASE ~opens
  <2>1. sessions' = live
    BY <1>1, <1>12
  <2> QED BY <1>1, <1>10, <1>11, <2>1, SessionsDrop
<1>13. CASE opens
  <2>1. sessions' = live \cup {new}
    BY <1>1, <1>13
  <2>2. calls'[c] \in Running /\ WaitsOn(tasks'[c][b], new)
    <3>1. n = Caller[c]
      BY DEF n
    <3>2. new.nonces[new.node] = drawn[n] + 1
      BY <1>0, <1>3
    <3> QED BY <1>0, <1>1, <1>3, <1>4, <1>5, <1>7, <1>13, <3>1, <3>2 DEF WaitsOn, Early, Running
  <2>3. \A s \in sessions' : s.call # NoCall =>
          calls'[s.call] \in Running /\ WaitsOn(tasks'[s.call][s.h.branch], s)
    BY <1>3, <1>4, <1>10, <2>1, <2>2
  <2>4. WaitInv'
    BY <2>3 DEF WaitInv, WaitsOn
  <2>5. KeyedInv'
    <3>1. \A s \in live : ~(s.node = new.node /\ s.h = new.h)
      BY <1>3, <1>13 DEF opens
    <3>2. new.nonces[new.node] # 0
      BY <1>0, <1>3
    <3> QED BY <1>0, <2>1, <3>1, <3>2 DEF KeyedInv
  <2>6. ReturnInv'
    BY <1>1, <1>11 DEF ReturnInv, Holds
  <2> QED BY <2>4, <2>5, <2>6 DEF SessionsInv
<1> QED BY <1>12, <1>13

(* remove_expired_sessions, alone or before a request is handled. *)
LEMMA ExpireWait ==
  ASSUME TypeOK, SessionsInv, NEW n \in Node,
         tasks' = TellExpired(tasks, Expired(n)), UNCHANGED <<calls, results>>
  PROVE  /\ \A s \in RemoveExpiredSessions(n) : s.call # NoCall =>
              calls'[s.call] \in Running /\ WaitsOn(tasks'[s.call][s.h.branch], s)
         /\ \A c \in Call : results[c] # {} =>
              \/ calls'[c] \in {"ok", "lost"}
              \/ calls'[c] \in Running /\ \E b \in Branches : Holds(tasks'[c][b])
<1> DEFINE gone == Expired(n)
<1>0. KeyedInv /\ WaitInv /\ ReturnInv /\ gone \in SUBSET sessions
  BY DEF SessionsInv, Expired
<1>1. RemoveExpiredSessions(n) = sessions \ gone /\ tasks' = TellExpired(tasks, gone)
  BY DEF RemoveExpiredSessions
<1> HIDE DEF gone
<1>2. /\ \A s \in sessions \ gone : s.call # NoCall =>
           tasks'[s.call][s.h.branch] = tasks[s.call][s.h.branch]
      /\ \A c \in Call, b \in Branches : tasks[c][b].rx = "ok" => tasks'[c][b] = tasks[c][b]
  BY <1>0, <1>1, ReceiversKept
<1>3. \A c \in Call, b \in Branches : Holds(tasks[c][b]) => Holds(tasks'[c][b])
  BY <1>2 DEF Holds
<1>4. \A s \in sessions : s.call # NoCall =>
        calls[s.call] \in Running /\ WaitsOn(tasks[s.call][s.h.branch], s)
  BY <1>0 DEF WaitInv
<1>5. \A s \in sessions \ gone : s.call # NoCall =>
        calls'[s.call] \in Running /\ WaitsOn(tasks'[s.call][s.h.branch], s)
  BY <1>2, <1>4
<1> QED BY <1>0, <1>1, <1>3, <1>5 DEF ReturnInv

(* A handled request opens a session that no call waits on. *)
LEMMA HandleRequestWait ==
  ASSUME TypeOK, SessionsInv, NEW n \in Node, NEW m \in Node, HandleRequest(n, m)
  PROVE  SessionsInv'
<1> DEFINE msg == Head(net[<<m, n>>])
           live == RemoveExpiredSessions(n)
           opens == ~\E s \in live : s.node = n /\ s.h = msg.h
           new == NewSession(n, msg.h, m, drawn[n] + 1, NoCall)
<1>1. /\ \A s \in live : s.call # NoCall =>
           calls'[s.call] \in Running /\ WaitsOn(tasks'[s.call][s.h.branch], s)
      /\ \A c \in Call : results[c] # {} =>
           \/ calls'[c] \in {"ok", "lost"}
           \/ calls'[c] \in Running /\ \E b \in Branches : Holds(tasks'[c][b])
      /\ results' = results
  BY ExpireWait DEF HandleRequest
<1>2. sessions' = IF opens THEN live \cup {new} ELSE live
  BY DEF HandleRequest
<1>3. /\ new.node = n /\ new.h = msg.h /\ new.call = NoCall
      /\ new.nonces = [k \in Node |-> IF k = n THEN drawn[n] + 1 ELSE 0]
  BY DEF NewSession
<1>4. live \subseteq sessions /\ drawn[n] \in Nat
  BY DEF RemoveExpiredSessions, TypeOK
<1> HIDE DEF msg, live, new
<1>5. KeyedInv'
  <2>1. new.nonces[new.node] # 0
    BY <1>3, <1>4
  <2>2. KeyedInv
    BY DEF SessionsInv
  <2> QED BY <1>2, <1>3, <1>4, <2>1, <2>2 DEF KeyedInv
<1>6. WaitInv'
  BY <1>1, <1>2, <1>3 DEF WaitInv, WaitsOn
<1>7. ReturnInv'
  BY <1>1 DEF ReturnInv, Holds
<1> QED BY <1>5, <1>6, <1>7 DEF SessionsInv

(* Restarts, the cleanup, and time. *)
LEMMA EnvironmentWait ==
  ASSUME TypeOK, SessionsInv,
         \/ \E n \in Node : Cleanup(n) \/ Crash(n)
         \/ Tick
         \/ UNCHANGED <<sessions, calls, tasks, results>>
  PROVE  SessionsInv'
<1>0. /\ KeyedInv /\ WaitInv /\ ReturnInv
      /\ \A s \in sessions : s.call # NoCall =>
           /\ s.call \in Call /\ s.h.branch \in Branches
           /\ calls[s.call] \in Running /\ WaitsOn(tasks[s.call][s.h.branch], s)
  BY SessionFacts DEF SessionsInv, WaitInv
<1>1. ASSUME NEW n \in Node, Cleanup(n) PROVE SessionsInv'
  <2>1. /\ sessions' = RemoveExpiredSessions(n) /\ tasks' = TellExpired(tasks, Expired(n))
        /\ UNCHANGED <<calls, results>> /\ sessions' \subseteq sessions
    BY <1>1 DEF Cleanup, RemoveExpiredSessions
  <2> QED BY <2>1, ExpireWait, SessionsDrop
<1>2. ASSUME NEW n \in Node, Crash(n) PROVE SessionsInv'
  <2>1. /\ sessions' = {s \in sessions : s.node # n} /\ results' = results
        /\ \A c \in Call : Caller[c] # n => calls'[c] = calls[c] /\ tasks'[c] = tasks[c]
        /\ \A c \in Call : Caller[c] = n =>
             calls'[c] = IF calls[c] \in Running THEN "lost" ELSE calls[c]
    <3>1. \A c \in Call : Caller[c] # n =>
            tasks'[c] = [b \in Branches |-> tasks[c][b]]
      BY <1>2 DEF Crash
    <3>2. \A c \in Call : tasks[c] = [b \in Branches |-> tasks[c][b]]
      BY DEF TypeOK
    <3> QED BY <1>2, <3>1, <3>2 DEF Crash
  <2>2. \A s \in sessions' : s.call # NoCall =>
          calls'[s.call] \in Running /\ WaitsOn(tasks'[s.call][s.h.branch], s)
    <3>1. \A s \in sessions' : s.call # NoCall => Caller[s.call] # n
      BY <1>0, <2>1 DEF WaitsOn
    <3> QED BY <1>0, <2>1, <3>1
  <2>3. \A c \in Call : results[c] # {} =>
          \/ calls'[c] \in {"ok", "lost"}
          \/ calls'[c] \in Running /\ \E b \in Branches : Holds(tasks'[c][b])
    <3> SUFFICES ASSUME NEW c \in Call, results[c] # {}
                 PROVE  \/ calls'[c] \in {"ok", "lost"}
                        \/ calls'[c] \in Running /\ \E b \in Branches : Holds(tasks'[c][b])
      OBVIOUS
    <3>1. CASE Caller[c] = n
      BY <1>0, <2>1, <3>1 DEF ReturnInv
    <3>2. CASE Caller[c] # n
      BY <1>0, <2>1, <3>2 DEF ReturnInv
    <3> QED BY <3>1, <3>2
  <2> QED BY <2>1, <2>2, <2>3, SessionsDrop
<1>3. CASE Tick
  <2>1. \A s \in sessions : /\ Aged(s).node = s.node /\ Aged(s).h = s.h
                            /\ Aged(s).nonces = s.nonces /\ Aged(s).call = s.call
    BY DEF Aged, TypeOK, Session
  <2>2. \A c \in Call, b \in Branches :
          /\ tasks'[c][b].phase = tasks[c][b].phase
          /\ tasks'[c][b].rx = tasks[c][b].rx
          /\ tasks'[c][b].nonce = tasks[c][b].nonce
    <3>1. \A c \in Call, b \in Branches : tasks[c][b] \in Task
      BY DEF TypeOK
    <3>2. \A c \in Call, b \in Branches :
            \/ tasks'[c][b] = tasks[c][b]
            \/ tasks'[c][b] = [tasks[c][b] EXCEPT !.age = Older(@)]
      BY <1>3 DEF Tick
    <3>3. ASSUME NEW t \in Task
          PROVE  LET u == [t EXCEPT !.age = Older(@)] IN
                 u.phase = t.phase /\ u.rx = t.rx /\ u.nonce = t.nonce
      BY DEF Task, Attempt
    <3> QED BY <3>1, <3>2, <3>3
  <2>3. sessions' = {Aged(s) : s \in sessions} /\ UNCHANGED <<calls, results>>
    BY <1>3 DEF Tick
  <2>4. KeyedInv'
    BY <1>0, <2>1, <2>3 DEF KeyedInv
  <2>5. WaitInv'
    <3>1. ASSUME NEW s \in sessions, s.call # NoCall
          PROVE  WaitsOn(tasks'[s.call][s.h.branch], Aged(s))
      <4> DEFINE t == tasks[s.call][s.h.branch]
                 u == tasks'[s.call][s.h.branch]
                 a == Aged(s)
      <4>1. WaitsOn(t, s)
        BY <1>0, <3>1
      <4>2. s.call \in Call /\ s.h.branch \in Branches
        BY <3>1 DEF TypeOK, Session, Hash
      <4>3. u.phase = t.phase /\ u.rx = t.rx /\ u.nonce = t.nonce
        BY <2>2, <4>1, <4>2
      <4>4. a.node = s.node /\ a.h = s.h /\ a.nonces = s.nonces /\ a.call = s.call
        BY <2>1
      <4> HIDE DEF t, u, a
      <4>5. WaitsOn(u, a)
        BY <4>1, <4>3, <4>4 DEF WaitsOn
      <4> QED BY <4>5 DEF u, a
    <3>2. \A s \in sessions' : s.call # NoCall =>
            calls'[s.call] \in Running /\ WaitsOn(tasks'[s.call][s.h.branch], s)
      BY <1>0, <2>1, <2>3, <3>1
    <3> QED BY <3>2 DEF WaitInv, WaitsOn
  <2>6. ReturnInv'
    BY <1>0, <2>2, <2>3 DEF ReturnInv, Holds
  <2> QED BY <2>4, <2>5, <2>6 DEF SessionsInv
<1>4. CASE UNCHANGED <<sessions, calls, tasks, results>>
  BY <1>4 DEF SessionsInv, KeyedInv, WaitInv, WaitsOn, ReturnInv, Holds
<1> QED BY <1>1, <1>2, <1>3, <1>4

-----------------------------------------------------------------------------
(* Nonces that a node has drawn and told nobody. *)

(* Node m has sent nonces k, or waits to send them. *)
Told(m, k) == \E x : Said(m, x) /\ x.kind = "nonces" /\ x.nonce = k

(* Everything that names a nonce names one that was drawn, and no two       *)
(* attempts of a node hold the same.                                        *)
FreshInv ==
  /\ \A m \in Node, k \in Nat : Told(m, k) => k <= drawn[m]
  /\ \A s \in sessions, m \in Node : s.nonces[m] <= drawn[m]
  /\ \A p \in signed, m \in Node : p.agg[m] <= drawn[m]
  /\ \A c \in Call, b \in Branches : tasks[c][b].nonce <= drawn[Caller[c]]
  /\ \A c, d \in Call, b, e \in Branches :
       /\ Caller[c] = Caller[d]
       /\ tasks[c][b].nonce = tasks[d][e].nonce
       /\ tasks[c][b].nonce # 0
       => c = d /\ b = e

(* No other node knows nonces k of node n. *)
Hidden(n, k) ==
  /\ ~Told(n, k)
  /\ \A s \in sessions : s.node # n => s.nonces[n] # k
  /\ \A p \in signed : p.signer # n => p.agg[n] # k

(* Until an attempt has sent its nonces, nobody else can sign with them. *)
HiddenInv ==
  \A c \in Call, b \in Branches, k \in Nat \ {0} :
    tasks[c][b].phase \in Early /\ tasks[c][b].nonce = k => Hidden(Caller[c], k)

NoncesInv == FreshInv /\ HiddenInv

(* Node n holds nonces k of node m, or reads them from a message. *)
Knows(n, m, k) ==
  \/ k = 0
  \/ \E s \in sessions : s.node = n /\ s.nonces[m] = k
  \/ Told(m, k)

(* An attempt that a step leaves as it was, sends or ends. *)
Continued(c, b) ==
  tasks'[c][b].nonce # 0 =>
    /\ tasks'[c][b].nonce = tasks[c][b].nonce
    /\ tasks'[c][b].phase \in Early => tasks[c][b].phase \in Early

(* An attempt that a step starts, with the next nonces of its node. *)
Begun(c, b) ==
  /\ tasks'[c][b].nonce = drawn[Caller[c]] + 1
  /\ drawn'[Caller[c]] = drawn[Caller[c]] + 1
  /\ \A k \in Nat : Told(Caller[c], k)' => Told(Caller[c], k)

(* How nonces spread in one step: sessions and shares take them from what   *)
(* their node knows, a node tells the nonces it draws or those of an        *)
(* attempt that is about to wait, and at most one attempt starts.           *)
NoncesSpread ==
  /\ \A m \in Node : drawn'[m] \in {drawn[m], drawn[m] + 1}
  /\ \A s \in sessions', m \in Node :
       \/ Knows(s.node, m, s.nonces[m])
       \/ m = s.node /\ s.nonces[m] <= drawn'[m]
  /\ \A p \in signed' : p \in signed \/ \A m \in Node : Knows(p.signer, m, p.agg[m])
  /\ \A m \in Node, k \in Nat : Told(m, k)' =>
       \/ Told(m, k)
       \/ k = drawn[m] + 1 /\ drawn'[m] = drawn[m] + 1
       \/ \E c \in Call, b \in Branches :
            /\ Caller[c] = m /\ tasks[c][b].nonce = k /\ k # 0
            /\ tasks'[c][b].phase \notin Early
  /\ \A c \in Call, b \in Branches : Continued(c, b) \/ Begun(c, b)
  /\ \A c, d \in Call, b, e \in Branches :
       ~Continued(c, b) /\ ~Continued(d, e) => c = d /\ b = e

LEMMA NonceTypes ==
  ASSUME TypeOK
  PROVE  /\ \A s \in sessions, m \in Node : s.nonces[m] \in Nat
         /\ \A p \in signed, m \in Node : p.agg[m] \in Nat
         /\ \A p \in signed : p.signer \in Node
         /\ \A s \in sessions : s.node \in Node
         /\ \A c \in Call, b \in Branches : tasks[c][b].nonce \in Nat
         /\ \A m \in Node : drawn[m] \in Nat
<1>1. \A c \in Call, b \in Branches : tasks[c][b] \in Task
  BY DEF TypeOK
<1> QED BY <1>1 DEF TypeOK, Session, Partial, Task, Attempt

(* Such a step keeps every nonce fresh and what is hidden hidden. *)
LEMMA SpreadKeeps ==
  ASSUME TypeOK, TypeOK', NoncesInv, NoncesSpread
  PROVE  NoncesInv'
<1>0. /\ \A m \in Node : drawn[m] \in Nat /\ drawn'[m] \in Nat /\ drawn[m] <= drawn'[m]
      /\ \A c \in Call : Caller[c] \in Node
      /\ \A c \in Call, b \in Branches : tasks[c][b].nonce \in Nat /\ tasks'[c][b].nonce \in Nat
      /\ \A s \in sessions', m \in Node : s.nonces[m] \in Nat
      /\ \A p \in signed', m \in Node : p.agg[m] \in Nat
      /\ \A s \in sessions' : s.node \in Node
      /\ \A p \in signed' : p.signer \in Node
  <2>1. /\ \A s \in sessions', m \in Node : s.nonces[m] \in Nat
        /\ \A p \in signed', m \in Node : p.agg[m] \in Nat
        /\ \A p \in signed' : p.signer \in Node
        /\ \A s \in sessions' : s.node \in Node
        /\ \A c \in Call, b \in Branches : tasks'[c][b].nonce \in Nat
        /\ \A m \in Node : drawn'[m] \in Nat
    <3>1. \A c \in Call, b \in Branches : tasks'[c][b] \in Task
      BY DEF TypeOK
    <3> QED BY <3>1 DEF TypeOK, Session, Partial, Task, Attempt
  <2> QED BY <2>1, NonceTypes, CallAssumption DEF NoncesSpread
<1>f. FreshInv /\ HiddenInv
  BY DEF NoncesInv
<1>1. \A n, m \in Node, k \in Nat : Knows(n, m, k) => k <= drawn[m]
  BY <1>0, <1>f DEF Knows, FreshInv
<1>2. \A m \in Node, k \in Nat : Told(m, k)' => k <= drawn'[m]
  BY <1>0, <1>f DEF NoncesSpread, FreshInv
<1>3. \A s \in sessions', m \in Node : s.nonces[m] <= drawn'[m]
  BY <1>0, <1>1 DEF NoncesSpread
<1>4. \A p \in signed', m \in Node : p.agg[m] <= drawn'[m]
  BY <1>0, <1>1, <1>f DEF NoncesSpread, FreshInv
<1>5. \A c \in Call, b \in Branches : tasks'[c][b].nonce <= drawn'[Caller[c]]
  BY <1>0, <1>f DEF NoncesSpread, FreshInv, Continued, Begun
<1>6. ASSUME NEW c \in Call, NEW d \in Call, NEW b \in Branches, NEW e \in Branches,
             Caller[c] = Caller[d], tasks'[c][b].nonce = tasks'[d][e].nonce,
             tasks'[c][b].nonce # 0
      PROVE  c = d /\ b = e
  <2>1. CASE Continued(c, b) /\ Continued(d, e)
    BY <1>6, <1>f, <2>1 DEF Continued, FreshInv
  <2>2. CASE ~Continued(c, b) /\ ~Continued(d, e)
    BY <2>2 DEF NoncesSpread
  <2>3. CASE ~Continued(c, b) /\ Continued(d, e)
    <3>1. tasks'[c][b].nonce = drawn[Caller[c]] + 1
      BY <2>3 DEF NoncesSpread, Begun
    <3>2. tasks'[d][e].nonce <= drawn[Caller[d]]
      BY <1>0, <1>6, <1>f, <2>3 DEF Continued, FreshInv
    <3> QED BY <1>0, <1>6, <3>1, <3>2
  <2>4. CASE Continued(c, b) /\ ~Continued(d, e)
    <3>1. tasks'[d][e].nonce = drawn[Caller[d]] + 1
      BY <2>4 DEF NoncesSpread, Begun
    <3>2. tasks'[c][b].nonce <= drawn[Caller[c]]
      BY <1>0, <1>6, <1>f, <2>4 DEF Continued, FreshInv
    <3> QED BY <1>0, <1>6, <3>1, <3>2
  <2> QED BY <2>1, <2>2, <2>3, <2>4
<1>7. FreshInv'
  BY <1>2, <1>3, <1>4, <1>5, <1>6 DEF FreshInv
<1>8. ASSUME NEW c \in Call, NEW b \in Branches, NEW k \in Nat \ {0},
             tasks'[c][b].phase \in Early, tasks'[c][b].nonce = k
      PROVE  Hidden(Caller[c], k)'
  <2> DEFINE n == Caller[c]
  <2>0. n \in Node /\ k \in Nat /\ k # 0
    BY <1>0, <1>8
  <2>1. /\ ~Told(n, k)' /\ ~Told(n, k)
        /\ \A s \in sessions : s.node # n => s.nonces[n] # k
        /\ \A p \in signed : p.signer # n => p.agg[n] # k
    <3>1. CASE Continued(c, b)
      <4>1. /\ k = tasks[c][b].nonce /\ tasks[c][b].phase \in Early
        BY <1>8, <3>1 DEF Continued
      <4>2. Hidden(n, k)
        BY <1>f, <1>8, <4>1 DEF HiddenInv
      <4>3. k <= drawn[n]
        BY <1>f, <4>1 DEF FreshInv
      <4>4. ~Told(n, k)'
        <5>1. SUFFICES ASSUME Told(n, k)' PROVE FALSE
          OBVIOUS
        <5>2. k # drawn[n] + 1
          BY <1>0, <2>0, <4>3
        <5>3. PICK d \in Call, e \in Branches :
                /\ Caller[d] = n /\ tasks[d][e].nonce = k
                /\ tasks'[d][e].phase \notin Early
          BY <2>0, <4>2, <5>1, <5>2 DEF NoncesSpread, Hidden
        <5>4. d = c /\ e = b
          BY <1>f, <2>0, <4>1, <5>3 DEF FreshInv
        <5> QED BY <1>8, <5>3, <5>4
      <4> QED BY <4>2, <4>4 DEF Hidden
    <3>2. CASE ~Continued(c, b)
      <4>1. /\ k = drawn[n] + 1
            /\ Told(n, k)' => Told(n, k)
        <5>1. Begun(c, b)
          BY <3>2 DEF NoncesSpread
        <5>2. k \in Nat
          OBVIOUS
        <5> QED BY <1>8, <5>1, <5>2 DEF Begun
      <4>2. ~Told(n, k)
        BY <1>0, <1>f, <2>0, <4>1 DEF FreshInv
      <4>3. \A s \in sessions : s.nonces[n] # k
        BY <1>0, <1>f, <2>0, <4>1, NonceTypes DEF FreshInv
      <4>4. \A p \in signed : p.agg[n] # k
        BY <1>0, <1>f, <2>0, <4>1, NonceTypes DEF FreshInv
      <4> QED BY <4>1, <4>2, <4>3, <4>4
    <3> QED BY <3>1, <3>2
  <2> HIDE DEF n
  <2>2. \A m \in Node : m # n => ~Knows(m, n, k)
    BY <2>0, <2>1 DEF Knows
  <2>3. \A s \in sessions' : s.node # n => s.nonces[n] # k
    BY <1>0, <2>0, <2>2 DEF NoncesSpread
  <2>4. \A p \in signed' : p.signer # n => p.agg[n] # k
    BY <1>0, <2>0, <2>1, <2>2 DEF NoncesSpread
  <2>5. Hidden(n, k)'
    BY <2>1, <2>3, <2>4 DEF Hidden
  <2> QED BY <2>5 DEF n
<1>9. HiddenInv'
  BY <1>8 DEF HiddenInv
<1> QED BY <1>7, <1>9 DEF NoncesInv

(* A step that starts no attempt, draws nothing and signs nothing. *)
LEMMA SpreadNothing ==
  ASSUME TypeOK, UNCHANGED <<drawn, signed>>,
         \A s \in sessions' : \E t \in sessions : t.node = s.node /\ t.nonces = s.nonces,
         \A m \in Node, k \in Nat : Told(m, k)' =>
           \/ Told(m, k)
           \/ \E c \in Call, b \in Branches :
                /\ Caller[c] = m /\ tasks[c][b].nonce = k /\ k # 0
                /\ tasks'[c][b].phase \notin Early,
         \A c \in Call, b \in Branches : Continued(c, b)
  PROVE  NoncesSpread
  BY DEF NoncesSpread, Knows

LEMMA SaidTold ==
  ASSUME NEW m \in Node, NEW k \in Nat, Told(m, k)'
  PROVE  \E x : Said(m, x)' /\ x.kind = "nonces" /\ x.nonce = k
  BY DEF Told

(* The attempts of a call. *)
LEMMA CallStepSpread ==
  ASSUME TypeOK, SessionsInv, NEW c \in Call, CallStep(c)
  PROVE  NoncesSpread
<1> DEFINE n == Caller[c]
           told == TellExpired(tasks, Expired(n))
<1>0. /\ tasks \in [Call -> [Branches -> Task]] /\ KeyedInv /\ WaitInv
      /\ n \in Node /\ drawn[n] \in Nat
  BY CallAssumption DEF TypeOK, SessionsInv
<1>a. ASSUME NEW gone \in SUBSET sessions,
             NEW t \in {TellExpired(tasks, gone), CloseReceivers(tasks, gone)}
      PROVE  /\ t \in [Call -> [Branches -> Task]]
             /\ \A d \in Call, b \in Branches :
                  t[d][b].phase = tasks[d][b].phase /\ t[d][b].nonce = tasks[d][b].nonce
  BY <1>0, ReceiversKept
<1>b. /\ told \in [Call -> [Branches -> Task]]
      /\ \A d \in Call, b \in Branches :
           told[d][b].phase = tasks[d][b].phase /\ told[d][b].nonce = tasks[d][b].nonce
  <2>1. Expired(n) \in SUBSET sessions
    BY DEF Expired
  <2> QED BY <1>a, <2>1
<1> HIDE DEF told
<1>1. ASSUME NEW b \in Branches, Launch(c, b) PROVE NoncesSpread
  <2> DEFINE h == HashOf(c, b)
             live == RemoveExpiredSessions(n)
             opens == ~\E s \in live : s.node = n /\ s.h = h
             new == NewSession(n, h, n, drawn[n] + 1, c)
             r == [phase |-> "initial", age |-> 0,
                   nonce |-> IF opens THEN drawn[n] + 1 ELSE 0,
                   rx |-> IF opens THEN "open" ELSE "closed"]
  <2>1. /\ tasks' = [told EXCEPT ![c][b] = r]
        /\ sessions' = IF opens THEN live \cup {new} ELSE live
        /\ drawn' = IF opens THEN [drawn EXCEPT ![n] = @ + 1] ELSE drawn
        /\ UNCHANGED <<net, sending, signed>> /\ live \subseteq sessions
    BY <1>1 DEF Launch, told, RemoveExpiredSessions
  <2>2. new.node = n /\ new.nonces = [m \in Node |-> IF m = n THEN drawn[n] + 1 ELSE 0]
    BY DEF NewSession
  <2>3. r.nonce = IF opens THEN drawn[n] + 1 ELSE 0
    OBVIOUS
  <2> HIDE DEF r, new, live, h, opens
  <2>4. /\ tasks'[c][b] = r
        /\ \A d \in Call, e \in Branches : ~(d = c /\ e = b) => tasks'[d][e] = told[d][e]
    BY <1>b, <2>1
  <2>5. \A d \in Call, e \in Branches : ~(d = c /\ e = b) => Continued(d, e)
    BY <1>b, <2>4 DEF Continued
  <2>6. \A m \in Node, k \in Nat : Told(m, k)' => Told(m, k)
    BY <2>1 DEF Told, Said, On
  <2>7. CASE ~opens
    <3>1. Continued(c, b) /\ drawn' = drawn /\ sessions' = live
      BY <2>1, <2>3, <2>4, <2>7 DEF Continued
    <3>2. \A d \in Call, e \in Branches : Continued(d, e)
      BY <2>5, <3>1
    <3>3. \A s \in sessions' : \E t \in sessions : t.node = s.node /\ t.nonces = s.nonces
      BY <2>1, <3>1
    <3> QED BY <2>1, <2>6, <3>1, <3>2, <3>3, SpreadNothing
  <2>8. CASE opens
    <3>1. /\ drawn' = [drawn EXCEPT ![n] = drawn[n] + 1] /\ sessions' = live \cup {new}
          /\ drawn'[n] = drawn[n] + 1
          /\ \A m \in Node : drawn'[m] \in {drawn[m], drawn[m] + 1}
      BY <1>0, <2>1, <2>8 DEF TypeOK
    <3>2. Begun(c, b)
      BY <1>0, <2>3, <2>4, <2>6, <2>8, <3>1 DEF Begun
    <3>3. \A s \in sessions', m \in Node :
            Knows(s.node, m, s.nonces[m]) \/ (m = s.node /\ s.nonces[m] <= drawn'[m])
      BY <1>0, <2>1, <2>2, <3>1 DEF Knows
    <3> QED BY <2>1, <2>5, <2>6, <3>1, <3>2, <3>3 DEF NoncesSpread
  <2> QED BY <2>7, <2>8
<1>2. CASE ~\E b \in Branches : Launch(c, b)
  <2>1. sessions' \subseteq sessions /\ UNCHANGED <<drawn, signed>>
    <3>1. ASSUME NEW o, EndCall(c, o) PROVE sessions' \subseteq sessions /\ UNCHANGED <<drawn, signed>>
      BY <3>1 DEF EndCall
    <3> QED BY <1>2, <3>1 DEF CallStep, Begin, StopFilling, GiveUp, SkipBranch, SendInitial,
         SendNonces, Await, FailAttempt, JoinOk, JoinFailed, RemoveExpiredSessions
  <2>2. ASSUME NEW t \in [Call -> [Branches -> Task]],
               \A d \in Call, e \in Branches :
                 t[d][e].phase = tasks[d][e].phase /\ t[d][e].nonce = tasks[d][e].nonce,
               NEW b \in Branches, NEW ph, ph \notin Early \/ tasks[c][b].phase \in Early,
               \/ tasks' = t \/ tasks' = [t EXCEPT ![c][b] = Joined]
               \/ tasks' = [t EXCEPT ![c][b].phase = ph]
        PROVE  \A d \in Call, e \in Branches : Continued(d, e)
    <3>1. /\ t \in [Call -> [Branches -> Task]]
          /\ \A d \in Call, e \in Branches :
               t[d][e].phase = tasks[d][e].phase /\ t[d][e].nonce = tasks[d][e].nonce
      BY <2>2
    <3>2. CASE tasks' = t
      BY <3>1, <3>2 DEF Continued
    <3>3. CASE tasks' = [t EXCEPT ![c][b] = Joined]
      <4>1. /\ tasks'[c][b] = Joined /\ Joined.nonce = 0
            /\ \A d \in Call, e \in Branches : ~(d = c /\ e = b) => tasks'[d][e] = t[d][e]
        BY <3>1, <3>3 DEF Joined
      <4> QED BY <3>1, <4>1 DEF Continued
    <3>4. CASE tasks' = [t EXCEPT ![c][b].phase = ph]
      <4>1. t[c][b] \in Task
        BY <3>1
      <4>2. /\ tasks'[c][b].phase = ph /\ tasks'[c][b].nonce = t[c][b].nonce
            /\ \A d \in Call, e \in Branches : ~(d = c /\ e = b) => tasks'[d][e] = t[d][e]
        BY <3>1, <3>4, <4>1 DEF Task, Attempt
      <4> QED BY <2>2, <3>1, <4>2 DEF Continued
    <3> QED BY <2>2, <3>2, <3>3, <3>4
  <2>3. \A d \in Call, e \in Branches : Continued(d, e)
    <3>1. CASE Begin(c) \/ StopFilling(c)
      <4>1. tasks' = tasks \/ tasks' = told
        BY <3>1 DEF Begin, StopFilling, told
      <4> QED BY <1>b, <4>1 DEF Continued
    <3>2. ASSUME NEW b \in Branches, SkipBranch(c, b) \/ JoinFailed(c, b)
          PROVE  \A d \in Call, e \in Branches : Continued(d, e)
      <4>1. tasks' = [told EXCEPT ![c][b] = Joined] \/ tasks' = [tasks EXCEPT ![c][b] = Joined]
        BY <3>2 DEF SkipBranch, JoinFailed, told
      <4>2. "failed" \notin Early
        BY DEF Early
      <4> QED BY <1>0, <1>b, <2>2, <4>1, <4>2
    <3>3. ASSUME NEW b \in Branches, NEW q, FailAttempt(c, b, q)
          PROVE  \A d \in Call, e \in Branches : Continued(d, e)
      <4> DEFINE gone == Abandoned(c, {b})
                 t == CloseReceivers(tasks, gone)
      <4>1. gone \in SUBSET sessions
        BY DEF Abandoned
      <4>2. tasks' = [t EXCEPT ![c][b].phase = "failed"]
        BY <3>3 DEF FailAttempt
      <4>3. t \in {TellExpired(tasks, gone), CloseReceivers(tasks, gone)}
        OBVIOUS
      <4>4. "failed" \notin Early
        BY DEF Early
      <4> HIDE DEF gone, t
      <4> QED BY <1>a, <2>2, <4>1, <4>2, <4>3, <4>4
    <3>4. ASSUME NEW b \in Branches, SendInitial(c, b) \/ SendNonces(c, b) \/ Await(c, b)
          PROVE  \A d \in Call, e \in Branches : Continued(d, e)
      <4>1. \/ \E q : FailAttempt(c, b, q)
            \/ \E ph \in {"nonces", "wait", "ok"} :
                 /\ tasks' = [tasks EXCEPT ![c][b].phase = ph]
                 /\ ph = "nonces" => tasks[c][b].phase = "initial"
        BY <3>4 DEF SendInitial, SendNonces, Await
      <4>2. ASSUME NEW ph \in {"nonces", "wait", "ok"},
                   tasks' = [tasks EXCEPT ![c][b].phase = ph],
                   ph = "nonces" => tasks[c][b].phase = "initial"
            PROVE  \A d \in Call, e \in Branches : Continued(d, e)
        <5>1. ph \notin Early \/ tasks[c][b].phase \in Early
          BY <4>2 DEF Early
        <5> QED BY <1>0, <2>2, <4>2, <5>1
      <4> QED BY <3>3, <4>1, <4>2
    <3>5. ASSUME NEW o, EndCall(c, o) PROVE \A d \in Call, e \in Branches : Continued(d, e)
      <4> DEFINE gone == Abandoned(c, Attempted(c))
                 t == CloseReceivers(tasks, gone)
      <4>1. gone \in SUBSET sessions
        BY DEF Abandoned
      <4>2. t \in {TellExpired(tasks, gone), CloseReceivers(tasks, gone)}
        OBVIOUS
      <4>3. tasks' = [t EXCEPT ![c] =
                        [b \in Branches |-> IF tasks[c][b].phase = "none" THEN tasks[c][b]
                                            ELSE Joined]]
        BY <3>5 DEF EndCall
      <4> HIDE DEF gone, t
      <4>4. /\ \A d \in Call : d # c => tasks'[d] = t[d]
            /\ \A b \in Branches : tasks'[c][b] = tasks[c][b] \/ tasks'[c][b] = Joined
            /\ Joined.nonce = 0
        BY <1>a, <4>1, <4>2, <4>3 DEF Joined
      <4> QED BY <1>a, <4>1, <4>2, <4>4 DEF Continued
    <3> QED BY <1>2, <3>1, <3>2, <3>4, <3>5 DEF CallStep, GiveUp, JoinOk
  <2>4. ASSUME NEW m \in Node, NEW k \in Nat, Told(m, k)'
        PROVE  \/ Told(m, k)
               \/ \E d \in Call, b \in Branches :
                    /\ Caller[d] = m /\ tasks[d][b].nonce = k /\ k # 0
                    /\ tasks'[d][b].phase \notin Early
    <3>1. PICK x : Said(m, x)' /\ x.kind = "nonces" /\ x.nonce = k
      BY <2>4, SaidTold
    <3>2. CASE Said(m, x)
      BY <3>1, <3>2 DEF Told
    <3>3. ASSUME NEW b \in Branches, m = n, SendNonces(c, b), x = NoncesOf(c, b)
          PROVE  /\ tasks[c][b].nonce = k /\ k # 0 /\ tasks'[c][b].phase \notin Early
      <4>1. tasks[c][b].nonce = k /\ tasks[c][b].phase = "nonces"
        BY <3>1, <3>3 DEF SendNonces, NoncesOf
      <4>2. tasks[c][b] \in Task
        BY <1>0
      <4>3. tasks'[c][b].phase \in {"wait", "failed"}
        <5>1. CASE tasks' = [tasks EXCEPT ![c][b].phase = "wait"]
          BY <1>0, <4>2, <5>1 DEF Task, Attempt
        <5>2. ASSUME NEW q, FailAttempt(c, b, q) PROVE tasks'[c][b].phase = "failed"
          <6> DEFINE t == CloseReceivers(tasks, Abandoned(c, {b}))
          <6>1. t \in [Call -> [Branches -> Task]]
            BY <1>0, ReceiversType
          <6>2. tasks' = [t EXCEPT ![c][b].phase = "failed"]
            BY <5>2 DEF FailAttempt
          <6> HIDE DEF t
          <6>3. t[c][b] \in Task
            BY <6>1
          <6> QED BY <6>1, <6>2, <6>3 DEF Task, Attempt
        <5> QED BY <3>3, <5>1, <5>2 DEF SendNonces
      <4> QED BY <4>1, <4>2, <4>3 DEF Task, Early
    <3> QED BY <3>1, <3>2, <3>3, CallStepSaid DEF RequestOf
  <2>5. \A s \in sessions' : \E t \in sessions : t.node = s.node /\ t.nonces = s.nonces
    BY <2>1
  <2> QED BY <2>1, <2>3, <2>4, <2>5, SpreadNothing
<1> QED BY <1>1, <1>2

(* A handled request draws nonces and tells them. *)
LEMMA HandleRequestSpread ==
  ASSUME TypeOK, SessionsInv, NEW n \in Node, NEW m \in Node, HandleRequest(n, m)
  PROVE  NoncesSpread
<1> DEFINE msg == Head(net[<<m, n>>])
           live == RemoveExpiredSessions(n)
           opens == ~\E s \in live : s.node = n /\ s.h = msg.h
           new == NewSession(n, msg.h, m, drawn[n] + 1, NoCall)
           nonces == [kind |-> "nonces", h |-> msg.h, nonce |-> drawn[n] + 1,
                      count |-> Len(ExecuteMessageHashes(msg.h.req, Rate[n]))]
           out == [node |-> n, conn |-> m, msg |-> nonces]
<1>1. /\ signed' = signed /\ net' = Consumed(m, n) /\ net[<<m, n>>] # <<>>
      /\ tasks' = TellExpired(tasks, Expired(n))
      /\ sessions' = IF opens THEN live \cup {new} ELSE live
      /\ drawn' = IF opens THEN [drawn EXCEPT ![n] = @ + 1] ELSE drawn
      /\ sending' = IF opens THEN sending \cup {out} ELSE sending
      /\ live \subseteq sessions /\ Expired(n) \in SUBSET sessions /\ drawn[n] \in Nat
  BY DEF HandleRequest, Receivable, NewSession, RemoveExpiredSessions, Expired, TypeOK
<1>2. new.node = n /\ new.nonces = [k \in Node |-> IF k = n THEN drawn[n] + 1 ELSE 0]
  BY DEF NewSession
<1>3. out.node = n /\ out.msg = nonces /\ nonces.nonce = drawn[n] + 1
  OBVIOUS
<1> HIDE DEF msg, new, live, nonces, opens, out
<1>4. \A c \in Call, b \in Branches : Continued(c, b)
  <2>1. KeyedInv /\ WaitInv
    BY DEF SessionsInv
  <2> QED BY <1>1, <2>1, ReceiversKept DEF Continued
<1>5. ASSUME NEW k \in Node, NEW j \in Nat, Told(k, j)'
      PROVE  Told(k, j) \/ (opens /\ k = n /\ j = drawn[n] + 1)
  <2>1. PICK x : Said(k, x)' /\ x.kind = "nonces" /\ x.nonce = j
    BY <1>5, SaidTold
  <2>2. Said(k, x) \/ (opens /\ k = n /\ x = nonces)
    BY <1>1, <1>3, <2>1, SaidNext, ConsumedOn DEF Said
  <2> QED BY <1>3, <2>1, <2>2 DEF Told
<1>6. CASE ~opens
  <2>1. drawn' = drawn /\ sessions' = live
    BY <1>1, <1>6
  <2>2. \A s \in sessions' : \E t \in sessions : t.node = s.node /\ t.nonces = s.nonces
    BY <1>1, <2>1
  <2> QED BY <1>1, <1>4, <1>5, <1>6, <2>1, <2>2, SpreadNothing
<1>7. CASE opens
  <2>1. /\ sessions' = live \cup {new} /\ drawn'[n] = drawn[n] + 1
        /\ \A k \in Node : drawn'[k] \in {drawn[k], drawn[k] + 1}
    BY <1>1, <1>7 DEF TypeOK
  <2>2. \A s \in sessions', k \in Node :
          Knows(s.node, k, s.nonces[k]) \/ (k = s.node /\ s.nonces[k] <= drawn'[k])
    BY <1>1, <1>2, <2>1 DEF Knows
  <2> QED BY <1>1, <1>4, <1>5, <2>1, <2>2 DEF NoncesSpread
<1> QED BY <1>6, <1>7

(* A completed session changes receivers and keeps the nonces. *)
LEMMA CompleteSpread ==
  ASSUME TypeOK, NEW old \in sessions, NEW new \in Session, CompleteSession(old, new)
  PROVE  /\ \A s \in sessions' : s \in sessions \/ (s.node = new.node /\ s.nonces = new.nonces)
         /\ \A c \in Call, b \in Branches : Continued(c, b)
<1>1. Check(new).node = new.node /\ Check(new).nonces = new.nonces
  BY CheckFields
<1>2. \A s \in sessions' : s \in sessions \/ (s.node = new.node /\ s.nonces = new.nonces)
  BY <1>1 DEF CompleteSession
<1>3. tasks' = tasks \/ tasks' = [tasks EXCEPT ![new.call][new.h.branch].rx = "ok"]
  BY DEF CompleteSession
<1>4. ASSUME NEW c \in Call, NEW b \in Branches
      PROVE  tasks'[c][b].nonce = tasks[c][b].nonce /\ tasks'[c][b].phase = tasks[c][b].phase
  <2>1. tasks[c][b] \in Task /\ tasks \in [Call -> [Branches -> Task]]
    BY DEF TypeOK
  <2>2. tasks'[c][b] = tasks[c][b] \/ tasks'[c][b] = [tasks[c][b] EXCEPT !.rx = "ok"]
    BY <1>3, <2>1
  <2> QED BY <2>1, <2>2 DEF Task, Attempt
<1> QED BY <1>2, <1>4 DEF Continued

(* accept_nonces: the nonces come from a message, the share from both. *)
LEMMA AcceptNoncesSpread ==
  ASSUME TypeOK, NEW n \in Node, NEW m \in Node, AcceptNonces(n, m)
  PROVE  NoncesSpread
<1> DEFINE msg == Head(net[<<m, n>>])
           k == msg.nonce
<1>1. /\ net[<<m, n>>] # <<>> /\ net' = Consumed(m, n) /\ k \in Nat
      /\ msg.kind = "nonces" /\ drawn' = drawn
  BY AcceptNoncesEffect
<1>2. PICK s \in sessions :
        LET t == Noted(s, m, k) IN
        /\ s \in Session /\ t \in Session /\ s.node = n
        /\ CompleteSession(s, AfterSigning(t))
        /\ signed' = IF SignsWith(t) THEN signed \cup {PartialSign(t)} ELSE signed
        /\ sending' = IF SignsWith(t) /\ ~CheckFailed(AfterSigning(t))
                        THEN sending \cup
                          {[node |-> n, conn |-> m,
                            msg |-> [kind |-> "partials", h |-> s.h,
                                     partial |-> PartialSign(t)]]}
                        ELSE sending
  BY AcceptNoncesEffect
<1> DEFINE t == Noted(s, m, k)
           new == AfterSigning(t)
<1>3. Told(m, k)
  BY <1>1, ConsumedOn DEF Told, Said
<1> HIDE DEF k
<1>4. t.node = n /\ t.nonces = [s.nonces EXCEPT ![m] = k] /\ s.nonces \in [Node -> Nat]
  BY <1>1, <1>2, NotedType DEF Noted, Session
<1>5. \A l \in Node : Knows(n, l, t.nonces[l])
  BY <1>2, <1>3, <1>4 DEF Knows
<1>6. t \in Session /\ CompleteSession(s, new)
  BY <1>2
<1>7. ASSUME NEW l \in Node, NEW j \in Nat, Told(l, j)' PROVE Told(l, j)
  <2>1. PICK x : Said(l, x)' /\ x.kind = "nonces" /\ x.nonce = j
    BY <1>7, SaidTold
  <2>2. Said(l, x)
    BY <1>1, <1>2, <2>1, SaidNext, ConsumedOn DEF Said
  <2> QED BY <2>1, <2>2 DEF Told
<1>8. signed' \subseteq signed \cup {PartialSign(t)}
  BY <1>2
<1> HIDE DEF t
<1>9. new \in Session /\ new.node = n /\ new.nonces = t.nonces
  BY <1>4, <1>6, AfterSigningType
<1>10. /\ PartialSign(t).signer = n
       /\ \A l \in Node : PartialSign(t).agg[l] \in {0, t.nonces[l]}
  BY <1>4, <1>6 DEF PartialSign, Aggregate
<1> HIDE DEF new
<1>11. /\ \A u \in sessions' : u \in sessions \/ (u.node = n /\ u.nonces = t.nonces)
       /\ \A c \in Call, b \in Branches : Continued(c, b)
  BY <1>6, <1>9, CompleteSpread
<1>12. \A u \in sessions', l \in Node : Knows(u.node, l, u.nonces[l])
  BY <1>5, <1>11 DEF Knows
<1>13. \A p \in signed' : p \in signed \/ \A l \in Node : Knows(p.signer, l, p.agg[l])
  <2>1. \A l \in Node : Knows(n, l, PartialSign(t).agg[l])
    BY <1>5, <1>10 DEF Knows
  <2> QED BY <1>8, <1>10, <2>1
<1> QED BY <1>1, <1>7, <1>11, <1>12, <1>13 DEF NoncesSpread

LEMMA AcceptPartialsSpread ==
  ASSUME TypeOK, NEW n \in Node, NEW m \in Node, AcceptPartialSignatures(n, m)
  PROVE  NoncesSpread
<1> DEFINE p == Head(net[<<m, n>>]).partial
<1>1. /\ net[<<m, n>>] # <<>> /\ net' = Consumed(m, n) /\ UNCHANGED <<sending, drawn, signed>>
  BY AcceptPartialsEffect
<1>2. PICK s \in sessions :
        LET t == NotePartial(s, m, p) IN
        t \in Session /\ t.node = s.node /\ t.nonces = s.nonces /\ CompleteSession(s, t)
  BY AcceptPartialsEffect
<1>3. \A u \in sessions' : \E t \in sessions : t.node = u.node /\ t.nonces = u.nonces
  BY <1>2, CompleteSpread
<1>4. \A c \in Call, b \in Branches : Continued(c, b)
  BY <1>2, CompleteSpread
<1>5. ASSUME NEW l \in Node, NEW j \in Nat, Told(l, j)' PROVE Told(l, j)
  <2>1. PICK x : Said(l, x)' /\ x.kind = "nonces" /\ x.nonce = j
    BY <1>5, SaidTold
  <2>2. Said(l, x)
    BY <1>1, <2>1, SaidNext, ConsumedOn DEF Said
  <2> QED BY <2>1, <2>2 DEF Told
<1> QED BY <1>1, <1>3, <1>4, <1>5, SpreadNothing

(* The environment, and messages that are ignored. *)
LEMMA EnvironmentSpread ==
  ASSUME TypeOK, SessionsInv,
         \/ \E n, m \in Node : Refuse(n, m) \/ IgnoreNonces(n, m) \/ IgnorePartials(n, m)
         \/ \E o \in sending : SendFromHandle(o)
         \/ \E n \in Node : Cleanup(n) \/ Crash(n)
         \/ Tick
         \/ \E m, n \in Node : Disconnect(m, n) \/ Reconnect(m, n)
         \/ UNCHANGED vars
  PROVE  NoncesSpread
<1>0. tasks \in [Call -> [Branches -> Task]] /\ KeyedInv /\ WaitInv
  BY DEF TypeOK, SessionsInv
<1>1. \A m \in Node, k \in Nat : Told(m, k)' => Told(m, k)
  <2> SUFFICES ASSUME NEW m \in Node, NEW k \in Nat, Told(m, k)' PROVE Told(m, k)
    OBVIOUS
  <2>1. PICK x : Said(m, x)' /\ x.kind = "nonces" /\ x.nonce = k
    BY SaidTold
  <2>2. Said(m, x)
    BY <2>1, QuietSaid DEF Refuse, IgnoreNonces, IgnorePartials, Receivable
  <2> QED BY <2>1, <2>2 DEF Told
<1>2. CASE Tick
  <2>1. \A s \in sessions : Aged(s).node = s.node /\ Aged(s).nonces = s.nonces
    BY DEF Aged, TypeOK, Session
  <2>2. UNCHANGED <<drawn, signed>> /\ sessions' = {Aged(s) : s \in sessions}
    BY <1>2 DEF Tick
  <2>3. \A c \in Call, b \in Branches : Continued(c, b)
    <3>1. \A c \in Call, b \in Branches :
            \/ tasks'[c][b] = tasks[c][b]
            \/ tasks'[c][b] = [tasks[c][b] EXCEPT !.age = Older(@)]
      BY <1>2 DEF Tick
    <3>2. ASSUME NEW t \in Task
          PROVE  LET u == [t EXCEPT !.age = Older(@)] IN
                 u.phase = t.phase /\ u.nonce = t.nonce
      BY DEF Task, Attempt
    <3> QED BY <1>0, <3>1, <3>2 DEF Continued
  <2> QED BY <1>1, <2>1, <2>2, <2>3, SpreadNothing
<1>3. ASSUME NEW n \in Node, Cleanup(n)
      PROVE  \A c \in Call, b \in Branches : Continued(c, b)
  <2>1. Expired(n) \in SUBSET sessions /\ tasks' = TellExpired(tasks, Expired(n))
    BY <1>3 DEF Cleanup, Expired
  <2> QED BY <1>0, <2>1, ReceiversKept DEF Continued
<1>4. ASSUME NEW n \in Node, Crash(n)
      PROVE  \A c \in Call, b \in Branches : Continued(c, b)
  <2>1. \A c \in Call, b \in Branches : tasks'[c][b] = tasks[c][b] \/ tasks'[c][b] = Joined
    BY <1>4 DEF Crash
  <2> QED BY <2>1 DEF Continued, Joined
<1>5. CASE ~Tick
  <2>1. sessions' \subseteq sessions /\ UNCHANGED <<drawn, signed>>
    BY <1>5, OtherSessions
  <2>2. \A c \in Call, b \in Branches : Continued(c, b)
    <3>1. ASSUME tasks' = tasks PROVE \A c \in Call, b \in Branches : Continued(c, b)
      BY <3>1 DEF Continued
    <3> QED BY <1>3, <1>4, <1>5, <3>1 DEF Refuse, IgnoreNonces, IgnorePartials,
         SendFromHandle, Disconnect, Reconnect, vars
  <2> QED BY <1>1, <2>1, <2>2, SpreadNothing
<1> QED BY <1>2, <1>5

(* A session that is completed belongs to an attempt that has sent its      *)
(* nonces: without them no other signer could have contributed.             *)
LEMMA CompletedWaits ==
  ASSUME TypeOK, SessionsInv, NoncesInv, NEW old \in sessions, NEW new \in Session,
         Current(new), Complete(new), new.call # NoCall,
         new.node = old.node, new.h = old.h, new.call = old.call,
         new.nonces[new.node] = old.nonces[old.node],
         \A p \in new.partials : p \in signed \/ p.signer = new.node
  PROVE  tasks[new.call][new.h.branch].phase = "wait"
<1> DEFINE c == new.call
           b == new.h.branch
           n == new.node
           k == old.nonces[old.node]
<1>1. /\ c \in Call /\ b \in Branches /\ n \in Node /\ WaitsOn(tasks[c][b], old)
      /\ k \in Nat \ {0}
  BY SessionFacts DEF SessionsInv, WaitInv, KeyedInv, Session
<1>2. tasks[c][b].phase \in Early \cup {"wait"} /\ tasks[c][b].nonce = k /\ n = Caller[c]
      /\ n \in b
  BY <1>1 DEF WaitsOn
<1>3. CASE tasks[c][b].phase \in Early
  <2>1. Hidden(n, k)
    BY <1>1, <1>2, <1>3 DEF NoncesInv, HiddenInv
  <2>2. PICK m \in b : m # n
    BY <1>1, OtherSigner
  <2>3. PICK p \in new.partials : p.signer = m
    BY <2>2 DEF Complete, Contributed
  <2>4. p.agg = Aggregate(new)
    BY <2>3 DEF Complete, Invalid, Current, VerifySignerPartials
  <2>5. p.agg[n] = k
    BY <1>1, <1>2, <2>4 DEF Aggregate
  <2>6. p \in signed
    BY <2>2, <2>3
  <2> QED BY <2>1, <2>2, <2>3, <2>5, <2>6 DEF Hidden
<1> QED BY <1>2, <1>3

(* complete_session hands its result to the attempt that waits for it. *)
LEMMA CompleteWait ==
  ASSUME TypeOK, SessionsInv, NoncesInv, NEW old \in sessions, NEW new \in Session,
         Current(new), new.node = old.node, new.h = old.h, new.call = old.call,
         new.nonces[new.node] = old.nonces[old.node],
         \A p \in new.partials : p \in signed \/ p.signer = new.node,
         CompleteSession(old, new), calls' = calls
  PROVE  SessionsInv'
<1>0. /\ KeyedInv /\ WaitInv /\ ReturnInv
      /\ tasks \in [Call -> [Branches -> Task]] /\ results \in [Call -> SUBSET Result]
      /\ \A s \in sessions : s.call # NoCall =>
           /\ s.call \in Call /\ s.h.branch \in Branches
           /\ calls[s.call] \in Running /\ WaitsOn(tasks[s.call][s.h.branch], s)
  BY SessionFacts DEF SessionsInv, WaitInv, TypeOK
<1>1. CASE Complete(new) /\ new.call \in Call
  <2> DEFINE c == new.call
             b == new.h.branch
  <2>1. /\ c \in Call /\ b \in Branches /\ c # NoCall
        /\ calls[c] \in Running /\ WaitsOn(tasks[c][b], old)
    BY <1>0, <1>1, CallAssumption
  <2>2. tasks[c][b].phase = "wait"
    BY <1>1, <2>1, CompletedWaits
  <2>3. /\ sessions' = sessions \ {old}
        /\ tasks' = [tasks EXCEPT ![c][b].rx = "ok"]
        /\ results' = [results EXCEPT ![c] = @ \cup {ResultOf(new)}]
    BY <1>1 DEF CompleteSession
  <2>4. /\ \A d \in Call, e \in Branches : ~(d = c /\ e = b) => tasks'[d][e] = tasks[d][e]
        /\ tasks'[c][b].rx = "ok" /\ tasks'[c][b].phase = "wait"
    <3>1. tasks[c][b] \in Task
      BY <1>0, <2>1
    <3> HIDE DEF c, b
    <3> QED BY <1>0, <2>1, <2>2, <2>3, <3>1 DEF Task, Attempt
  <2>5. \A s \in sessions \ {old} : s.call # NoCall => ~(s.call = c /\ s.h.branch = b)
    <3>1. ASSUME NEW s \in sessions \ {old}, s.call # NoCall, s.call = c, s.h.branch = b
          PROVE  FALSE
      <4>1. s.node = old.node /\ s.h.req = old.h.req
        BY <1>0, <2>1, <3>1 DEF WaitsOn
      <4>2. s.h = old.h
        BY <3>1, <4>1, SessionFacts DEF Hash
      <4> QED BY <1>0, <3>1, <4>1, <4>2 DEF KeyedInv
    <3> QED BY <3>1
  <2> HIDE DEF c, b
  <2>6. \A s \in sessions' : s.call # NoCall =>
          calls'[s.call] \in Running /\ WaitsOn(tasks'[s.call][s.h.branch], s)
    BY <1>0, <2>3, <2>4, <2>5
  <2>7. WaitInv'
    BY <2>6 DEF WaitInv, WaitsOn
  <2>8. KeyedInv'
    BY <1>0, <2>3 DEF KeyedInv
  <2>9. ASSUME NEW d \in Call, results'[d] # {}
        PROVE  \/ calls'[d] \in {"ok", "lost"}
               \/ calls'[d] \in Running /\ \E e \in Branches : Holds(tasks'[d][e])
    <3>1. CASE d = c
      BY <2>1, <2>4, <3>1 DEF Holds
    <3>2. CASE d # c
      <4>1. results[d] # {} /\ \A e \in Branches : tasks'[d][e] = tasks[d][e]
        BY <1>0, <2>3, <2>4, <2>9, <3>2
      <4> QED BY <1>0, <4>1 DEF ReturnInv, Holds
    <3> QED BY <3>1, <3>2
  <2>10. ReturnInv'
    BY <2>9 DEF ReturnInv, Holds
  <2> QED BY <2>7, <2>8, <2>10 DEF SessionsInv
<1>2. CASE ~(Complete(new) /\ new.call \in Call)
  <2> DEFINE last == Check(new)
  <2>1. /\ last.node = old.node /\ last.h = old.h /\ last.call = old.call
        /\ last.nonces[last.node] = old.nonces[old.node]
    BY CheckFields
  <2>2. /\ sessions' \subseteq (sessions \ {old}) \cup {last}
        /\ UNCHANGED <<tasks, results>>
    BY <1>2 DEF CompleteSession
  <2> HIDE DEF last
  <2>3. KeyedInv'
    BY <1>0, <2>1, <2>2 DEF KeyedInv
  <2>4. \A s \in sessions' : s.call # NoCall =>
          calls[s.call] \in Running /\ WaitsOn(tasks[s.call][s.h.branch], s)
    <3>1. last.call # NoCall =>
            calls[last.call] \in Running /\ WaitsOn(tasks[last.call][last.h.branch], last)
      BY <1>0, <2>1 DEF WaitsOn
    <3> QED BY <1>0, <2>2, <3>1
  <2>5. WaitInv'
    BY <2>2, <2>4 DEF WaitInv, WaitsOn
  <2>6. ReturnInv'
    BY <1>0, <2>2 DEF ReturnInv, Holds
  <2> QED BY <2>3, <2>5, <2>6 DEF SessionsInv
<1> QED BY <1>1, <1>2

LEMMA AcceptNoncesWait ==
  ASSUME TypeOK, VerifiedInv, ShareInv, SessionsInv, NoncesInv,
         NEW n \in Node, NEW m \in Node, AcceptNonces(n, m)
  PROVE  SessionsInv'
<1> DEFINE k == Head(net[<<m, n>>]).nonce
<1>1. k \in Nat /\ calls' = calls
  BY AcceptNoncesEffect
<1>2. PICK s \in sessions :
        /\ s \in Session /\ Noted(s, m, k) \in Session
        /\ m \in s.h.branch /\ s.nonces[m] = 0
        /\ CompleteSession(s, AfterSigning(Noted(s, m, k)))
  BY AcceptNoncesEffect
<1> HIDE DEF k
<1> DEFINE t == Noted(s, m, k)
           new == AfterSigning(t)
<1>3. /\ t.node = s.node /\ t.h = s.h /\ t.call = s.call /\ t.partials = s.partials
      /\ t.verified = s.verified
      /\ t.nonces = [s.nonces EXCEPT ![m] = k]
  BY <1>1, <1>2, NotedType DEF Noted
<1>4. t \in Session /\ CompleteSession(s, new)
  BY <1>2
<1>5. s.verified = {} /\ s.partials \subseteq signed /\ s.nonces[s.node] # 0
  BY <1>2 DEF VerifiedInv, AllNonces, ShareInv, SessionsInv, KeyedInv
<1> HIDE DEF t
<1>6. /\ new \in Session /\ new.node = s.node /\ new.h = s.h /\ new.call = s.call
      /\ new.verified = {} /\ new.nonces = t.nonces
      /\ new.partials \subseteq s.partials \cup {PartialSign(t)}
  BY <1>3, <1>4, <1>5, AfterSigningType
<1>7. new.nonces[new.node] = s.nonces[s.node]
  <2>1. s.nonces \in [Node -> Nat] /\ s.node # m
    BY <1>2, <1>5 DEF Session
  <2> QED BY <1>3, <1>6, <2>1
<1>8. PartialSign(t).signer = s.node
  BY <1>3 DEF PartialSign
<1> HIDE DEF new
<1>9. Current(new) /\ \A p \in new.partials : p \in signed \/ p.signer = new.node
  BY <1>5, <1>6, <1>8 DEF Current
<1> QED BY <1>1, <1>4, <1>6, <1>7, <1>9, CompleteWait

LEMMA AcceptPartialsWait ==
  ASSUME TypeOK, VerifiedInv, ShareInv, SessionsInv, NoncesInv,
         NEW n \in Node, NEW m \in Node, AcceptPartialSignatures(n, m)
  PROVE  SessionsInv'
<1> DEFINE p == Head(net[<<m, n>>]).partial
<1>1. net[<<m, n>>] # <<>> /\ calls' = calls /\ Head(net[<<m, n>>]).kind = "partials"
  BY AcceptPartialsEffect
<1>2. PICK s \in sessions :
        LET t == NotePartial(s, m, p) IN
        /\ s \in Session /\ t \in Session
        /\ AllNonces(s) => VerifySignerPartials(s, p)
        /\ ~Contributed(s, m)
        /\ t.node = s.node /\ t.h = s.h /\ t.hashes = s.hashes
        /\ t.nonces = s.nonces /\ t.call = s.call
        /\ t.partials = s.partials \cup {p}
        /\ t.verified = IF AllNonces(s) THEN s.verified \cup {m} ELSE s.verified
        /\ CompleteSession(s, t)
  BY AcceptPartialsEffect
<1>3. p \in signed
  BY <1>1, ConsumedOn DEF ShareInv, Said
<1> HIDE DEF p
<1> DEFINE t == NotePartial(s, m, p)
<1>4. /\ AllNonces(s) <=> AllNonces(t)
      /\ \A q : VerifySignerPartials(s, q) <=> VerifySignerPartials(t, q)
  BY <1>2, SameVerification
<1>5. Current(s) /\ s.partials \subseteq signed
  BY DEF VerifiedInv, VerifiedIsCurrent, Current, ShareInv
<1> HIDE DEF t
<1>6. Current(t) /\ t.partials \subseteq signed
  BY <1>2, <1>3, <1>4, <1>5 DEF Current, Contributed, t
<1>7. /\ t \in Session /\ t.node = s.node /\ t.h = s.h /\ t.call = s.call
      /\ t.nonces = s.nonces /\ CompleteSession(s, t)
  BY <1>2 DEF t
<1> QED BY <1>1, <1>6, <1>7, CompleteWait

(* The invariant of sessions, attempts and nonces. *)
LEMMA SessionsInvariance == Spec => [](SessionsInv /\ NoncesInv)
<1> DEFINE I == SessionsInv /\ NoncesInv
<1>1. Init => I
  <2> SUFFICES ASSUME Init PROVE I
    OBVIOUS
  <2>1. \A m \in Node, k \in Nat : ~Told(m, k)
    BY NothingSaid DEF Told
  <2>2. /\ sessions = {} /\ signed = {} /\ \A c \in Call : results[c] = {}
        /\ \A c \in Call, b \in Branches : tasks[c][b].nonce = 0
        /\ \A n \in Node : drawn[n] = 0
    BY DEF Init, Started
  <2>3. FreshInv
    BY <2>1, <2>2, CallAssumption DEF FreshInv
  <2>4. HiddenInv
    BY <2>2 DEF HiddenInv
  <2> QED BY <2>2, <2>3, <2>4 DEF SessionsInv, KeyedInv, WaitInv, ReturnInv, NoncesInv
<1>2. TypeOK /\ TypeOK' /\ VerifiedInv /\ ShareInv /\ I /\ [Next]_vars => I'
  <2> SUFFICES ASSUME TypeOK, TypeOK', VerifiedInv, ShareInv, SessionsInv, NoncesInv,
                      [Next]_vars
               PROVE  SessionsInv' /\ NoncesInv'
    OBVIOUS
  <2>1. ASSUME NEW c \in Call, CallStep(c) PROVE SessionsInv' /\ NoncesSpread
    BY <2>1, CallStepWait, LaunchWait, CallStepSpread
  <2>2. ASSUME NEW n \in Node, NEW m \in Node,
               HandleRequest(n, m) \/ AcceptNonces(n, m) \/ AcceptPartialSignatures(n, m)
        PROVE  SessionsInv' /\ NoncesSpread
    BY <2>2, HandleRequestWait, AcceptNoncesWait, AcceptPartialsWait,
       HandleRequestSpread, AcceptNoncesSpread, AcceptPartialsSpread
  <2>3. ASSUME \/ \E n, m \in Node : Refuse(n, m) \/ IgnoreNonces(n, m) \/ IgnorePartials(n, m)
               \/ \E o \in sending : SendFromHandle(o)
               \/ \E n \in Node : Cleanup(n) \/ Crash(n)
               \/ Tick
               \/ \E m, n \in Node : Disconnect(m, n) \/ Reconnect(m, n)
               \/ UNCHANGED vars
        PROVE  SessionsInv' /\ NoncesSpread
    <3>1. \/ \E n \in Node : Cleanup(n) \/ Crash(n)
          \/ Tick
          \/ UNCHANGED <<sessions, calls, tasks, results>>
      BY <2>3 DEF Refuse, IgnoreNonces, IgnorePartials, SendFromHandle, Disconnect,
         Reconnect, vars
    <3> QED BY <2>3, <3>1, EnvironmentWait, EnvironmentSpread
  <2>4. SessionsInv' /\ NoncesSpread
    BY <2>1, <2>2, <2>3 DEF Next, Handle
  <2> QED BY <2>4, SpreadKeeps
<1> HIDE DEF I
<1>3. Spec => []I
  BY <1>1, <1>2, TypeCorrect, VerifiedInvariance, SharesInvariance, PTL DEF Spec
<1> QED BY <1>3 DEF I

(* No session outlives the call that waits on it: when sign_per_branch     *)
(* returns, or its node restarts, every session that it opened is gone.    *)
THEOREM SessionsEnd == Spec => []NoOrphanSessions
<1>1. SessionsInv /\ NoncesInv => NoOrphanSessions
  BY DEF SessionsInv, WaitInv, NoOrphanSessions
<1> QED BY <1>1, SessionsInvariance, PTL

(* A call that fails has thrown no signature away: a result only reaches   *)
(* an attempt that has sent its nonces and waits, where neither a deadline *)
(* nor another attempt nor another call of the same hash can discard it    *)
(* (sign_per_branch, attempt_execution).                                   *)
THEOREM ResultsReturn == Spec => []DeliveredIsReturned
<1>1. SessionsInv /\ NoncesInv => DeliveredIsReturned
  <2> SUFFICES ASSUME ReturnInv, NEW c \in Call, calls[c] = "failed" PROVE results[c] = {}
    BY DEF SessionsInv, DeliveredIsReturned
  <2> QED BY DEF ReturnInv, Running
<1> QED BY <1>1, SessionsInvariance, PTL

=============================================================================
