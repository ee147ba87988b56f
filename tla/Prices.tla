------------------------------- MODULE Prices -------------------------------
(***************************************************************************)
(* Prices and their attestations (price-feed/, high_storm/prices.rs,       *)
(* db/price_attestation.rs, sources/): a node polls the source of each     *)
(* direct feed, drops a source that keeps failing, prices a cross pair     *)
(* from its legs, and signs every new value for the other members, who     *)
(* keep the newest of each node.  What is sent may be lost or reordered, a *)
(* peer may be out of reach, a node may stop at any point, and the clocks  *)
(* of two nodes differ.                                                    *)
(*                                                                         *)
(* A feed has one source, as in sources/mod.rs, so that the median of its  *)
(* observations is the observation; no operation freezes a source.  The    *)
(* registry is two direct feeds and the cross pair they price.             *)
(***************************************************************************)
EXTENDS Naturals, FiniteSets

CONSTANTS
  Node,
  Attester,      \* the nodes that have price sources
  Price,         \* what a source can publish
  Skew,          \* Skew[n]: how far the clock of n runs ahead
  Window,        \* VALIDITY_WINDOW and SOURCE_DATA_VALIDITY_DURATION
  MaxSkew,       \* MAX_CLOCK_SKEW
  MaxErrors,     \* MAX_POLLING_ERROR_NUM
  Retry,         \* POLLING_RETRY_TIME
  MaxNow,        \* bound: seconds
  MaxPolls,      \* bound: successful polls
  MaxEvents,     \* bound: failed polls, failed sends, lost messages, stops
  None

ASSUME NodeAssumption == Attester \subseteq Node
ASSUME BoundAssumption ==
  {Window, MaxSkew, MaxErrors, Retry, MaxNow, MaxPolls, MaxEvents} \subseteq Nat
(* Honest clocks differ by what is tolerated; a price of zero is refused.  *)
ASSUME ClockAssumption ==
  Skew \in [Node -> Nat] /\ \A n, m \in Node : Skew[n] <= Skew[m] + MaxSkew
ASSUME PriceAssumption == Price \subseteq Nat \ {0}

VARIABLES
  now,
  source,    \* source[n][d]: the record n keeps of the source of d
  notified,  \* the nodes with an observation that they have not attested
  batch,     \* batch[n]: what n has sent and not stored
  net,       \* the messages on their way
  held,      \* held[n][a][f]: the attestation of a for f that n stores
  last,      \* history, last[a][f]: the attestation a signed last
  missed,    \* history: <<a, n, f>> when n may not have what a signed last
  polls,
  events

vars == <<now, source, notified, batch, net, held, last, missed, polls, events>>

Direct == {"LBTC/USD", "USDT/USD"}
Cross == "LBTC/USDT"
Feed == Direct \cup {Cross}
Scale == 10
Peers(n) == Node \ {n}
Clock(n) == now + Skew[n]
Happens == events < MaxEvents /\ events' = events + 1

Observation == [price : Price, observed_at : Nat, received_at : Nat]
Value == [price : Nat, received_at : Nat, valid_until : Nat]
SourceRecord == [state : {"active", "dropped"}, failures : 0 .. MaxErrors,
                 observation : Observation \cup {None}, retry_at : Nat]
ASSUME NoneAssumption == None \notin Observation \cup Value

NoSource == [state |-> "active", failures |-> 0, observation |-> None, retry_at |-> 0]

(***************************************************************************)
(* The value of a feed.                                                    *)
(***************************************************************************)
ValidUntil(o) == o.received_at + Window

(* The median of the one observation that has not expired.                 *)
DirectValue(n, d) ==
  LET s == source[n][d]
  IN  IF s.state = "active" /\ s.observation # None /\ ValidUntil(s.observation) >= Clock(n)
      THEN [price |-> s.observation.price, received_at |-> s.observation.received_at,
            valid_until |-> ValidUntil(s.observation)]
      ELSE None

(* p / q to the nearest whole number, a half to the even one.              *)
Rounded(p, q) ==
  CASE 2 * (p % q) < q -> p \div q
    [] 2 * (p % q) > q -> (p \div q) + 1
    [] OTHER -> (p \div q) + ((p \div q) % 2)

(* As new as the newest leg, valid as long as the oldest.                  *)
CrossValue(base, quoted) ==
  LET price == Rounded(base.price * Scale, quoted.price)
  IN  IF price = 0 THEN None
      ELSE [price |-> price,
            received_at |-> IF base.received_at > quoted.received_at
                            THEN base.received_at ELSE quoted.received_at,
            valid_until |-> IF base.valid_until < quoted.valid_until
                            THEN base.valid_until ELSE quoted.valid_until]

ValueOf(n, f) ==
  LET leg(d) == DirectValue(n, d)
  IN  IF f # Cross THEN leg(f)
      ELSE IF None \in {leg(d) : d \in Direct} THEN None
      ELSE CrossValue(leg("LBTC/USD"), leg("USDT/USD"))

(***************************************************************************)
(* Polling.                                                                *)
(***************************************************************************)
Pollable(n, d) == source[n][d].state = "active" \/ Clock(n) >= source[n][d].retry_at

Success(s, o) == [NoSource EXCEPT !.observation = o]

Failure(s, at) ==
  LET failures == IF s.failures < MaxErrors THEN s.failures + 1 ELSE MaxErrors
  IN  IF failures < MaxErrors THEN [s EXCEPT !.failures = failures]
      ELSE [state |-> "dropped", failures |-> failures, observation |-> None,
            retry_at |-> at + Retry]

(* PriceSource::validate, of an answer that arrives at the time received.  *)
Usable(o) ==
  /\ o.received_at <= o.observed_at + Window
  /\ o.observed_at <= o.received_at + MaxSkew

NothingNew(s, o) == s.observation # None /\ o.observed_at <= s.observation.observed_at

(* Each source is polled by one task, so that nobody else writes a record  *)
(* between the look at it and the answer: both are one step.  A source     *)
(* answers with the true time, or fails.                                   *)
Answer(n, p) == [price |-> p, observed_at |-> now, received_at |-> Clock(n)]

Poll(n, d) ==
  /\ Pollable(n, d)
  /\ polls < MaxPolls /\ polls' = polls + 1
  /\ \E p \in Price :
       /\ Usable(Answer(n, p)) /\ ~NothingNew(source[n][d], Answer(n, p))
       /\ source' = [source EXCEPT ![n][d] = Success(@, Answer(n, p))]
  /\ notified' = notified \cup {n}
  /\ UNCHANGED <<now, batch, net, held, last, missed, events>>

(* The source does not answer, or with something that cannot be used.      *)
PollFails(n, d) ==
  /\ Pollable(n, d) /\ Happens
  /\ source' = [source EXCEPT ![n][d] = Failure(@, Clock(n))]
  /\ UNCHANGED <<now, notified, batch, net, held, last, missed, polls>>

(***************************************************************************)
(* Attesting.                                                              *)
(***************************************************************************)
SameValue(v, w) == w # None /\ [v EXCEPT !.received_at = w.received_at] = w

(* Variant for sensitivity checking: only what was received later is attested. *)
ToAttestLater(n, f) ==
  LET v == ValueOf(n, f)  l == held[n][n][f]
  IN  IF v = None \/ (l # None /\ v.received_at <= l.received_at) THEN {} ELSE {v}

(* Variant for sensitivity checking: the stamp stays that of the observation. *)
ToAttestUnbumped(n, f) ==
  LET v == ValueOf(n, f)  l == held[n][n][f]
  IN  IF v = None \/ (l # None /\ v.received_at <= l.received_at /\ SameValue(v, l)) THEN {}
      ELSE {v}

(* What is new about a feed; a value that changed within the second it was *)
(* last attested in is stamped a second later.                             *)
ToAttest(n, f) ==
  LET v == ValueOf(n, f)  l == held[n][n][f]
  IN  IF v = None THEN {}
      ELSE IF l = None \/ v.received_at > l.received_at THEN {v}
      ELSE IF SameValue(v, l) THEN {}
      ELSE {[v EXCEPT !.received_at = l.received_at + 1]}

Attestations(n) == UNION {{[feed |-> f, value |-> v] : v \in ToAttest(n, f)} : f \in Feed}

Newer(v, w) == w = None \/ v.received_at > w.received_at

(* Everything is sent to the peers in reach; with one out of reach the     *)
(* round ends with an error.                                               *)
Attest(n) ==
  /\ n \in notified /\ batch[n] = {}
  /\ notified' = notified \ {n}
  /\ LET signed == Attestations(n)
         renewed == {a.feed : a \in {b \in signed : Newer(b.value, last[n][b.feed])}}
     IN  \E reached \in SUBSET Peers(n) :
           /\ net' = net \cup {[from |-> n, to |-> p, list |-> signed, at |-> Clock(n)] :
                                p \in {q \in reached : signed # {}}}
           /\ last' = [last EXCEPT ![n] = [f \in Feed |->
                         IF \E a \in signed : a.feed = f
                         THEN (CHOOSE a \in signed : a.feed = f).value ELSE last[n][f]]]
           /\ \/ /\ reached = Peers(n)
                 /\ batch' = [batch EXCEPT ![n] = signed]
                 /\ missed' = {x \in missed : ~(x[1] = n /\ x[3] \in renewed)}
                 /\ UNCHANGED events
              \/ /\ reached # Peers(n) /\ signed # {} /\ Happens
                 /\ missed' = missed \cup {<<n, m, a.feed>> : m \in Node, a \in signed}
                 /\ UNCHANGED batch
  /\ UNCHANGED <<now, source, held, polls>>

(* store_latest: what is not strictly newer is not stored.                 *)
Latest(stored, list) ==
  [f \in Feed |-> LET newer == {a \in list : a.feed = f /\ Newer(a.value, stored[f])}
                  IN  IF newer = {} THEN stored[f] ELSE (CHOOSE a \in newer : TRUE).value]

(* The attestations of a round, one per feed, have one order everywhere.   *)
First(list) == CHOOSE a \in list : TRUE

(* One attestation after the other.                                        *)
Store(n) ==
  /\ batch[n] # {}
  /\ held' = [held EXCEPT ![n][n] = Latest(@, {First(batch[n])})]
  /\ batch' = [batch EXCEPT ![n] = @ \ {First(@)}]
  /\ UNCHANGED <<now, source, notified, net, last, missed, polls, events>>

(***************************************************************************)
(* A peer.                                                                 *)
(***************************************************************************)
StampedAhead(v, at) == v.received_at > at + MaxSkew
Stretched(v) == v.valid_until > v.received_at + Window

(* Every attestation of a message must pass.                               *)
Passes(list, at) == \A a \in list : ~StampedAhead(a.value, at) /\ ~Stretched(a.value)

(* History: the stamp of a changed value ran ahead of the clock it was     *)
(* signed by.                                                              *)
RanAhead(msg) == \E a \in msg.list : a.value.received_at > msg.at

(* What is left to store; what has passed the check passes it later, too.  *)
Rest(msg) == LET rest == msg.list \ {First(msg.list)}
             IN  IF rest = {} THEN {} ELSE {[msg EXCEPT !.list = rest]}

(* All are checked, then stored one after the other.                       *)
HandleAttestation(msg) ==
  /\ \/ /\ Passes(msg.list, Clock(msg.to))
        /\ held' = [held EXCEPT ![msg.to][msg.from] = Latest(@, {First(msg.list)})]
        /\ net' = (net \ {msg}) \cup Rest(msg)
        /\ UNCHANGED missed
     \/ /\ ~Passes(msg.list, Clock(msg.to))
        /\ missed' = IF RanAhead(msg)
                     THEN missed \cup {<<msg.from, msg.to, a.feed>> : a \in msg.list} ELSE missed
        /\ net' = net \ {msg}
        /\ UNCHANGED held
  /\ UNCHANGED <<now, source, notified, batch, last, polls, events>>

(* The message does not arrive, or the receiver stops before it has stored *)
(* the rest of it.                                                         *)
Lose(msg) ==
  /\ Happens
  /\ net' = net \ {msg}
  /\ missed' = missed \cup {<<msg.from, msg.to, a.feed>> : a \in msg.list}
  /\ UNCHANGED <<now, source, notified, batch, held, last, polls>>

(* rate_for: what the node serves as its own.                              *)
Rate(n, f) ==
  LET v == held[n][n][f]
  IN  IF v = None \/ Clock(n) > v.valid_until \/ StampedAhead(v, Clock(n)) \/ Stretched(v)
      THEN None ELSE v

(***************************************************************************)
(* The world.                                                              *)
(***************************************************************************)
Tick ==
  /\ now < MaxNow
  /\ now' = now + 1
  /\ UNCHANGED <<source, notified, batch, net, held, last, missed, polls, events>>

(* What was observed is in memory only.                                    *)
Crash(n) ==
  /\ Happens
  /\ source' = [source EXCEPT ![n] = [d \in Direct |-> NoSource]]
  /\ notified' = notified \ {n}
  /\ batch' = [batch EXCEPT ![n] = {}]
  /\ missed' = missed \cup {<<n, m, a.feed>> : m \in Node, a \in batch[n]}
  /\ UNCHANGED <<now, net, held, last, polls>>

NoneOf == [f \in Feed |-> None]

Init ==
  /\ now = 0
  /\ source = [n \in Attester |-> [d \in Direct |-> NoSource]]
  /\ notified = {} /\ batch = [n \in Attester |-> {}] /\ net = {}
  /\ held = [n \in Node |-> [a \in Attester |-> NoneOf]]
  /\ last = [a \in Attester |-> NoneOf] /\ missed = {} /\ polls = 0 /\ events = 0

Next ==
  \/ Tick
  \/ \E n \in Attester, d \in Direct : Poll(n, d) \/ PollFails(n, d)
  \/ \E n \in Attester : Attest(n) \/ Store(n) \/ Crash(n)
  \/ \E msg \in net : HandleAttestation(msg) \/ Lose(msg)

Spec == Init /\ [][Next]_vars

Fairness ==
  /\ \A n \in Attester : WF_vars(Attest(n)) /\ WF_vars(Store(n))
                         /\ \A d \in Direct : WF_vars(Poll(n, d))
  /\ WF_vars(\E msg \in net : HandleAttestation(msg))

FairSpec == Spec /\ Fairness

(***************************************************************************)
(* What has to hold.                                                       *)
(***************************************************************************)

(* Every variable keeps its type; a dropped source keeps no observation,   *)
(* so that nothing of it is ever attested.                                 *)
TypeOK ==
  /\ now \in 0 .. MaxNow /\ events \in 0 .. MaxEvents /\ polls \in 0 .. MaxPolls
  /\ \A n \in Attester : \A d \in Direct :
       /\ source[n][d] \in SourceRecord
       /\ source[n][d].state = "dropped" => source[n][d].observation = None
  /\ \A n \in Node, a \in Attester, f \in Feed : held[n][a][f] \in Value \cup {None}
  /\ \A msg \in net : msg.to # msg.from /\ msg.list # {}
  /\ missed \subseteq Attester \X Node \X Feed

(* Once everything sent has arrived, every member and the node itself hold *)
(* what the node signed last, in whatever order it arrived: a stamp is     *)
(* never used for two values, and an honest one is never refused.          *)
(* Excepted is what was missed, until a round with a later stamp reaches   *)
(* everybody: a message that was lost; one that was refused because its    *)
(* stamp ran ahead of the clock; and the whole round, for all members,     *)
(* when a peer was out of reach or the node stopped before it had stored   *)
(* what it sent (attest, handle_attestation, store_latest).                *)
PeersFollow ==
  /\ TypeOK
  /\ \A a \in Attester, n \in Node, f \in Feed :
       \/ batch[a] # {} \/ <<a, n, f>> \in missed
       \/ \E msg \in net : msg.from = a /\ msg.to = n
       \/ held[n][a][f] = last[a][f]

(* A feed that has a value comes to be served at that value, unless its    *)
(* last round was cut short: a change is not overlooked because it came in *)
(* the second of the last attestation, nor because it came meanwhile.      *)
Served(n, f) ==
  IF ValueOf(n, f) = None \/ <<n, n, f>> \in missed \/ last[n][f] = None
  THEN ValueOf(n, f) = None \/ <<n, n, f>> \in missed
  ELSE IF StampedAhead(last[n][f], Clock(n)) THEN TRUE
  ELSE SameValue(ValueOf(n, f), Rate(n, f))

AvailableIsServed == \A n \in Attester, f \in Feed : <>[]Served(n, f)
=============================================================================
