--------------------------- MODULE NetworkProofs ---------------------------
(***************************************************************************)
(* Theorems about what the nodes of a network share: its assets and the    *)
(* prices they attest, for every set of nodes and prices, and every number *)
(* of restarts, reorganisations and lost messages.                         *)
(***************************************************************************)
EXTENDS Prices, Assets, SequenceTheorems, FiniteSetTheorems, WellFoundedInduction, TLAPS

(***************************************************************************)
(* The inductive invariant.                                                *)
(***************************************************************************)
Entry == [feed : Feed, value : Value]
Message == [from : Attester, to : Node, list : SUBSET Entry, at : Nat]

(* A node signs one value of a feed at a time. *)
OneEach(list) == \A a, b \in list : a.feed = b.feed => a = b

Types ==
  /\ now \in 0 .. MaxNow /\ events \in 0 .. MaxEvents /\ polls \in 0 .. MaxPolls
  /\ notified \subseteq Attester
  /\ missed \subseteq Attester \X Node \X Feed
  /\ source \in [Attester -> [Direct -> SourceRecord]]
  /\ held \in [Node -> [Attester -> [Feed -> Value \cup {None}]]]
  /\ last \in [Attester -> [Feed -> Value \cup {None}]]
  /\ batch \in [Attester -> SUBSET Entry]
  /\ net \subseteq Message

(* What a source said came before now, and is gone when it is dropped. *)
SourceInv ==
  \A n \in Attester : \A d \in Direct :
    /\ source[n][d].state = "dropped" => source[n][d].observation = None
    /\ source[n][d].observation # None => source[n][d].observation.received_at <= Clock(n)

(* What is on its way can be taken by its receiver. *)
NetInv ==
  \A msg \in net : /\ msg.to # msg.from /\ msg.list # {} /\ OneEach(msg.list)
                   /\ msg.at <= now + Skew[msg.from]
                   /\ \A e \in msg.list : ~Stretched(e.value)

(* What a signed for f is as old as what it signed last, and the same when *)
(* both have one stamp, unless a itself may have missed the last.          *)
Signed(w, a, f) ==
  LET l == last[a][f] IN
  /\ l # None /\ w.received_at <= l.received_at
  /\ (<<a, a, f>> \notin missed /\ w.received_at = l.received_at) => w = l

SignedInv ==
  /\ \A msg \in net : \A e \in msg.list : Signed(e.value, msg.from, e.feed)
  /\ \A n \in Node, a \in Attester, f \in Feed : held[n][a][f] # None => Signed(held[n][a][f], a, f)

BatchInv ==
  \A a \in Attester : OneEach(batch[a]) /\ \A e \in batch[a] : e.value = last[a][e.feed]

(* When a may have missed what it signed, others may, too. *)
MissedInv ==
  \A a \in Attester, f \in Feed :
    <<a, a, f>> \in missed => \A n \in Node : <<a, n, f>> \in missed

(* What a signed last is stored, or on its way, unless it may be lost. *)
OnItsWay(a, n, f) ==
  \/ <<a, n, f>> \in missed
  \/ held[n][a][f] = last[a][f]
  \/ \E msg \in net : /\ msg.from = a /\ msg.to = n
                      /\ \E e \in msg.list : e.feed = f /\ e.value = last[a][f]
  \/ n = a /\ \E e \in batch[a] : e.feed = f

FollowInv == \A a \in Attester, n \in Node, f \in Feed : OnItsWay(a, n, f)

(* The next stamp is not below the last one: the sources have nothing      *)
(* older, or the stamp followed the one that is stored.                    *)
Legs(f) == IF f = Cross THEN Direct ELSE {f}

Reached(n, f, t) ==
  /\ t <= Clock(n)
  /\ \E d \in Legs(f) : \/ source[n][d].observation = None
                        \/ source[n][d].observation.received_at >= t

Stamped(a, f, t) ==
  \/ Reached(a, f, t)
  \/ held[a][a][f] # None /\ t <= held[a][a][f].received_at + 1

StampInv ==
  \A a \in Attester, f \in Feed : last[a][f] # None => Stamped(a, f, last[a][f].received_at)

Inv == Types /\ SourceInv /\ NetInv /\ SignedInv /\ BatchInv /\ MissedInv /\ FollowInv /\ StampInv

-----------------------------------------------------------------------------
(***************************************************************************)
(* Values and stamps.                                                      *)
(***************************************************************************)
LEMMA Bounds ==
  /\ Window \in Nat /\ MaxSkew \in Nat /\ MaxErrors \in Nat /\ Retry \in Nat
  /\ MaxNow \in Nat /\ MaxPolls \in Nat /\ MaxEvents \in Nat
  BY BoundAssumption

LEMMA ClockIs ==
  ASSUME now \in Nat, NEW n \in Attester
  PROVE  n \in Node /\ Skew[n] \in Nat /\ Clock(n) \in Nat /\ Clock(n) = now + Skew[n]
  BY NodeAssumption, ClockAssumption DEF Clock

LEMMA Feeds ==
  /\ Direct = {"LBTC/USD", "USDT/USD"} /\ Cross \in Feed /\ Direct \subseteq Feed
  /\ \A f \in Feed : Legs(f) \subseteq Direct /\ (f # Cross => f \in Direct /\ Legs(f) = {f})
  /\ Legs(Cross) = Direct
  BY DEF Direct, Cross, Feed, Legs

(* A rounded quotient is a number. *)
LEMMA RoundedIs ==
  ASSUME NEW p \in Nat, NEW q \in Nat \ {0}
  PROVE  Rounded(p, q) \in Nat
<1>1. p \div q \in Nat /\ p % q \in Nat
  OBVIOUS
<1>2. (p \div q) % 2 \in Nat
  BY <1>1
<1> QED BY <1>1, <1>2 DEF Rounded

(* What the source of a direct feed says. *)
LEMMA DirectIs ==
  ASSUME Types, SourceInv, NEW n \in Attester, NEW d \in Direct, DirectValue(n, d) # None
  PROVE  LET v == DirectValue(n, d)
             o == source[n][d].observation IN
         /\ v \in Value /\ v.price \in Nat \ {0}
         /\ o # None /\ v.received_at = o.received_at /\ o.received_at <= Clock(n)
         /\ v.valid_until = v.received_at + Window
<1> DEFINE o == source[n][d].observation
           v == DirectValue(n, d)
<1>1. o \in Observation \cup {None}
  BY DEF Types, SourceRecord
<1>2. o # None /\ v = [price |-> o.price, received_at |-> o.received_at, valid_until |-> ValidUntil(o)]
  BY DEF DirectValue
<1>3. o \in Observation
  BY <1>1, <1>2
<1>4. o.received_at <= Clock(n)
  BY <1>2 DEF SourceInv
<1> HIDE DEF o, v
<1>5. o.price \in Nat \ {0} /\ o.received_at \in Nat /\ ValidUntil(o) = o.received_at + Window
  BY <1>3, PriceAssumption DEF Observation, ValidUntil
<1>6. v \in Value /\ v.price \in Nat \ {0} /\ v.received_at = o.received_at
      /\ v.valid_until = v.received_at + Window
  BY <1>2, <1>5, Bounds DEF Value
<1> QED BY <1>2, <1>4, <1>6 DEF o, v

(* What a node takes a feed for. *)
ValueGood(v, n, f) ==
  /\ v \in Value /\ v.received_at <= Clock(n) /\ ~Stretched(v)
  /\ \A d \in Legs(f) : /\ source[n][d].observation # None
                        /\ source[n][d].observation.received_at <= v.received_at
  /\ \E d \in Legs(f) : source[n][d].observation.received_at = v.received_at

LEMMA ValueIs ==
  ASSUME Types, SourceInv, NEW n \in Attester, NEW f \in Feed, ValueOf(n, f) # None
  PROVE  ValueGood(ValueOf(n, f), n, f)
<1>0. now \in Nat
  BY Bounds DEF Types
<1>1. CASE f # Cross
  <2>1. f \in Direct /\ Legs(f) = {f} /\ ValueOf(n, f) = DirectValue(n, f)
    BY <1>1, Feeds DEF ValueOf
  <2> DEFINE v == DirectValue(n, f)
  <2>2. /\ v \in Value /\ source[n][f].observation # None
        /\ v.received_at = source[n][f].observation.received_at
        /\ v.received_at <= Clock(n) /\ v.valid_until = v.received_at + Window
    BY <2>1, DirectIs
  <2> HIDE DEF v
  <2>3. v.received_at \in Nat
    BY <2>2 DEF Value
  <2>4. ~Stretched(v)
    BY <2>2, <2>3, Bounds DEF Stretched
  <2>5. ValueOf(n, f) = v
    BY <2>1 DEF v
  <2> QED BY <2>1, <2>2, <2>3, <2>4, <2>5 DEF ValueGood
<1>2. CASE f = Cross
  <2> DEFINE b == DirectValue(n, "LBTC/USD")
             q == DirectValue(n, "USDT/USD")
  <2>1. b # None /\ q # None /\ ValueOf(n, f) = CrossValue(b, q)
    BY <1>2, Feeds DEF ValueOf
  <2>2. /\ b \in Value /\ b.price \in Nat \ {0}
        /\ source[n]["LBTC/USD"].observation # None
        /\ b.received_at = source[n]["LBTC/USD"].observation.received_at
        /\ b.received_at <= Clock(n) /\ b.valid_until = b.received_at + Window
    BY <2>1, Feeds, DirectIs
  <2>3. /\ q \in Value /\ q.price \in Nat \ {0}
        /\ source[n]["USDT/USD"].observation # None
        /\ q.received_at = source[n]["USDT/USD"].observation.received_at
        /\ q.received_at <= Clock(n) /\ q.valid_until = q.received_at + Window
    BY <2>1, Feeds, DirectIs
  <2> HIDE DEF b, q
  <2> DEFINE price == Rounded(b.price * Scale, q.price)
             at == IF b.received_at > q.received_at THEN b.received_at ELSE q.received_at
             until == IF b.valid_until < q.valid_until THEN b.valid_until ELSE q.valid_until
             v == [price |-> price, received_at |-> at, valid_until |-> until]
  <2>4. CrossValue(b, q) = v
    BY <2>1, Zenon DEF CrossValue
  <2>5. price \in Nat
    <3>1. b.price * Scale \in Nat
      BY <2>2 DEF Scale
    <3> QED BY <2>3, <3>1, RoundedIs
  <2>6. b.received_at \in Nat /\ q.received_at \in Nat /\ Clock(n) \in Nat
    BY <1>0, <2>2, <2>3, ClockIs DEF Value
  <2>7. /\ at \in Nat /\ until \in Nat /\ at <= Clock(n) /\ until <= at + Window
        /\ b.received_at <= at /\ q.received_at <= at
        /\ at = b.received_at \/ at = q.received_at
    BY <2>2, <2>3, <2>6, Bounds
  <2> HIDE DEF price, at, until
  <2>8. v \in Value /\ v.received_at = at /\ v.valid_until = until
    BY <2>5, <2>7 DEF Value
  <2> HIDE DEF v
  <2>9. ~Stretched(v)
    BY <2>7, <2>8, Bounds DEF Stretched
  <2>10. Legs(f) = {"LBTC/USD", "USDT/USD"}
    BY <1>2, Feeds
  <2>11. ValueGood(v, n, f)
    BY <2>2, <2>3, <2>7, <2>8, <2>9, <2>10 DEF ValueGood
  <2> QED BY <2>1, <2>4, <2>11
<1> QED BY <1>1, <1>2

(* What a node signs: a value that can be taken, with a stamp above the    *)
(* one it stores and not below the one it signed last.                     *)
SignGood(v, n, f) ==
  /\ v \in Value /\ ~Stretched(v)
  /\ held[n][n][f] # None => v.received_at > held[n][n][f].received_at
  /\ last[n][f] # None => v.received_at >= last[n][f].received_at
  /\ Stamped(n, f, v.received_at)

LEMMA ToAttestIs ==
  ASSUME Inv, NEW n \in Attester, NEW f \in Feed
  PROVE  /\ \A v \in ToAttest(n, f) : SignGood(v, n, f)
         /\ \A v, w \in ToAttest(n, f) : v = w
<1> DEFINE x == ValueOf(n, f)
           l == held[n][n][f]
           t == last[n][f]
           bump == [x EXCEPT !.received_at = l.received_at + 1]
<1>0. now \in Nat
  BY Bounds DEF Inv, Types
<1>1. ToAttest(n, f) = IF x = None THEN {}
                       ELSE IF l = None \/ x.received_at > l.received_at THEN {x}
                       ELSE IF SameValue(x, l) THEN {} ELSE {bump}
  BY Zenon DEF ToAttest
<1>2. n \in Node /\ Clock(n) \in Nat
  BY <1>0, ClockIs
<1>3. l \in Value \cup {None} /\ t \in Value \cup {None}
  BY <1>2 DEF Inv, Types
<1>4. t # None => Stamped(n, f, t.received_at)
  BY DEF Inv, StampInv
<1>5. x # None => ValueGood(x, n, f)
  BY ValueIs DEF Inv
<1>6. ASSUME x # None PROVE
        /\ x \in Value /\ x.received_at \in Nat
        /\ t # None => x.received_at >= t.received_at \/ (l # None /\ t.received_at <= l.received_at + 1)
  <2>1. x \in Value /\ x.received_at \in Nat
    BY <1>5, <1>6 DEF ValueGood, Value
  <2>2. CASE t # None /\ Reached(n, f, t.received_at)
    <3>1. PICK d \in Legs(f) : \/ source[n][d].observation = None
                               \/ source[n][d].observation.received_at >= t.received_at
      BY <2>2 DEF Reached
    <3>2. source[n][d].observation # None /\ source[n][d].observation.received_at <= x.received_at
      BY <1>5, <1>6 DEF ValueGood
    <3>3. source[n][d].observation.received_at \in Nat
      <4>1. d \in Direct
        BY Feeds
      <4>2. source[n][d].observation \in Observation
        BY <3>2, <4>1 DEF Inv, Types, SourceRecord
      <4> QED BY <4>2 DEF Observation
    <3>4. t.received_at \in Nat
      BY <1>3, <2>2 DEF Value
    <3> QED BY <2>1, <3>1, <3>2, <3>3, <3>4
  <2> QED BY <1>4, <2>1, <2>2 DEF Stamped
<1> HIDE DEF x
<1>7. ASSUME x # None, l = None \/ x.received_at > l.received_at PROVE SignGood(x, n, f)
  <2>1. x \in Value /\ ~Stretched(x) /\ x.received_at <= Clock(n)
        /\ \E d \in Legs(f) : source[n][d].observation.received_at = x.received_at
    BY <1>5, <1>7 DEF ValueGood
  <2>2. x.received_at \in Nat
    BY <2>1 DEF Value
  <2>3. Stamped(n, f, x.received_at)
    BY <2>1, <2>2 DEF Stamped, Reached
  <2>4. (l # None => l.received_at \in Nat) /\ (t # None => t.received_at \in Nat)
    BY <1>3 DEF Value
  <2>5. t # None => x.received_at >= t.received_at
    BY <1>6, <1>7, <2>2, <2>4
  <2> QED BY <1>7, <2>1, <2>3, <2>5 DEF SignGood
<1>8. ASSUME x # None, l # None, ~(x.received_at > l.received_at) PROVE SignGood(bump, n, f)
  <2> DEFINE s == l.received_at + 1
  <2>1. l.received_at \in Nat /\ (t # None => t.received_at \in Nat) /\ x \in Value /\ x.received_at \in Nat
    BY <1>3, <1>6, <1>8 DEF Value
  <2>2. s \in Nat /\ s > l.received_at /\ x.received_at <= s
    BY <1>8, <2>1
  <2> HIDE DEF s
  <2>3. bump = [x EXCEPT !.received_at = s]
    BY DEF s
  <2>4. bump \in Value /\ bump.received_at = s /\ bump.valid_until = x.valid_until
    BY <2>1, <2>2, <2>3 DEF Value
  <2> HIDE DEF bump
  <2>5. ~Stretched(bump)
    <3>1. ~Stretched(x) /\ x.valid_until \in Nat
      BY <1>5, <1>8 DEF ValueGood, Value
    <3> QED BY <2>1, <2>2, <2>4, <3>1, Bounds DEF Stretched
  <2>6. t # None => s >= t.received_at
    BY <1>6, <1>8, <2>1 DEF s
  <2>7. Stamped(n, f, s)
    BY <1>8, <2>1 DEF Stamped, s
  <2> QED BY <2>2, <2>4, <2>5, <2>6, <2>7 DEF SignGood
<1> HIDE DEF bump
<1> QED BY <1>1, <1>7, <1>8

-----------------------------------------------------------------------------
(***************************************************************************)
(* Polling, and time.                                                      *)
(***************************************************************************)
LEMMA SuccessIs ==
  ASSUME NEW s, NEW o \in Observation
  PROVE  /\ Success(s, o) \in SourceRecord /\ Success(s, o).observation = o
         /\ Success(s, o).state = "active"
<1>1. NoSource \in SourceRecord /\ NoSource.state = "active"
  BY Bounds DEF NoSource, SourceRecord
<1> DEFINE z == NoSource
<1> HIDE DEF z
<1>2. z \in SourceRecord /\ z.state = "active"
  BY <1>1 DEF z
<1>3. Success(s, o) = [z EXCEPT !.observation = o]
  BY Zenon DEF Success, z
<1> QED BY <1>2, <1>3 DEF SourceRecord

LEMMA FailureIs ==
  ASSUME NEW s \in SourceRecord, NEW at \in Nat, s.state = "dropped" => s.observation = None
  PROVE  /\ Failure(s, at) \in SourceRecord
         /\ Failure(s, at).state = "dropped" => Failure(s, at).observation = None
         /\ Failure(s, at).observation \in {None, s.observation}
<1> DEFINE k == IF s.failures < MaxErrors THEN s.failures + 1 ELSE MaxErrors
           on == [s EXCEPT !.failures = k]
           off == [state |-> "dropped", failures |-> k, observation |-> None, retry_at |-> at + Retry]
<1>1. k \in 0 .. MaxErrors /\ at + Retry \in Nat
  BY Bounds DEF SourceRecord
<1>2. Failure(s, at) = IF k < MaxErrors THEN on ELSE off
  BY Zenon DEF Failure
<1> HIDE DEF k
<1>3. on \in SourceRecord /\ on.state = s.state /\ on.observation = s.observation
  BY <1>1 DEF SourceRecord
<1>4. off \in SourceRecord /\ off.state = "dropped" /\ off.observation = None
  BY <1>1 DEF SourceRecord
<1> HIDE DEF on, off
<1> QED BY <1>2, <1>3, <1>4

(* What a source says now is not older than what it said. *)
LEMMA SourceStep ==
  ASSUME Inv, NEW n \in Attester, NEW d \in Direct, NEW r \in SourceRecord,
         source' = [source EXCEPT ![n][d] = r],
         r.state = "dropped" => r.observation = None,
         r.observation \in {None, source[n][d].observation} \/ r.observation.received_at = Clock(n),
         UNCHANGED <<now, batch, net, held, last, missed>>,
         notified' \subseteq Attester, polls' \in 0 .. MaxPolls, events' \in 0 .. MaxEvents
  PROVE  Inv'
<1>0. source \in [Attester -> [Direct -> SourceRecord]] /\ now \in Nat /\ now' = now
  BY Bounds DEF Inv, Types
<1>1. /\ source' \in [Attester -> [Direct -> SourceRecord]]
      /\ source'[n][d] = r
      /\ \A m \in Attester, c \in Direct : m # n \/ c # d => source'[m][c] = source[m][c]
  BY <1>0
<1>2. Types'
  BY <1>1 DEF Inv, Types
<1>3. \A m \in Attester : Clock(m)' = Clock(m) /\ Clock(m) \in Nat
  BY <1>0, ClockIs DEF Clock
<1>4. r.observation # None => r.observation.received_at <= Clock(n)
  BY <1>3 DEF Inv, SourceInv
<1>5. SourceInv'
  <2> SUFFICES ASSUME NEW m \in Attester, NEW c \in Direct
               PROVE  /\ source'[m][c].state = "dropped" => source'[m][c].observation = None
                      /\ source'[m][c].observation # None =>
                           source'[m][c].observation.received_at <= Clock(m)'
    BY DEF SourceInv
  <2>1. CASE m = n /\ c = d
    BY <1>1, <1>3, <1>4, <2>1
  <2>2. CASE m # n \/ c # d
    BY <1>1, <1>3, <2>2 DEF Inv, SourceInv
  <2> QED BY <2>1, <2>2
<1>6. NetInv'
  BY DEF Inv, NetInv, OneEach, Stretched
<1>7. SignedInv' /\ BatchInv' /\ MissedInv' /\ FollowInv'
  BY DEF Inv, SignedInv, Signed, BatchInv, OneEach, MissedInv, FollowInv, OnItsWay
<1>8. StampInv'
  <2> SUFFICES ASSUME NEW a \in Attester, NEW f \in Feed, last[a][f] # None
               PROVE  Stamped(a, f, last[a][f].received_at)'
    BY DEF StampInv
  <2> DEFINE t == last[a][f].received_at
  <2>1. Stamped(a, f, t)
    BY DEF Inv, StampInv
  <2>2. CASE Reached(a, f, t)
    <3>1. PICK c \in Legs(f) : \/ source[a][c].observation = None
                               \/ source[a][c].observation.received_at >= t
      BY <2>2 DEF Reached
    <3>2. t <= Clock(a) /\ c \in Direct
      BY <2>2, Feeds DEF Reached
    <3>3. \/ source'[a][c].observation = None
          \/ source'[a][c].observation.received_at >= t
      <4>1. CASE a = n /\ c = d
        <5>1. Clock(a) >= t
          <6>1. t \in Nat
            BY DEF Inv, Types, Value
          <6> HIDE DEF t
          <6> QED BY <1>3, <3>2, <6>1
        <5> HIDE DEF t
        <5> QED BY <1>1, <3>1, <4>1, <5>1
      <4>2. CASE a # n \/ c # d
        BY <1>1, <3>1, <3>2, <4>2
      <4> QED BY <4>1, <4>2
    <3>4. Reached(a, f, t)'
      BY <1>3, <3>2, <3>3 DEF Reached
    <3> QED BY <3>4 DEF Stamped
  <2> QED BY <2>1, <2>2 DEF Stamped
<1> QED BY <1>2, <1>5, <1>6, <1>7, <1>8 DEF Inv

LEMMA Once == ASSUME Inv, Happens PROVE events' \in 0 .. MaxEvents
  BY Bounds DEF Inv, Types, Happens

LEMMA PollInv == ASSUME Inv, NEW n \in Attester, NEW d \in Direct, Poll(n, d) PROVE Inv'
<1>1. PICK p \in Price : source' = [source EXCEPT ![n][d] = Success(source[n][d], Answer(n, p))]
  BY Zenon DEF Poll
<1> DEFINE o == Answer(n, p)
           r == Success(source[n][d], o)
<1>2. o \in Observation /\ o.received_at = Clock(n)
  <2>1. now \in Nat /\ Clock(n) \in Nat
    BY ClockIs, Bounds DEF Inv, Types
  <2> QED BY <2>1 DEF Answer, Observation
<1>3. r \in SourceRecord /\ r.observation = o /\ r.state = "active"
  <2> HIDE DEF o
  <2> QED BY <1>2, SuccessIs
<1>4. polls' \in 0 .. MaxPolls
  BY Bounds DEF Inv, Types, Poll
<1>5. /\ notified' \subseteq Attester /\ events' \in 0 .. MaxEvents
      /\ UNCHANGED <<now, batch, net, held, last, missed>>
  BY DEF Inv, Types, Poll
<1>6. source' = [source EXCEPT ![n][d] = r]
  BY <1>1, Zenon
<1> HIDE DEF o, r
<1> QED BY <1>2, <1>3, <1>4, <1>5, <1>6, SourceStep

LEMMA PollFailsInv == ASSUME Inv, NEW n \in Attester, NEW d \in Direct, PollFails(n, d) PROVE Inv'
<1> DEFINE r == Failure(source[n][d], Clock(n))
<1>1. source' = [source EXCEPT ![n][d] = r]
  BY Zenon DEF PollFails
<1>2. /\ r \in SourceRecord
      /\ r.state = "dropped" => r.observation = None
      /\ r.observation \in {None, source[n][d].observation}
  <2>1. /\ Clock(n) \in Nat /\ source[n][d] \in SourceRecord
        /\ source[n][d].state = "dropped" => source[n][d].observation = None
    BY ClockIs, Bounds DEF Inv, Types, SourceInv
  <2> QED BY <2>1, FailureIs
<1>3. /\ notified' \subseteq Attester /\ polls' \in 0 .. MaxPolls
      /\ UNCHANGED <<now, batch, net, held, last, missed>> /\ events' \in 0 .. MaxEvents
  BY Once DEF Inv, Types, PollFails
<1> HIDE DEF r
<1> QED BY <1>1, <1>2, <1>3, SourceStep

LEMMA TickInv == ASSUME Inv, Tick PROVE Inv'
<1>1. /\ now \in Nat /\ now' = now + 1 /\ now' \in 0 .. MaxNow
      /\ UNCHANGED <<source, notified, batch, net, held, last, missed, polls, events>>
  BY Bounds DEF Inv, Types, Tick
<1>2. \A n \in Attester : Clock(n) \in Nat /\ Clock(n)' = Clock(n) + 1 /\ Skew[n] \in Nat
  BY <1>1, ClockIs DEF Clock
<1>3. Types'
  BY <1>1 DEF Inv, Types
<1>4. SourceInv'
  <2> SUFFICES ASSUME NEW n \in Attester, NEW d \in Direct, source[n][d].observation # None
               PROVE  source[n][d].observation.received_at <= Clock(n)'
    BY <1>1 DEF Inv, SourceInv
  <2> DEFINE t == source[n][d].observation.received_at
  <2>1. t <= Clock(n)
    BY DEF Inv, SourceInv
  <2>2. t \in Nat
    BY DEF Inv, Types, SourceRecord, Observation
  <2> HIDE DEF t
  <2> QED BY <1>2, <2>1, <2>2 DEF t
<1>5. NetInv'
  <2> SUFFICES ASSUME NEW msg \in net PROVE msg.at <= now' + Skew[msg.from]
    BY <1>1 DEF Inv, NetInv, OneEach, Stretched
  <2>1. msg.at \in Nat /\ msg.from \in Attester /\ msg.at <= now + Skew[msg.from]
    BY DEF Inv, Types, Message, NetInv
  <2> QED BY <1>1, <1>2, <2>1
<1>6. SignedInv' /\ BatchInv' /\ MissedInv' /\ FollowInv'
  BY <1>1 DEF Inv, SignedInv, Signed, BatchInv, OneEach, MissedInv, FollowInv, OnItsWay
<1>7. StampInv'
  <2> SUFFICES ASSUME NEW a \in Attester, NEW f \in Feed, last[a][f] # None
               PROVE  Stamped(a, f, last[a][f].received_at)'
    BY <1>1 DEF StampInv
  <2> DEFINE t == last[a][f].received_at
  <2>1. Stamped(a, f, t) /\ t \in Nat
    BY DEF Inv, StampInv, Types, Value
  <2>2. t <= Clock(a) => t <= Clock(a)'
    <3> HIDE DEF t
    <3> QED BY <1>2, <2>1
  <2>3. t' = t
    BY <1>1
  <2> QED BY <1>1, <2>1, <2>2, <2>3 DEF Stamped, Reached
<1> QED BY <1>3, <1>4, <1>5, <1>6, <1>7 DEF Inv

-----------------------------------------------------------------------------
(***************************************************************************)
(* Storing and receiving.                                                  *)
(***************************************************************************)
LEMMA LatestIs ==
  ASSUME NEW stored \in [Feed -> Value \cup {None}], NEW list \in SUBSET Entry, OneEach(list)
  PROVE  /\ Latest(stored, list) \in [Feed -> Value \cup {None}]
         /\ \A f \in Feed : \/ Latest(stored, list)[f] = stored[f]
                            \/ \E e \in list : /\ e.feed = f /\ Newer(e.value, stored[f])
                                               /\ Latest(stored, list)[f] = e.value
         /\ \A e \in list : Latest(stored, list)[e.feed] =
                              IF Newer(e.value, stored[e.feed]) THEN e.value ELSE stored[e.feed]
<1> DEFINE newer(f) == {a \in list : a.feed = f /\ Newer(a.value, stored[f])}
           v(f) == IF newer(f) = {} THEN stored[f] ELSE (CHOOSE a \in newer(f) : TRUE).value
<1>1. Latest(stored, list) = [f \in Feed |-> v(f)]
  BY DEF Latest
<1>2. ASSUME NEW f \in Feed
      PROVE  /\ v(f) \in Value \cup {None}
             /\ v(f) = stored[f] \/ \E e \in list : e.feed = f /\ Newer(e.value, stored[f]) /\ v(f) = e.value
             /\ \A e \in list : e.feed = f =>
                  v(f) = IF Newer(e.value, stored[f]) THEN e.value ELSE stored[f]
  <2>1. CASE newer(f) = {}
    BY <2>1
  <2>2. CASE newer(f) # {}
    <3>1. PICK e \in newer(f) : v(f) = e.value
      <4> DEFINE e == CHOOSE a \in newer(f) : TRUE
      <4>1. e \in newer(f)
        BY <2>2
      <4> QED BY <2>2, <4>1
    <3>2. e \in list /\ e.feed = f /\ Newer(e.value, stored[f]) /\ e.value \in Value
      BY DEF Entry
    <3>3. \A x \in list : x.feed = f => x = e
      BY <3>2 DEF OneEach
    <3> HIDE DEF newer, v
    <3> QED BY <3>1, <3>2, <3>3
  <2> QED BY <2>1, <2>2
<1>3. \A e \in list : e.feed \in Feed
  BY DEF Entry
<1> HIDE DEF v
<1> QED BY <1>1, <1>2, <1>3

(* n takes from what a signed. *)
LEMMA Taking ==
  ASSUME Inv, NEW n \in Node, NEW a \in Attester, NEW list \in SUBSET Entry, OneEach(list),
         \A e \in list : Signed(e.value, a, e.feed),
         held' = [held EXCEPT ![n][a] = Latest(held[n][a], list)],
         UNCHANGED <<now, source, last, missed>>
  PROVE  /\ held' \in [Node -> [Attester -> [Feed -> Value \cup {None}]]]
         /\ \A m \in Node, b \in Attester : m # n \/ b # a => held'[m][b] = held[m][b]
         /\ \A m \in Node, b \in Attester, f \in Feed :
              /\ held'[m][b][f] # None => Signed(held'[m][b][f], b, f)
              /\ held[m][b][f] = last[b][f] => held'[m][b][f] = last[b][f]
         /\ \A e \in list : e.value = last[a][e.feed] =>
              <<a, a, e.feed>> \in missed \/ held'[n][a][e.feed] = last[a][e.feed]
         /\ StampInv'
<1> DEFINE h == held[n][a]
           k == Latest(h, list)
<1>1. /\ held \in [Node -> [Attester -> [Feed -> Value \cup {None}]]]
      /\ last \in [Attester -> [Feed -> Value \cup {None}]]
  BY DEF Inv, Types
<1>2. h \in [Feed -> Value \cup {None}]
  BY <1>1
<1> HIDE DEF h
<1>3. /\ k \in [Feed -> Value \cup {None}]
      /\ \A f \in Feed : \/ k[f] = h[f]
                         \/ \E e \in list : e.feed = f /\ Newer(e.value, h[f]) /\ k[f] = e.value
      /\ \A e \in list : k[e.feed] = IF Newer(e.value, h[e.feed]) THEN e.value ELSE h[e.feed]
  BY <1>2, LatestIs
<1> HIDE DEF k
<1>4. held' = [held EXCEPT ![n][a] = k]
  BY DEF k, h
<1>5. /\ held' \in [Node -> [Attester -> [Feed -> Value \cup {None}]]]
      /\ held'[n][a] = k
      /\ \A m \in Node, b \in Attester : m # n \/ b # a => held'[m][b] = held[m][b]
  BY <1>1, <1>3, <1>4
<1>6. \A f \in Feed : h[f] # None => Signed(h[f], a, f)
  BY DEF Inv, SignedInv, h
<1>7. \A e \in list : e.feed \in Feed /\ e.value \in Value /\ e.value.received_at \in Nat
  BY DEF Entry, Value
<1>8. \A f \in Feed : k[f] # None => Signed(k[f], a, f)
  BY <1>3, <1>6
<1>9. ASSUME NEW f \in Feed, h[f] = last[a][f] PROVE k[f] = last[a][f]
  <2>1. SUFFICES ASSUME NEW e \in list, e.feed = f, Newer(e.value, h[f]) PROVE FALSE
    BY <1>3, <1>9
  <2> DEFINE l == last[a][f]
  <2>2. l # None /\ e.value.received_at <= l.received_at
    BY <2>1 DEF Signed
  <2>3. l.received_at \in Nat
    BY <1>1, <2>2 DEF Value
  <2>4. e.value.received_at > l.received_at
    BY <1>9, <2>1, <2>2 DEF Newer
  <2> HIDE DEF l
  <2> QED BY <1>7, <2>2, <2>3, <2>4
<1>10. ASSUME NEW e \in list, e.value = last[a][e.feed], <<a, a, e.feed>> \notin missed
       PROVE  k[e.feed] = last[a][e.feed]
  <2>1. SUFFICES ASSUME ~Newer(e.value, h[e.feed]) PROVE h[e.feed] = last[a][e.feed]
    BY <1>3, <1>10
  <2> DEFINE w == h[e.feed]
             l == last[a][e.feed]
  <2>2. w # None /\ ~(l.received_at > w.received_at)
    BY <1>10, <2>1 DEF Newer
  <2>3. w.received_at <= l.received_at /\ (w.received_at = l.received_at => w = l)
    BY <1>6, <1>7, <1>10, <2>2 DEF Signed
  <2>4. w.received_at \in Nat /\ l.received_at \in Nat
    BY <1>2, <1>7, <1>10, <2>2 DEF Value
  <2> HIDE DEF w, l
  <2>5. w = l
    BY <2>2, <2>3, <2>4
  <2> QED BY <2>5 DEF w, l
<1>11. \A m \in Node, b \in Attester, f \in Feed :
         /\ held'[m][b][f] # None => Signed(held'[m][b][f], b, f)
         /\ held[m][b][f] = last[b][f] => held'[m][b][f] = last[b][f]
  <2> SUFFICES ASSUME NEW m \in Node, NEW b \in Attester, NEW f \in Feed
               PROVE  /\ held'[m][b][f] # None => Signed(held'[m][b][f], b, f)
                      /\ held[m][b][f] = last[b][f] => held'[m][b][f] = last[b][f]
    OBVIOUS
  <2>1. CASE m # n \/ b # a
    BY <1>5, <2>1 DEF Inv, SignedInv
  <2>2. CASE m = n /\ b = a
    BY <1>5, <1>8, <1>9, <2>2 DEF h
  <2> QED BY <2>1, <2>2
<1>12. \A f \in Feed : h[f] # None =>
         k[f] # None /\ h[f].received_at \in Nat /\ k[f].received_at \in Nat /\ k[f].received_at >= h[f].received_at
  <2> SUFFICES ASSUME NEW f \in Feed, h[f] # None
               PROVE  /\ k[f] # None /\ h[f].received_at \in Nat /\ k[f].received_at \in Nat
                      /\ k[f].received_at >= h[f].received_at
    OBVIOUS
  <2>1. h[f].received_at \in Nat
    BY <1>2 DEF Value
  <2>2. CASE k[f] = h[f]
    BY <2>1, <2>2
  <2>3. ASSUME NEW e \in list, Newer(e.value, h[f]), k[f] = e.value
        PROVE  k[f] # None /\ k[f].received_at \in Nat /\ k[f].received_at >= h[f].received_at
    BY <1>7, <2>1, <2>3, NoneAssumption DEF Newer
  <2> QED BY <1>3, <2>1, <2>2, <2>3
<1>13. StampInv'
  <2> SUFFICES ASSUME NEW b \in Attester, NEW f \in Feed, last[b][f] # None
               PROVE  Stamped(b, f, last[b][f].received_at)'
    BY DEF StampInv
  <2> DEFINE t == last[b][f].received_at
  <2>1. Stamped(b, f, t) /\ t \in Nat
    BY <1>1 DEF Inv, StampInv, Value
  <2>2. CASE Reached(b, f, t)
    BY <2>2 DEF Stamped, Reached, Clock
  <2>3. CASE held[b][b][f] # None /\ t <= held[b][b][f].received_at + 1
    <3>1. CASE b = n /\ b = a
      <4>1. held'[b][b][f] = k[f] /\ held[b][b][f] = h[f]
        BY <1>5, <3>1 DEF h
      <4> HIDE DEF t
      <4>2. k[f] # None /\ t <= k[f].received_at + 1
        BY <1>12, <2>1, <2>3, <4>1
      <4> QED BY <4>1, <4>2 DEF Stamped, t
    <3>2. CASE ~(b = n /\ b = a)
      <4>1. b \in Node
        BY NodeAssumption
      <4>2. held'[b][b] = held[b][b]
        BY <1>5, <3>2, <4>1
      <4> QED BY <2>3, <4>2 DEF Stamped
    <3> QED BY <3>1, <3>2
  <2> QED BY <2>1, <2>2, <2>3 DEF Stamped
<1>14. \A e \in list : e.value = last[a][e.feed] =>
         <<a, a, e.feed>> \in missed \/ held'[n][a][e.feed] = last[a][e.feed]
  BY <1>5, <1>10
<1> QED BY <1>5, <1>11, <1>13, <1>14

LEMMA StoreInv == ASSUME Inv, NEW n \in Attester, Store(n) PROVE Inv'
<1> DEFINE first == First(batch[n])
           list == {first}
<1>1. /\ batch' = [batch EXCEPT ![n] = batch[n] \ {first}]
      /\ UNCHANGED <<now, source, notified, net, last, missed, polls, events>>
  BY DEF Store
<1>2. held' = [held EXCEPT ![n][n] = Latest(held[n][n], list)]
  BY Zenon DEF Store
<1>3. /\ n \in Node /\ list \in SUBSET Entry /\ OneEach(list)
      /\ \A e \in list : e.value = last[n][e.feed] /\ e.feed \in Feed /\ e.value \in Value
  <2>1. first \in batch[n]
    BY DEF Store, First
  <2> HIDE DEF first
  <2> QED BY <2>1, NodeAssumption DEF Inv, Types, BatchInv, Entry, OneEach
<1>4. \A e \in list : Signed(e.value, n, e.feed)
  <2>1. \A e \in list : e.value.received_at \in Nat
    BY <1>3 DEF Value
  <2> QED BY <1>3, <2>1, NoneAssumption DEF Signed
<1> HIDE DEF first
<1>5. /\ batch' \in [Attester -> SUBSET Entry] /\ batch'[n] = batch[n] \ list
      /\ \A b \in Attester : b # n => batch'[b] = batch[b]
  BY <1>1 DEF Inv, Types
<1> HIDE DEF list
<1>6. /\ held' \in [Node -> [Attester -> [Feed -> Value \cup {None}]]]
      /\ \A m \in Node, b \in Attester, f \in Feed :
           /\ held'[m][b][f] # None => Signed(held'[m][b][f], b, f)
           /\ held[m][b][f] = last[b][f] => held'[m][b][f] = last[b][f]
      /\ \A e \in list : e.value = last[n][e.feed] =>
           <<n, n, e.feed>> \in missed \/ held'[n][n][e.feed] = last[n][e.feed]
      /\ StampInv'
  BY <1>1, <1>2, <1>3, <1>4, Taking
<1>7. Types'
  BY <1>1, <1>5, <1>6 DEF Inv, Types
<1>8. SourceInv' /\ NetInv' /\ MissedInv'
  BY <1>1 DEF Inv, SourceInv, NetInv, OneEach, Stretched, MissedInv, Clock
<1>9. SignedInv'
  BY <1>1, <1>6 DEF Inv, SignedInv, Signed
<1>10. BatchInv'
  <2>1. \A a \in Attester : batch'[a] \subseteq batch[a]
    BY <1>5
  <2> QED BY <1>1, <2>1 DEF Inv, BatchInv, OneEach
<1>11. FollowInv'
  <2> SUFFICES ASSUME NEW a \in Attester, NEW m \in Node, NEW f \in Feed PROVE OnItsWay(a, m, f)'
    BY DEF FollowInv
  <2>1. OnItsWay(a, m, f)
    BY DEF Inv, FollowInv
  <2>2. CASE a = n /\ m = n /\ \E e \in list : e.feed = f
    BY <1>1, <1>3, <1>6, <2>2 DEF OnItsWay
  <2>3. CASE ~(a = n /\ m = n /\ \E e \in list : e.feed = f)
    <3>1. CASE <<a, m, f>> \in missed
      BY <1>1, <3>1 DEF OnItsWay
    <3>2. CASE held[m][a][f] = last[a][f]
      BY <1>1, <1>6, <3>2 DEF OnItsWay
    <3>3. CASE \E msg \in net : /\ msg.from = a /\ msg.to = m
                                /\ \E e \in msg.list : e.feed = f /\ e.value = last[a][f]
      BY <1>1, <3>3 DEF OnItsWay
    <3>4. CASE m = a /\ \E e \in batch[a] : e.feed = f
      <4>1. PICK e \in batch[a] : e.feed = f
        BY <3>4
      <4>2. e \in batch'[a]
        BY <1>5, <2>3, <3>4, <4>1
      <4> QED BY <3>4, <4>1, <4>2 DEF OnItsWay
    <3> QED BY <2>1, <3>1, <3>2, <3>3, <3>4 DEF OnItsWay
  <2> QED BY <2>2, <2>3
<1> QED BY <1>6, <1>7, <1>8, <1>9, <1>10, <1>11 DEF Inv

(* A message that is lost, or refused, is missed by its receiver. *)
LEMMA Missing ==
  ASSUME Inv, NEW msg \in net, net' = net \ {msg},
         missed' = missed \cup {<<msg.from, msg.to, e.feed>> : e \in msg.list},
         events' \in 0 .. MaxEvents,
         UNCHANGED <<now, source, notified, batch, held, last, polls>>
  PROVE  Inv'
<1>1. /\ msg.from \in Attester /\ msg.to \in Node /\ msg.to # msg.from
      /\ \A e \in msg.list : e.feed \in Feed
  BY DEF Inv, Types, Message, Entry, NetInv
<1>2. Types'
  <2>1. missed' \subseteq Attester \X Node \X Feed
    BY <1>1 DEF Inv, Types
  <2> QED BY <2>1 DEF Inv, Types
<1>3. SourceInv' /\ NetInv' /\ BatchInv'
  BY DEF Inv, SourceInv, NetInv, OneEach, Stretched, BatchInv, Clock
<1>4. SignedInv'
  BY DEF Inv, SignedInv, Signed
<1>5. MissedInv'
  <2>1. \A a \in Attester, f \in Feed : <<a, a, f>> \in missed' => <<a, a, f>> \in missed
    BY <1>1
  <2> QED BY <2>1 DEF Inv, MissedInv
<1>6. FollowInv'
  <2> SUFFICES ASSUME NEW a \in Attester, NEW n \in Node, NEW f \in Feed PROVE OnItsWay(a, n, f)'
    BY DEF FollowInv
  <2>1. OnItsWay(a, n, f)
    BY DEF Inv, FollowInv
  <2>2. ASSUME NEW m \in net, m.from = a, m.to = n, NEW e \in m.list, e.feed = f, e.value = last[a][f]
        PROVE  OnItsWay(a, n, f)'
    <3>1. CASE m = msg
      BY <2>2, <3>1 DEF OnItsWay
    <3>2. CASE m # msg
      BY <2>2, <3>2 DEF OnItsWay
    <3> QED BY <3>1, <3>2
  <2> QED BY <2>1, <2>2 DEF OnItsWay
<1>7. StampInv'
  BY DEF Inv, StampInv, Stamped, Reached, Clock
<1> QED BY <1>2, <1>3, <1>4, <1>5, <1>6, <1>7 DEF Inv

LEMMA LoseInv == ASSUME Inv, NEW msg \in net, Lose(msg) PROVE Inv'
  BY Once, Missing DEF Lose

(* An honest stamp that did not run ahead is not refused. *)
LEMMA NotRefused ==
  ASSUME Inv, NEW msg \in net, ~RanAhead(msg)
  PROVE  Passes(msg.list, Clock(msg.to))
<1> SUFFICES ASSUME NEW e \in msg.list
             PROVE  ~StampedAhead(e.value, Clock(msg.to)) /\ ~Stretched(e.value)
  BY DEF Passes
<1>1. /\ msg.from \in Attester /\ msg.to \in Node /\ msg.at \in Nat /\ e.value.received_at \in Nat
      /\ msg.at <= now + Skew[msg.from] /\ ~Stretched(e.value)
  BY DEF Inv, Types, NetInv, Message, Entry, Value
<1>2. e.value.received_at <= msg.at
  BY <1>1 DEF RanAhead
<1>3. /\ Skew[msg.from] \in Nat /\ Skew[msg.to] \in Nat /\ Skew[msg.from] <= Skew[msg.to] + MaxSkew
      /\ now \in Nat /\ MaxSkew \in Nat
  BY <1>1, NodeAssumption, ClockAssumption, Bounds DEF Inv, Types
<1> QED BY <1>1, <1>2, <1>3 DEF StampedAhead, Clock

LEMMA HandleAttestationInv == ASSUME Inv, NEW msg \in net, HandleAttestation(msg) PROVE Inv'
<1> DEFINE n == msg.to
           a == msg.from
           list == {First(msg.list)}
<1>1. /\ UNCHANGED <<now, source, notified, batch, last, polls, events>>
  BY DEF HandleAttestation
<1>0. First(msg.list) \in msg.list
  BY DEF Inv, NetInv, First
<1>2. /\ a \in Attester /\ n \in Node /\ n # a /\ list \in SUBSET Entry /\ OneEach(list)
      /\ \A e \in list : Signed(e.value, a, e.feed)
  <2>1. /\ a \in Attester /\ n \in Node /\ n # a /\ msg.list \subseteq Entry
        /\ \A e \in msg.list : Signed(e.value, a, e.feed)
    BY DEF Inv, Types, Message, NetInv, SignedInv
  <2> QED BY <1>0, <2>1 DEF OneEach
<1>3. CASE ~Passes(msg.list, Clock(msg.to))
  <2>1. RanAhead(msg)
    BY <1>3, NotRefused
  <2>2. net' = net \ {msg} /\ held' = held /\ missed' = missed \cup {<<msg.from, msg.to, e.feed>> : e \in msg.list}
    BY <1>3, <2>1 DEF HandleAttestation
  <2>3. events' \in 0 .. MaxEvents
    BY <1>1 DEF Inv, Types
  <2> QED BY <1>1, <2>2, <2>3, Missing
<1>4. CASE Passes(msg.list, Clock(msg.to))
  <2>1. held' = [held EXCEPT ![n][a] = Latest(held[n][a], list)] /\ missed' = missed
    BY <1>4, Zenon DEF HandleAttestation
  <2> DEFINE rest == msg.list \ list
             new == [msg EXCEPT !.list = rest]
  <2>2. net' = (net \ {msg}) \cup (IF rest = {} THEN {} ELSE {new})
    BY <1>4, Zenon DEF HandleAttestation, Rest
  <2>3. msg.from = a /\ msg.to = n
    OBVIOUS
  <2>9. /\ msg \in Message /\ msg.list \subseteq Entry /\ OneEach(msg.list)
        /\ msg = [from |-> a, to |-> n, list |-> msg.list, at |-> msg.at]
        /\ msg.at \in Nat /\ msg.at <= now + Skew[a]
        /\ \A e \in msg.list : ~Stretched(e.value) /\ Signed(e.value, a, e.feed)
    BY DEF Inv, Types, NetInv, SignedInv, Message
  <2> HIDE DEF n, a, list, rest
  <2>10. new = [from |-> a, to |-> n, list |-> rest, at |-> msg.at]
    BY <2>9
  <2>11. rest \subseteq msg.list /\ msg.list = rest \cup (msg.list \cap list)
    BY DEF rest
  <2>12. /\ new.from = a /\ new.to = n /\ new.list = rest /\ new.at = msg.at
         /\ new \in Message
    BY <1>2, <2>9, <2>10, <2>11 DEF Message
  <2> HIDE DEF new
  <2>13. \A m \in net' : m \in net \/ (m = new /\ rest # {})
    BY <2>2
  <2>14. net' \subseteq Message /\ NetInv'
    <3>1. \A m \in net : m \in Message
      BY DEF Inv, Types
    <3>2. OneEach(rest) /\ \A e \in rest : ~Stretched(e.value)
      BY <2>9, <2>11 DEF OneEach
    <3>3. net' \subseteq Message
      BY <2>12, <2>13, <3>1
    <3>4. \A m \in net' : /\ m.to # m.from /\ m.list # {} /\ OneEach(m.list)
                          /\ m.at <= now + Skew[m.from]
                          /\ \A e \in m.list : ~Stretched(e.value)
      BY <1>2, <2>9, <2>12, <2>13, <3>2 DEF Inv, NetInv
    <3>5. now' = now
      BY <1>1
    <3> QED BY <3>3, <3>4, <3>5 DEF NetInv, OneEach, Stretched
  <2>4. /\ held' \in [Node -> [Attester -> [Feed -> Value \cup {None}]]]
        /\ \A m \in Node, b \in Attester, f \in Feed :
             /\ held'[m][b][f] # None => Signed(held'[m][b][f], b, f)
             /\ held[m][b][f] = last[b][f] => held'[m][b][f] = last[b][f]
        /\ \A e \in list : e.value = last[a][e.feed] =>
             <<a, a, e.feed>> \in missed \/ held'[n][a][e.feed] = last[a][e.feed]
        /\ StampInv'
    BY <1>1, <1>2, <2>1, Taking
  <2>5. Types'
    BY <1>1, <2>1, <2>4, <2>14 DEF Inv, Types
  <2>6. SourceInv' /\ MissedInv' /\ BatchInv'
    BY <1>1, <2>1 DEF Inv, SourceInv, OneEach, MissedInv, BatchInv, Clock
  <2>7. SignedInv'
    <3>1. \A m \in net' : \A e \in m.list : Signed(e.value, m.from, e.feed)
      BY <2>9, <2>11, <2>12, <2>13 DEF Inv, SignedInv
    <3> QED BY <1>1, <2>1, <2>4, <3>1 DEF SignedInv, Signed
  <2>8. FollowInv'
    <3> SUFFICES ASSUME NEW b \in Attester, NEW m \in Node, NEW f \in Feed PROVE OnItsWay(b, m, f)'
      BY DEF FollowInv
    <3>1. OnItsWay(b, m, f)
      BY DEF Inv, FollowInv
    <3>2. CASE <<b, m, f>> \in missed
      BY <2>1, <3>2 DEF OnItsWay
    <3>3. CASE held[m][b][f] = last[b][f]
      BY <1>1, <2>4, <3>3 DEF OnItsWay
    <3>4. ASSUME NEW x \in net, x.from = b, x.to = m, NEW e \in x.list, e.feed = f, e.value = last[b][f]
          PROVE  OnItsWay(b, m, f)'
      <4>1. CASE x = msg
        <5>1. b = a /\ m = n /\ e \in msg.list
          BY <2>3, <3>4, <4>1
        <5>4. CASE e \in rest
          <6>1. new \in net'
            BY <2>2, <5>4
          <6> QED BY <1>1, <2>12, <3>4, <5>1, <5>4, <6>1 DEF OnItsWay
        <5> SUFFICES ASSUME e \in list PROVE OnItsWay(b, m, f)'
          BY <2>11, <5>1, <5>4
        <5>2. <<a, a, f>> \in missed \/ held'[n][a][f] = last[a][f]
          BY <2>4, <3>4, <5>1
        <5>3. <<a, a, f>> \in missed => <<a, n, f>> \in missed
          BY <1>2 DEF Inv, MissedInv
        <5> QED BY <1>1, <2>1, <5>1, <5>2, <5>3 DEF OnItsWay
      <4>2. CASE x # msg
        <5>1. x \in net'
          BY <2>2, <4>2
        <5> QED BY <1>1, <3>4, <5>1 DEF OnItsWay
      <4> QED BY <4>1, <4>2
    <3>5. CASE m = b /\ \E e \in batch[b] : e.feed = f
      BY <1>1, <3>5 DEF OnItsWay
    <3> QED BY <3>1, <3>2, <3>3, <3>4, <3>5 DEF OnItsWay
  <2> QED BY <2>4, <2>5, <2>6, <2>7, <2>8, <2>14 DEF Inv
<1> QED BY <1>3, <1>4

LEMMA CrashInv == ASSUME Inv, NEW n \in Attester, Crash(n) PROVE Inv'
<1>1. /\ source' = [source EXCEPT ![n] = [d \in Direct |-> NoSource]]
      /\ notified' = notified \ {n} /\ batch' = [batch EXCEPT ![n] = {}]
      /\ missed' = missed \cup {<<n, m, e.feed>> : m \in Node, e \in batch[n]}
      /\ events' \in 0 .. MaxEvents
      /\ UNCHANGED <<now, net, held, last, polls>>
  BY Once DEF Crash
<1>2. NoSource \in SourceRecord /\ NoSource.state = "active" /\ NoSource.observation = None
  BY Bounds DEF NoSource, SourceRecord
<1> DEFINE z == NoSource
<1> HIDE DEF z
<1>3. /\ source' \in [Attester -> [Direct -> SourceRecord]]
      /\ \A d \in Direct : source'[n][d] = z
      /\ \A m \in Attester : m # n => source'[m] = source[m]
  <2>1. source' = [source EXCEPT ![n] = [d \in Direct |-> z]] /\ z \in SourceRecord
    BY <1>1, <1>2 DEF z
  <2> QED BY <2>1 DEF Inv, Types
<1>4. z.state = "active" /\ z.observation = None
  BY <1>2 DEF z
<1>5. /\ batch' \in [Attester -> SUBSET Entry] /\ batch'[n] = {}
      /\ \A b \in Attester : b # n => batch'[b] = batch[b]
  BY <1>1 DEF Inv, Types
<1>6. \A e \in batch[n] : e.feed \in Feed
  BY DEF Inv, Types, Entry
<1>7. Types'
  <2>1. missed' \subseteq Attester \X Node \X Feed
    BY <1>1, <1>6 DEF Inv, Types
  <2> QED BY <1>1, <1>3, <1>5, <2>1 DEF Inv, Types
<1>8. SourceInv'
  <2> SUFFICES ASSUME NEW m \in Attester, NEW d \in Direct
               PROVE  /\ source'[m][d].state = "dropped" => source'[m][d].observation = None
                      /\ source'[m][d].observation # None =>
                           source'[m][d].observation.received_at <= Clock(m)'
    BY DEF SourceInv
  <2>1. CASE m = n
    BY <1>3, <1>4, <2>1
  <2>2. CASE m # n
    BY <1>1, <1>3, <2>2 DEF Inv, SourceInv, Clock
  <2> QED BY <2>1, <2>2
<1>9. NetInv' /\ SignedInv'
  BY <1>1 DEF Inv, NetInv, OneEach, Stretched, SignedInv, Signed
<1>10. BatchInv'
  BY <1>1, <1>5 DEF Inv, BatchInv, OneEach
<1>11. MissedInv'
  <2> SUFFICES ASSUME NEW a \in Attester, NEW f \in Feed, <<a, a, f>> \in missed', NEW m \in Node
               PROVE  <<a, m, f>> \in missed'
    BY DEF MissedInv
  <2>1. CASE <<a, a, f>> \in missed
    BY <1>1, <2>1 DEF Inv, MissedInv
  <2>2. CASE <<a, a, f>> \notin missed
    <3>1. PICK e \in batch[n] : a = n /\ f = e.feed
      BY <1>1, <2>2
    <3> QED BY <1>1, <3>1
  <2> QED BY <2>1, <2>2
<1>12. FollowInv'
  <2> SUFFICES ASSUME NEW a \in Attester, NEW m \in Node, NEW f \in Feed PROVE OnItsWay(a, m, f)'
    BY DEF FollowInv
  <2>1. OnItsWay(a, m, f)
    BY DEF Inv, FollowInv
  <2>2. ASSUME m = a, NEW e \in batch[a], e.feed = f PROVE OnItsWay(a, m, f)'
    <3>1. CASE a = n
      BY <1>1, <2>2, <3>1 DEF OnItsWay
    <3>2. CASE a # n
      BY <1>5, <2>2, <3>2 DEF OnItsWay
    <3> QED BY <3>1, <3>2
  <2> QED BY <1>1, <2>1, <2>2 DEF OnItsWay
<1>13. StampInv'
  <2> SUFFICES ASSUME NEW a \in Attester, NEW f \in Feed, last[a][f] # None
               PROVE  Stamped(a, f, last[a][f].received_at)'
    BY <1>1 DEF StampInv
  <2> DEFINE t == last[a][f].received_at
  <2>1. Stamped(a, f, t) /\ t' = t
    BY <1>1 DEF Inv, StampInv
  <2> HIDE DEF t
  <2>2. CASE Reached(a, f, t)
    <3>1. PICK d \in Legs(f) : \/ source[a][d].observation = None
                               \/ source[a][d].observation.received_at >= t
      BY <2>2 DEF Reached
    <3>2. d \in Direct /\ t <= Clock(a)
      BY <2>2, Feeds DEF Reached
    <3>3. \/ source'[a][d].observation = None
          \/ source'[a][d].observation.received_at >= t
      BY <1>3, <1>4, <3>1, <3>2
    <3>4. Reached(a, f, t)'
      BY <1>1, <2>1, <3>2, <3>3 DEF Reached, Clock
    <3> QED BY <2>1, <3>4 DEF Stamped, t
  <2>3. CASE held[a][a][f] # None /\ t <= held[a][a][f].received_at + 1
    BY <1>1, <2>1, <2>3 DEF Stamped, t
  <2> QED BY <2>1, <2>2, <2>3 DEF Stamped
<1> QED BY <1>7, <1>8, <1>9, <1>10, <1>11, <1>12, <1>13 DEF Inv

-----------------------------------------------------------------------------
(***************************************************************************)
(* Attesting.                                                              *)
(***************************************************************************)
LEMMA AttestationsAre ==
  ASSUME Inv, NEW n \in Attester
  PROVE  /\ Attestations(n) \in SUBSET Entry /\ OneEach(Attestations(n))
         /\ \A e \in Attestations(n) : SignGood(e.value, n, e.feed)
<1>1. \A e \in Attestations(n) : \E f \in Feed : \E v \in ToAttest(n, f) : e = [feed |-> f, value |-> v]
  BY DEF Attestations
<1>2. \A e \in Attestations(n) : e.feed \in Feed /\ e.value \in ToAttest(n, e.feed)
                                 /\ e = [feed |-> e.feed, value |-> e.value]
  BY <1>1
<1>3. \A e \in Attestations(n) : SignGood(e.value, n, e.feed)
  BY <1>2, ToAttestIs
<1>4. \A e \in Attestations(n) : e.value \in Value
  BY <1>3 DEF SignGood
<1>5. Attestations(n) \in SUBSET Entry
  BY <1>2, <1>4 DEF Entry
<1>6. OneEach(Attestations(n))
  <2> SUFFICES ASSUME NEW a \in Attestations(n), NEW b \in Attestations(n), a.feed = b.feed PROVE a = b
    BY DEF OneEach
  <2>1. a.value = b.value
    BY <1>2, ToAttestIs
  <2> QED BY <1>2, <2>1
<1> QED BY <1>3, <1>5, <1>6

LEMMA AttestInv == ASSUME Inv, NEW n \in Attester, Attest(n) PROVE Inv'
<1> DEFINE signed == Attestations(n)
           renewed == {a.feed : a \in {b \in signed : Newer(b.value, last[n][b.feed])}}
           sent(reached) == {[from |-> n, to |-> p, list |-> signed, at |-> Clock(n)] :
                              p \in {q \in reached : signed # {}}}
           new(f) == IF \E a \in signed : a.feed = f
                     THEN (CHOOSE a \in signed : a.feed = f).value ELSE last[n][f]
<1> DEFINE all == {x \in missed : ~(x[1] = n /\ x[3] \in renewed)}
           some == missed \cup {<<n, m, a.feed>> : m \in Node, a \in signed}
           table == [last EXCEPT ![n] = [f \in Feed |-> new(f)]]
           b == [batch EXCEPT ![n] = signed]
<1>1. PICK reached \in SUBSET Peers(n) :
        /\ net' = net \cup sent(reached)
        /\ last' = table
        /\ \/ /\ reached = Peers(n)
              /\ batch' = b
              /\ missed' = all
              /\ UNCHANGED events
           \/ /\ reached # Peers(n) /\ signed # {} /\ Happens
              /\ missed' = some
              /\ UNCHANGED batch
  BY DEF Attest
<1>2. /\ batch[n] = {} /\ notified' = notified \ {n}
      /\ UNCHANGED <<now, source, held, polls>>
  BY DEF Attest
<1>3. /\ signed \in SUBSET Entry /\ OneEach(signed)
      /\ \A e \in signed : SignGood(e.value, n, e.feed)
  BY AttestationsAre
<1>4. /\ now \in Nat /\ n \in Node /\ Clock(n) \in Nat /\ Clock(n) = now + Skew[n]
  <2>1. now \in Nat
    BY Bounds DEF Inv, Types
  <2> QED BY <2>1, ClockIs
<1>5. /\ last \in [Attester -> [Feed -> Value \cup {None}]]
      /\ held \in [Node -> [Attester -> [Feed -> Value \cup {None}]]]
      /\ batch \in [Attester -> SUBSET Entry] /\ missed \subseteq Attester \X Node \X Feed
  BY DEF Inv, Types
<1> HIDE DEF signed
<1>6. \A e \in signed : e.feed \in Feed /\ e.value \in Value /\ e.value.received_at \in Nat /\ e.value # None
  BY <1>3, NoneAssumption DEF Entry, Value
<1>7. /\ \A e \in signed : new(e.feed) = e.value
      /\ \A f \in Feed : (\E e \in signed : e.feed = f) \/ new(f) = last[n][f]
      /\ \A f \in Feed : new(f) \in Value \cup {None}
  <2>1. ASSUME NEW e \in signed PROVE new(e.feed) = e.value
    <3> DEFINE c == CHOOSE a \in signed : a.feed = e.feed
    <3>1. c \in signed /\ c.feed = e.feed
      OBVIOUS
    <3> HIDE DEF c
    <3>2. c = e
      BY <1>3, <3>1 DEF OneEach
    <3> QED BY <3>2 DEF c
  <2>2. \A f \in Feed : (\E e \in signed : e.feed = f) \/ new(f) = last[n][f]
    OBVIOUS
  <2> HIDE DEF new
  <2>3. ASSUME NEW f \in Feed PROVE new(f) \in Value \cup {None}
    <3>1. last[n][f] \in Value \cup {None}
      BY <1>5
    <3>2. ASSUME NEW e \in signed, e.feed = f PROVE new(f) \in Value \cup {None}
      BY <1>6, <2>1, <3>2
    <3> QED BY <2>2, <3>1, <3>2
  <2> QED BY <2>1, <2>2, <2>3
<1> HIDE DEF new
<1>8. /\ last' \in [Attester -> [Feed -> Value \cup {None}]]
      /\ \A a \in Attester : a # n => last'[a] = last[a]
      /\ \A f \in Feed : last'[n][f] = new(f)
  BY <1>1, <1>5, <1>7
<1>9. \A e \in signed : last'[n][e.feed] = e.value
  BY <1>6, <1>7, <1>8
<1>10. \A f \in Feed : (\E e \in signed : e.feed = f) \/ last'[n][f] = last[n][f]
  BY <1>7, <1>8
(* Unless n may have missed it, the stamp is above the last one. *)
<1>11. ASSUME NEW e \in signed
       PROVE  /\ last[n][e.feed] # None => /\ last[n][e.feed].received_at \in Nat
                                           /\ e.value.received_at >= last[n][e.feed].received_at
              /\ <<n, n, e.feed>> \notin missed => Newer(e.value, last[n][e.feed])
  <2> DEFINE l == last[n][e.feed]
  <2>1. l # None => l.received_at \in Nat /\ e.value.received_at >= l.received_at
    BY <1>3, <1>5, <1>6 DEF SignGood, Value
  <2>2. ASSUME <<n, n, e.feed>> \notin missed, l # None PROVE e.value.received_at > l.received_at
    <3>1. OnItsWay(n, n, e.feed)
      BY <1>4, <1>6 DEF Inv, FollowInv
    <3>2. held[n][n][e.feed] = l
      BY <1>2, <2>2, <3>1 DEF OnItsWay, Inv, NetInv
    <3> QED BY <1>3, <2>2, <3>2 DEF SignGood
  <2> QED BY <2>1, <2>2 DEF Newer
<1>12. \A f \in renewed : \E e \in signed : e.feed = f /\ Newer(e.value, last[n][f])
  OBVIOUS
<1>13. \A e \in signed : Newer(e.value, last[n][e.feed]) => e.feed \in renewed
  OBVIOUS
<1> HIDE DEF renewed
(* What both outcomes have in common. *)
<1>14. /\ missed' \subseteq Attester \X Node \X Feed /\ events' \in 0 .. MaxEvents /\ MissedInv'
       /\ \A e \in signed : <<n, n, e.feed>> \notin missed' => Newer(e.value, last[n][e.feed])
       /\ \A a \in Attester, m \in Node, f \in Feed :
            a # n => (<<a, m, f>> \in missed' <=> <<a, m, f>> \in missed)
       /\ \A m \in Node, f \in Feed :
            (\E e \in signed : e.feed = f) \/ (<<n, m, f>> \in missed' <=> <<n, m, f>> \in missed)
       /\ batch' \in [Attester -> SUBSET Entry] /\ batch'[n] \in {{}, signed}
       /\ \A a \in Attester : a # n => batch'[a] = batch[a]
       /\ \A m \in Node, e \in signed :
            <<n, m, e.feed>> \in missed' \/ (m = n /\ batch'[n] = signed) \/ m \in reached
  <2>1. CASE /\ reached = Peers(n) /\ batch' = [batch EXCEPT ![n] = signed]
             /\ missed' = {x \in missed : ~(x[1] = n /\ x[3] \in renewed)} /\ events' = events
    <3>1. \A a, m, f : <<a, m, f>> \in missed' <=> <<a, m, f>> \in missed /\ ~(a = n /\ f \in renewed)
      BY <2>1
    <3>2. missed' \subseteq Attester \X Node \X Feed /\ events' \in 0 .. MaxEvents
      BY <1>5, <2>1 DEF Inv, Types
    <3>3. MissedInv'
      BY <3>1 DEF Inv, MissedInv
    <3>4. \A e \in signed : <<n, n, e.feed>> \notin missed' => Newer(e.value, last[n][e.feed])
      <4> SUFFICES ASSUME NEW e \in signed, e.feed \in renewed PROVE Newer(e.value, last[n][e.feed])
        BY <1>11, <3>1
      <4> QED BY <1>3, <1>12 DEF OneEach
    <3>5. \A m \in Node, f \in Feed :
            (\E e \in signed : e.feed = f) \/ (<<n, m, f>> \in missed' <=> <<n, m, f>> \in missed)
      BY <1>12, <3>1
    <3>6. /\ batch' \in [Attester -> SUBSET Entry] /\ batch'[n] = signed
          /\ \A a \in Attester : a # n => batch'[a] = batch[a]
      BY <1>3, <1>5, <2>1
    <3>7. \A m \in Node : m = n \/ m \in reached
      BY <2>1 DEF Peers
    <3> QED BY <3>1, <3>2, <3>3, <3>4, <3>5, <3>6, <3>7
  <2>2. CASE /\ reached # Peers(n) /\ Happens /\ batch' = batch
             /\ missed' = missed \cup {<<n, m, a.feed>> : m \in Node, a \in signed}
    <3>1. missed' \subseteq Attester \X Node \X Feed /\ events' \in 0 .. MaxEvents
      BY <1>5, <1>6, <2>2, Once
    <3>2. \A m \in Node, e \in signed : <<n, m, e.feed>> \in missed'
      BY <2>2
    <3>3. \A a, m, f : <<a, m, f>> \in missed' =>
            <<a, m, f>> \in missed \/ (a = n /\ \E e \in signed : e.feed = f)
      BY <2>2
    <3>4. missed \subseteq missed'
      BY <2>2
    <3>5. MissedInv'
      <4> SUFFICES ASSUME NEW a \in Attester, NEW f \in Feed, <<a, a, f>> \in missed', NEW m \in Node
                   PROVE  <<a, m, f>> \in missed'
        BY DEF MissedInv
      <4>1. CASE <<a, a, f>> \in missed
        BY <3>4, <4>1 DEF Inv, MissedInv
      <4> QED BY <3>2, <3>3, <4>1
    <3> QED BY <1>2, <1>4, <1>5, <2>2, <3>1, <3>2, <3>3, <3>4, <3>5
  <2> QED BY <1>1, <2>1, <2>2
<1>15. /\ net' \subseteq Message /\ net \subseteq net'
       /\ \A msg \in net' : \/ msg \in net
                            \/ /\ msg.from = n /\ msg.to # n /\ msg.list = signed /\ signed # {}
                               /\ msg.at = now + Skew[n]
       /\ \A m \in reached : signed # {} =>
            \E msg \in net' : msg.from = n /\ msg.to = m /\ msg.list = signed
  <2> DEFINE sending(p) == [from |-> n, to |-> p, list |-> signed, at |-> Clock(n)]
  <2>1. \A p \in reached : p \in Node /\ p # n
    BY DEF Peers
  <2>2. \A p \in reached : /\ sending(p) \in Message /\ sending(p).from = n /\ sending(p).to = p
                            /\ sending(p).list = signed /\ sending(p).at = now + Skew[n]
    BY <1>3, <1>4, <2>1 DEF Message
  <2>3. net' = net \cup {sending(p) : p \in {q \in reached : signed # {}}}
    BY <1>1
  <2> HIDE DEF sending
  <2>4. net \subseteq Message
    BY DEF Inv, Types
  <2> QED BY <2>1, <2>2, <2>3, <2>4
<1> HIDE DEF sent
<1>16. Types'
  BY <1>2, <1>5, <1>8, <1>14, <1>15 DEF Inv, Types
<1>17. SourceInv'
  BY <1>2 DEF Inv, SourceInv, Clock
<1>18. NetInv'
  <2>1. \A e \in signed : ~Stretched(e.value)
    BY <1>3 DEF SignGood
  <2> SUFFICES ASSUME NEW msg \in net'
               PROVE  /\ msg.to # msg.from /\ msg.list # {} /\ OneEach(msg.list)
                      /\ msg.at <= now + Skew[msg.from]
                      /\ \A e \in msg.list : ~Stretched(e.value)
    BY <1>2 DEF NetInv, OneEach, Stretched
  <2>2. CASE msg \in net
    BY <2>2 DEF Inv, NetInv
  <2>3. CASE msg \notin net
    <3>1. now + Skew[n] <= now + Skew[n]
      BY <1>4
    <3> QED BY <1>3, <1>15, <2>1, <2>3, <3>1
  <2> QED BY <2>2, <2>3
(* What was signed before is not newer than what is signed now. *)
<1>19. ASSUME NEW w \in Value, NEW a \in Attester, NEW f \in Feed, Signed(w, a, f)
       PROVE  Signed(w, a, f)'
  <2>1. CASE a # n
    <3>1. <<a, a, f>> \in missed' <=> <<a, a, f>> \in missed
      BY <1>14, <2>1, NodeAssumption
    <3> QED BY <1>8, <1>19, <2>1, <3>1 DEF Signed
  <2>2. CASE a = n /\ ~\E e \in signed : e.feed = f
    <3>1. <<n, n, f>> \in missed' <=> <<n, n, f>> \in missed
      BY <1>4, <1>14, <2>2
    <3> QED BY <1>10, <1>19, <2>2, <3>1 DEF Signed
  <2>3. ASSUME a = n, NEW e \in signed, e.feed = f PROVE Signed(w, a, f)'
    <3> DEFINE l == last[n][f]
               v == e.value
    <3>1. l # None /\ w.received_at <= l.received_at
      BY <1>19, <2>3 DEF Signed
    <3>2. /\ l.received_at \in Nat /\ v.received_at >= l.received_at
          /\ <<n, n, f>> \notin missed' => v.received_at > l.received_at
      BY <1>11, <1>14, <2>3, <3>1 DEF Newer
    <3>3. v # None /\ v.received_at \in Nat /\ last'[n][f] = v /\ w.received_at \in Nat
      BY <1>6, <1>9, <2>3 DEF Value
    <3> HIDE DEF l, v
    <3>4. /\ w.received_at <= v.received_at
          /\ <<n, n, f>> \notin missed' => w.received_at # v.received_at
      BY <3>1, <3>2, <3>3
    <3> QED BY <2>3, <3>3, <3>4 DEF Signed
  <2> QED BY <2>1, <2>2, <2>3
<1>20. SignedInv'
  <2>1. ASSUME NEW msg \in net', NEW e \in msg.list PROVE Signed(e.value, msg.from, e.feed)'
    <3>1. CASE msg \in net
      <4>1. msg.from \in Attester /\ e.value \in Value /\ e.feed \in Feed
        BY <3>1 DEF Inv, Types, Message, Entry
      <4>2. Signed(e.value, msg.from, e.feed)
        BY <3>1 DEF Inv, SignedInv
      <4> QED BY <1>19, <4>1, <4>2
    <3>2. CASE msg \notin net
      <4>1. msg.from = n /\ e \in signed
        BY <1>15, <3>2
      <4>2. last'[n][e.feed] = e.value /\ e.value # None /\ e.value.received_at \in Nat
        BY <1>6, <1>9, <4>1
      <4> QED BY <4>1, <4>2 DEF Signed
    <3> QED BY <3>1, <3>2
  <2>2. ASSUME NEW m \in Node, NEW a \in Attester, NEW f \in Feed, held[m][a][f] # None
        PROVE  Signed(held[m][a][f], a, f)'
    <3> DEFINE w == held[m][a][f]
    <3>1. w \in Value /\ Signed(w, a, f)
      BY <1>5, <2>2 DEF Inv, SignedInv
    <3>2. w' = w
      BY <1>2
    <3> HIDE DEF w
    <3>3. Signed(w, a, f)'
      BY <1>19, <3>1, <3>2 DEF Signed
    <3> QED BY <3>2, <3>3 DEF w, Signed
  <2> QED BY <1>2, <2>1, <2>2 DEF SignedInv, Signed
<1>21. BatchInv'
  <2> SUFFICES ASSUME NEW a \in Attester
               PROVE  OneEach(batch'[a]) /\ \A e \in batch'[a] : e.value = last'[a][e.feed]
    BY DEF BatchInv, OneEach
  <2>1. CASE a = n
    BY <1>3, <1>9, <1>14, <2>1 DEF OneEach
  <2>2. CASE a # n
    BY <1>8, <1>14, <2>2 DEF Inv, BatchInv
  <2> QED BY <2>1, <2>2
<1>22. FollowInv'
  <2> SUFFICES ASSUME NEW a \in Attester, NEW m \in Node, NEW f \in Feed PROVE OnItsWay(a, m, f)'
    BY DEF FollowInv
  <2>1. OnItsWay(a, m, f)
    BY DEF Inv, FollowInv
  <2>2. CASE a # n \/ ~\E e \in signed : e.feed = f
    <3>1. last'[a][f] = last[a][f] /\ (<<a, m, f>> \in missed => <<a, m, f>> \in missed')
      BY <1>8, <1>10, <1>14, <2>2
    <3>2. m = a /\ (\E e \in batch[a] : e.feed = f) => a # n /\ batch'[a] = batch[a]
      BY <1>2, <1>14
    <3> QED BY <1>2, <1>15, <2>1, <3>1, <3>2 DEF OnItsWay
  <2>3. ASSUME a = n, NEW e \in signed, e.feed = f PROVE OnItsWay(a, m, f)'
    <3>1. <<n, m, f>> \in missed' \/ (m = n /\ batch'[n] = signed) \/ m \in reached
      BY <1>14, <2>3
    <3>2. CASE m \in reached
      <4>1. PICK msg \in net' : msg.from = n /\ msg.to = m /\ msg.list = signed
        BY <1>15, <2>3, <3>2
      <4>2. last'[n][f] = e.value
        BY <1>9, <2>3
      <4> QED BY <2>3, <4>1, <4>2 DEF OnItsWay
    <3> QED BY <2>3, <3>1, <3>2 DEF OnItsWay
  <2> QED BY <2>2, <2>3
<1>23. StampInv'
  <2> SUFFICES ASSUME NEW a \in Attester, NEW f \in Feed, last'[a][f] # None
               PROVE  Stamped(a, f, last'[a][f].received_at)
    BY <1>2 DEF StampInv, Stamped, Reached, Clock
  <2>1. CASE a # n \/ ~\E e \in signed : e.feed = f
    <3>1. last'[a][f] = last[a][f]
      BY <1>8, <1>10, <2>1
    <3> QED BY <3>1 DEF Inv, StampInv
  <2>2. ASSUME a = n, NEW e \in signed, e.feed = f PROVE Stamped(a, f, last'[a][f].received_at)
    BY <1>3, <1>9, <2>2 DEF SignGood
  <2> QED BY <2>1, <2>2
<1> QED BY <1>14, <1>16, <1>17, <1>18, <1>20, <1>21, <1>22, <1>23 DEF Inv

-----------------------------------------------------------------------------
LEMMA InitInv == ASSUME Init PROVE Inv
<1>1. NoSource \in SourceRecord /\ NoSource.state = "active" /\ NoSource.observation = None
  BY Bounds DEF NoSource, SourceRecord
<1> DEFINE z == NoSource
<1> HIDE DEF z
<1>2. z \in SourceRecord /\ z.state = "active" /\ z.observation = None
  BY <1>1 DEF z
<1>3. source = [n \in Attester |-> [d \in Direct |-> z]]
  BY DEF Init, z
<1>4. source \in [Attester -> [Direct -> SourceRecord]] /\ \A n \in Attester, d \in Direct : source[n][d] = z
  BY <1>2, <1>3
<1>5. /\ held \in [Node -> [Attester -> [Feed -> Value \cup {None}]]]
      /\ last \in [Attester -> [Feed -> Value \cup {None}]]
      /\ batch \in [Attester -> SUBSET Entry]
      /\ \A n \in Node, a \in Attester, f \in Feed : held[n][a][f] = None
      /\ \A a \in Attester, f \in Feed : last[a][f] = None
      /\ \A a \in Attester : batch[a] = {}
  BY DEF Init, NoneOf
<1>6. now = 0 /\ net = {} /\ missed = {} /\ notified = {} /\ polls = 0 /\ events = 0
  BY DEF Init
<1>7. Types
  BY <1>4, <1>5, <1>6, Bounds DEF Types
<1>8. SourceInv
  BY <1>2, <1>4 DEF SourceInv
<1> QED BY <1>5, <1>6, <1>7, <1>8
        DEF Inv, NetInv, SignedInv, BatchInv, OneEach, MissedInv, FollowInv, OnItsWay, StampInv

LEMMA StepInv == Inv /\ [Next]_vars => Inv'
<1> SUFFICES ASSUME Inv, [Next]_vars PROVE Inv'
  OBVIOUS
<1>1. CASE Tick
  BY <1>1, TickInv
<1>2. ASSUME NEW n \in Attester, NEW d \in Direct, Poll(n, d) \/ PollFails(n, d) PROVE Inv'
  BY <1>2, PollInv, PollFailsInv
<1>3. ASSUME NEW n \in Attester, Attest(n) \/ Store(n) \/ Crash(n) PROVE Inv'
  BY <1>3, AttestInv, StoreInv, CrashInv
<1>4. ASSUME NEW msg \in net, HandleAttestation(msg) \/ Lose(msg) PROVE Inv'
  BY <1>4, HandleAttestationInv, LoseInv
<1>5. CASE UNCHANGED vars
  BY <1>5 DEF vars, Inv, Types, SourceInv, NetInv, OneEach, Stretched, SignedInv, Signed, BatchInv,
              MissedInv, FollowInv, OnItsWay, StampInv, Stamped, Reached, Clock
<1> QED BY <1>1, <1>2, <1>3, <1>4, <1>5 DEF Next

THEOREM SpecInv == Spec => []Inv
<1> QED BY InitInv, StepInv, PTL DEF Spec

-----------------------------------------------------------------------------
(* Prices::attest, store_latest and check: once everything that was sent   *)
(* has arrived, every member holds what a node signed last, in whatever    *)
(* order it arrived and however often the node was restarted, unless it    *)
(* was lost, or refused for a stamp that ran ahead, and not yet made up    *)
(* for. *)
THEOREM PeersSafety == Spec => []PeersFollow
<1>1. Inv => TypeOK
  <2> SUFFICES ASSUME Inv PROVE TypeOK
    OBVIOUS
  <2>1. \A n \in Attester, d \in Direct : source[n][d] \in SourceRecord
    BY DEF Inv, Types
  <2>2. \A n \in Node, a \in Attester, f \in Feed : held[n][a][f] \in Value \cup {None}
    BY DEF Inv, Types
  <2> QED BY <2>1, <2>2 DEF Inv, Types, SourceInv, NetInv, TypeOK
<1>2. Inv => PeersFollow
  BY <1>1 DEF Inv, FollowInv, OnItsWay, PeersFollow
<1> QED BY <1>2, SpecInv, PTL

(* store_latest keeps the newest of each node by its stamp alone: what a   *)
(* member holds of a node and what is on its way to it have, per feed, no  *)
(* stamp above that of the last attestation, and the same stamp only with  *)
(* the same value, unless the node may have missed its own last one. *)
THEOREM StampsAreUnique == Spec => []SignedInv
<1>1. Inv => SignedInv
  BY DEF Inv
<1> QED BY <1>1, SpecInv, PTL
(***************************************************************************)
(* Sequences of sequences.                                                 *)
(***************************************************************************)

(* A set of natural numbers that is not empty has a least element. *)
LEMMA HasLeast ==
  ASSUME NEW S, S \subseteq Nat, S # {}
  PROVE  \E n \in S : \A m \in S : n <= m
<1>1. PICK n \in S : \A m \in S : <<m, n>> \notin OpToRel(<, Nat)
  BY WFMin, NatLessThanWellFounded, Zenon
<1>2. ASSUME NEW m \in S PROVE n <= m
  <2>1. <<m, n>> \notin OpToRel(<, Nat)
    BY <1>1
  <2>2. m \in Nat /\ n \in Nat
    OBVIOUS
  <2>3. ~(m < n)
    BY <2>1, <2>2, Zenon DEF OpToRel
  <2> QED BY <2>2, <2>3
<1> QED BY <1>2

(* The recursive function by which FlattenSeq is defined. *)
IsFlat(f, c, len) ==
  f = [i \in 1 .. len |-> IF i = 1 THEN c[i] ELSE f[i - 1] \o c[i]]

LEMMA FlatExists ==
  ASSUME NEW c, NEW len \in Nat
  PROVE  \E f : IsFlat(f, c, len)
<1> DEFINE Bad == {n \in Nat : ~\E g : IsFlat(g, c, n)}
<1>1. Bad = {}
  <2>1. SUFFICES ASSUME Bad # {} PROVE FALSE
    OBVIOUS
  <2>2. PICK n \in Bad : \A m \in Bad : n <= m
    <3>1. Bad \subseteq Nat
      OBVIOUS
    <3> HIDE DEF Bad
    <3> QED BY <2>1, <3>1, HasLeast
  <2>3. n \in Nat /\ ~\E g : IsFlat(g, c, n)
    OBVIOUS
  <2>4. CASE n = 0
    <3> DEFINE g == [i \in 1 .. 0 |-> c[i]]
    <3>1. IsFlat(g, c, 0)
      BY DEF IsFlat
    <3> QED BY <2>3, <2>4, <3>1
  <2>5. CASE n # 0
    <3>1. n - 1 \in Nat /\ n - 1 \notin Bad
      <4>1. n - 1 \in Nat /\ ~(n <= n - 1)
        BY <2>3, <2>5
      <4> HIDE DEF Bad
      <4> QED BY <2>2, <4>1
    <3>2. PICK f : IsFlat(f, c, n - 1)
      BY <3>1
    <3> DEFINE Step(h, i) == IF i = 1 THEN c[i] ELSE h[i - 1] \o c[i]
               g == [i \in 1 .. n |-> IF i = n THEN Step(f, n) ELSE f[i]]
    <3> HIDE DEF Step
    <3>3. \A i \in 1 .. n - 1 : f[i] = Step(f, i)
      BY <3>2 DEF IsFlat, Step
    <3>4. \A i \in 1 .. n - 1 : g[i] = f[i]
      BY <2>3, <2>5
    <3>5. g[n] = Step(f, n)
      BY <2>3, <2>5
    <3>6. \A i \in 1 .. n : Step(g, i) = Step(f, i)
      <4>1. \A i \in 1 .. n : i # 1 => i - 1 \in 1 .. n - 1
        BY <2>3
      <4> HIDE DEF g
      <4> QED BY <3>4, <4>1 DEF Step
    <3>7. \A i \in 1 .. n : g[i] = Step(g, i)
      <4>1. \A i \in 1 .. n : i = n \/ i \in 1 .. n - 1
        BY <2>3
      <4> HIDE DEF g
      <4> QED BY <3>3, <3>4, <3>5, <3>6, <4>1
    <3>8. g = [i \in 1 .. n |-> g[i]]
      OBVIOUS
    <3> HIDE DEF g
    <3>9. IsFlat(g, c, n)
      BY <3>7, <3>8 DEF IsFlat, Step
    <3> QED BY <2>3, <3>9
  <2> QED BY <2>4, <2>5
<1> QED BY <1>1

(* Two such functions agree where their sequences do. *)
LEMMA FlatAgree ==
  ASSUME NEW c, NEW d, NEW f, NEW g, NEW m \in Nat, NEW n \in Nat, NEW k \in Nat,
         IsFlat(f, c, m), IsFlat(g, d, n), k <= m, k <= n,
         \A i \in 1 .. k : c[i] = d[i]
  PROVE  \A i \in 1 .. k : f[i] = g[i]
<1> DEFINE Bad == {i \in 1 .. k : f[i] # g[i]}
<1>1. SUFFICES ASSUME Bad # {} PROVE FALSE
  OBVIOUS
<1>2. PICK i \in Bad : \A j \in Bad : i <= j
  <2>1. Bad \subseteq Nat
    OBVIOUS
  <2> HIDE DEF Bad
  <2> QED BY <1>1, <2>1, HasLeast
<1>3. i \in 1 .. k /\ f[i] # g[i]
  OBVIOUS
<1>4. i # 1 => f[i - 1] = g[i - 1]
  <2>1. i # 1 => i - 1 \in 1 .. k /\ ~(i <= i - 1)
    BY <1>3
  <2> QED BY <1>2, <2>1
<1>5. /\ f[i] = IF i = 1 THEN c[i] ELSE f[i - 1] \o c[i]
      /\ g[i] = IF i = 1 THEN d[i] ELSE g[i - 1] \o d[i]
  <2>1. i \in 1 .. m /\ i \in 1 .. n
    BY <1>3
  <2> QED BY <2>1 DEF IsFlat
<1>6. c[i] = d[i]
  BY <1>3
<1> QED BY <1>3, <1>4, <1>5, <1>6

LEMMA FlatIs ==
  ASSUME NEW c, Len(c) \in Nat, Len(c) # 0
  PROVE  \E f : IsFlat(f, c, Len(c)) /\ FlattenSeq(c) = f[Len(c)]
<1> DEFINE F == CHOOSE f : f = [i \in 1 .. Len(c) |-> IF i = 1 THEN c[i] ELSE f[i - 1] \o c[i]]
<1>1. IsFlat(F, c, Len(c))
  BY Zenon, FlatExists DEF IsFlat
<1>2. FlattenSeq(c) = F[Len(c)]
  BY DEF FlattenSeq
<1> HIDE DEF F
<1> QED BY <1>1, <1>2

LEMMA FlatEmpty == FlattenSeq(<<>>) = <<>>
BY DEF FlattenSeq

(* The last sequence comes last. *)
LEMMA FlatAppend ==
  ASSUME NEW S, NEW c \in Seq(S), NEW p \in S
  PROVE  FlattenSeq(Append(c, p)) = IF c = <<>> THEN p ELSE FlattenSeq(c) \o p
<1> DEFINE d == Append(c, p)
<1>1. /\ Len(d) = Len(c) + 1 /\ Len(c) \in Nat
      /\ d[Len(c) + 1] = p /\ \A i \in 1 .. Len(c) : d[i] = c[i]
  OBVIOUS
<1>2. PICK g : IsFlat(g, d, Len(d)) /\ FlattenSeq(d) = g[Len(d)]
  <2> HIDE DEF d
  <2> QED BY <1>1, FlatIs
<1>3. g[Len(d)] = IF Len(d) = 1 THEN d[Len(d)] ELSE g[Len(d) - 1] \o d[Len(d)]
  <2>1. Len(d) \in 1 .. Len(d)
    BY <1>1
  <2> HIDE DEF d
  <2> QED BY <1>2, <2>1 DEF IsFlat
<1>4. CASE c = <<>>
  BY <1>1, <1>2, <1>3, <1>4
<1>5. CASE c # <<>>
  <2>1. Len(c) # 0 /\ Len(d) # 1 /\ Len(d) - 1 = Len(c)
    BY <1>1, <1>5
  <2>2. PICK f : IsFlat(f, c, Len(c)) /\ FlattenSeq(c) = f[Len(c)]
    BY <1>1, <2>1, FlatIs
  <2>3. \A i \in 1 .. Len(c) : f[i] = g[i]
    <3>1. Len(d) \in Nat /\ Len(c) <= Len(c) /\ Len(c) <= Len(d)
      BY <1>1
    <3>2. \A i \in 1 .. Len(c) : c[i] = d[i]
      BY <1>1
    <3>3. Len(c) \in Nat /\ IsFlat(f, c, Len(c)) /\ IsFlat(g, d, Len(d))
      BY <1>1, <1>2, <2>2
    <3> HIDE DEF d
    <3>4. \A m, n, k \in Nat :
            /\ IsFlat(f, c, m) /\ IsFlat(g, d, n) /\ k <= m /\ k <= n
            /\ \A i \in 1 .. k : c[i] = d[i]
            => \A i \in 1 .. k : f[i] = g[i]
      BY FlatAgree, SMTT(20)
    <3> QED BY <3>1, <3>2, <3>3, <3>4, Zenon
  <2>4. f[Len(c)] = g[Len(c)]
    BY <1>1, <2>1, <2>3
  <2> HIDE DEF d
  <2>5. FlattenSeq(d) = FlattenSeq(c) \o p
    BY <1>1, <1>2, <1>3, <2>1, <2>2, <2>4
  <2> QED BY <1>5, <2>5 DEF d
<1> QED BY <1>4, <1>5

LEMMA FlatType ==
  ASSUME NEW S, NEW c \in Seq(Seq(S))
  PROVE  FlattenSeq(c) \in Seq(S)
<1> DEFINE Bad == {n \in Nat : \E d \in Seq(Seq(S)) : Len(d) = n /\ FlattenSeq(d) \notin Seq(S)}
<1>1. SUFFICES ASSUME FlattenSeq(c) \notin Seq(S) PROVE FALSE
  OBVIOUS
<1>2. Len(c) \in Bad
  BY <1>1
<1>3. PICK n \in Bad : \A m \in Bad : n <= m
  <2>1. Bad \subseteq Nat /\ Bad # {}
    BY <1>2
  <2> HIDE DEF Bad
  <2> QED BY <2>1, HasLeast
<1>4. PICK d \in Seq(Seq(S)) : Len(d) = n /\ FlattenSeq(d) \notin Seq(S)
  OBVIOUS
<1>5. d # <<>>
  BY <1>4, FlatEmpty
<1>6. PICK e \in Seq(Seq(S)), p \in Seq(S) : d = Append(e, p)
  BY <1>5, SequenceEmptyOrAppend
<1>7. Len(e) \in Nat /\ n = Len(e) + 1
  BY <1>4, <1>6
<1>8. FlattenSeq(e) \in Seq(S)
  <2>1. Len(e) \notin Bad
    <3>1. ~(n <= Len(e))
      BY <1>7
    <3> HIDE DEF Bad
    <3> QED BY <1>3, <3>1
  <2> QED BY <1>7, <2>1
<1>9. FlattenSeq(d) \in Seq(S)
  BY <1>6, <1>8, FlatAppend, ConcatProperties
<1> QED BY <1>4, <1>9

(* A sequence may be cut anywhere. *)
LEMMA FlatSplit ==
  ASSUME NEW S, NEW c \in Seq(Seq(S)), NEW n \in 0 .. Len(c)
  PROVE  FlattenSeq(SubSeq(c, 1, n)) \o FlattenSeq(SubSeq(c, n + 1, Len(c))) = FlattenSeq(c)
<1> DEFINE L(m) == SubSeq(c, 1, m)
           R(m) == SubSeq(c, n + 1, m)
           Good(m) == FlattenSeq(L(n)) \o FlattenSeq(R(m)) = FlattenSeq(L(m))
           Bad == {m \in n .. Len(c) : ~Good(m)}
<1>0. \A x, y, z \in Seq(S) : (x \o y) \o z = x \o (y \o z)
  BY SMTT(20)
<1>1. \A m \in n .. Len(c) : L(m) \in Seq(Seq(S)) /\ R(m) \in Seq(Seq(S))
  <2>1. \A i \in 1 .. Len(c) : c[i] \in Seq(S)
    OBVIOUS
  <2> QED BY <2>1, SubSeqProperties
<1>2. \A m \in n .. Len(c) : FlattenSeq(L(m)) \in Seq(S) /\ FlattenSeq(R(m)) \in Seq(S)
  BY <1>1, FlatType
<1>3. Bad = {}
  <2>1. SUFFICES ASSUME Bad # {} PROVE FALSE
    OBVIOUS
  <2>2. PICK m \in Bad : \A j \in Bad : m <= j
    <3>1. Bad \subseteq Nat
      OBVIOUS
    <3> HIDE DEF Bad
    <3> QED BY <2>1, <3>1, HasLeast
  <2>3. m \in n .. Len(c) /\ ~Good(m)
    OBVIOUS
  <2>4. m # n
    <3>1. R(n) = <<>>
      BY SubSeqEmpty
    <3>2. Good(n)
      <4>1. FlattenSeq(L(n)) \in Seq(S)
        BY <1>2
      <4> HIDE DEF L, R
      <4> QED BY <3>1, <4>1, FlatEmpty, ConcatEmptySeq
    <3> QED BY <2>3, <3>2
  <2>5. m - 1 \in n .. Len(c) /\ m \in 1 .. Len(c) /\ ~(m <= m - 1)
    BY <2>3, <2>4
  <2>6. Good(m - 1)
    <3>1. m - 1 \notin Bad
      <4> HIDE DEF Bad
      <4> QED BY <2>2, <2>5
    <3> QED BY <2>5, <3>1
  <2>7. L(m) = Append(L(m - 1), c[m]) /\ R(m) = Append(R(m - 1), c[m]) /\ c[m] \in Seq(S)
    <3>1. c[m] \in Seq(S)
      BY <2>5
    <3>2. L(m) = L(m - 1) \o <<c[m]>>
      BY <2>5, SubSeqRecursiveSecond
    <3>3. R(m) = R(m - 1) \o <<c[m]>>
      <4>1. n + 1 \in 1 .. Len(c) /\ m \in n + 1 .. Len(c)
        BY <2>3, <2>4
      <4> QED BY <4>1, SubSeqRecursiveSecond
    <3>4. L(m - 1) \in Seq(Seq(S)) /\ R(m - 1) \in Seq(Seq(S))
      BY <1>1, <2>5
    <3> HIDE DEF L, R
    <3> QED BY <3>1, <3>2, <3>3, <3>4, AppendIsConcat
  <2> DEFINE a == FlattenSeq(L(n))
             b == FlattenSeq(R(m - 1))
             w == FlattenSeq(L(m - 1))
  <2>8. a \in Seq(S) /\ b \in Seq(S) /\ w \in Seq(S) /\ a \o b = w
    <3>1. a \o b = w
      BY <2>6
    <3>2. n \in n .. Len(c)
      OBVIOUS
    <3> HIDE DEF L, R, Good
    <3> QED BY <1>2, <2>3, <2>5, <3>1, <3>2
  <2>9. FlattenSeq(L(m)) = w \o c[m] /\ FlattenSeq(R(m)) = b \o c[m]
    <3>1. FlattenSeq(L(m)) = IF L(m - 1) = <<>> THEN c[m] ELSE w \o c[m]
      <4>1. L(m - 1) \in Seq(Seq(S))
        BY <1>1, <2>5
      <4> HIDE DEF L
      <4>2. FlattenSeq(Append(L(m - 1), c[m])) = IF L(m - 1) = <<>> THEN c[m] ELSE FlattenSeq(L(m - 1)) \o c[m]
        BY <2>7, <4>1, Zenon, FlatAppend
      <4> QED BY <2>7, <4>2
    <3>2. FlattenSeq(R(m)) = IF R(m - 1) = <<>> THEN c[m] ELSE b \o c[m]
      <4>1. R(m - 1) \in Seq(Seq(S))
        BY <1>1, <2>5
      <4> HIDE DEF R
      <4>2. FlattenSeq(Append(R(m - 1), c[m])) = IF R(m - 1) = <<>> THEN c[m] ELSE FlattenSeq(R(m - 1)) \o c[m]
        BY <2>7, <4>1, Zenon, FlatAppend
      <4> QED BY <2>7, <4>2
    <3>3. <<>> \o c[m] = c[m]
      BY <2>7, ConcatEmptySeq
    <3> HIDE DEF L, R
    <3> QED BY <3>1, <3>2, <3>3, FlatEmpty
  <2>10. a \o (b \o c[m]) = w \o c[m]
    <3>1. c[m] \in Seq(S)
      BY <2>7
    <3> HIDE DEF a, b, w
    <3>2. (a \o b) \o c[m] = a \o (b \o c[m])
      BY <1>0, <2>8, <3>1, ZenonT(40)
    <3>3. a \o b = w
      BY <2>8
    <3> QED BY <3>2, <3>3, Zenon
  <2> HIDE DEF L, R
  <2> QED BY <2>3, <2>9, <2>10
<1>4. Good(Len(c))
  <2>1. Len(c) \in n .. Len(c)
    OBVIOUS
  <2> HIDE DEF Good
  <2> QED BY <1>3, <2>1
<1>5. L(Len(c)) = c
  BY SubSeqFull
<1> HIDE DEF L, R
<1>6. FlattenSeq(L(n)) \o FlattenSeq(R(Len(c))) = FlattenSeq(c)
  BY <1>4, <1>5
<1> QED BY <1>6 DEF L, R


(***************************************************************************)
(* Network assets: the inductive invariant.                                *)
(***************************************************************************)
StoreType == [asset : [Kind -> Seq(Name)], eye : Covenant, root : Nat, ok : BOOLEAN]
SnapshotType == [assets : UNION {[K -> Seq(Name)] : K \in SUBSET Kind}, eye : Covenant]

AssetTypes ==
  /\ chain \in Seq(Seq(Name)) /\ pool \in Seq(Name)
  /\ row \in [Kind -> Row] /\ \A k \in Kind : row[k].status = "none" <=> row[k].tx = <<>>
  /\ doing \in ((1 .. 3) \X (1 .. 4)) \cup {<<4, 1>>}
  /\ eye \in Covenant
  /\ store \in [Member -> StoreType] /\ \A m \in Member : store[m].ok
  /\ inbox \in [Member -> SnapshotType \cup {NoSnapshot}]
  /\ occurred \in 0 .. MaxChanges /\ locked \subseteq Member

(* Where an asset was issued, its row has the transactions up to there.    *)
(* That there is one place only follows; that an issuance recorded anew    *)
(* has no other place, too.                                                *)
IssuedOnce ==
  \A k \in Kind : \A n \in DOMAIN Coin : Coin[n] = k => row[k].tx = SubSeq(Coin, 1, n)

(* What is on the way to a member, or with it, is what the rows have. *)
Sent ==
  \A m \in Member : inbox[m] # NoSnapshot =>
    \A k \in DOMAIN inbox[m].assets : inbox[m].assets[k] = row[k].tx /\ row[k].tx # <<>>

Kept == \A m \in Member, k \in Kind : Holds(m, k) => store[m].asset[k] = row[k].tx

(* An asset is recorded before it is broadcast, activated and announced. *)
Recorded == ~Running /\ doing[2] # 1 => row[Current].status # "none"

AssetsInv == AssetTypes /\ IssuedOnce /\ Sent /\ Kept /\ Recorded

(* The coin is a sequence of names. *)
LEMMA CoinType ==
  ASSUME AssetTypes
  PROVE  Confirmed \in Seq(Name) /\ Coin \in Seq(Name)
BY FlatType, ConcatProperties DEF AssetTypes, Confirmed, Coin

LEMMA CurrentIs ==
  ASSUME AssetTypes, ~Running
  PROVE  Current \in Kind
<1>1. doing[1] \in 1 .. 3
  BY DEF AssetTypes, Running, Order
<1> QED BY <1>1 DEF Current, Order, Kind

LEMMA AdvanceIs ==
  ASSUME AssetTypes, ~Running, Advance
  PROVE  /\ doing' \in ((1 .. 3) \X (1 .. 4)) \cup {<<4, 1>>}
         /\ doing'[2] = 1 \/ Current' = Current
<1>1. doing \in (1 .. 3) \X (1 .. 4)
  BY DEF AssetTypes, Running, Order
<1>2. Len(Steps) = 4
  BY DEF Steps
<1>3. doing[1] \in 1 .. 3 /\ doing[2] \in 1 .. 4
  BY <1>1
<1>4. CASE doing[2] = 4
  BY <1>2, <1>3, <1>4 DEF Advance
<1>5. CASE doing[2] # 4
  BY <1>2, <1>3, <1>5 DEF Advance, Current
<1> QED BY <1>4, <1>5

(* What leaves the coin and the rows alone keeps what is said of them. *)
LEMMA SameCoin ==
  ASSUME IssuedOnce, Coin' = Coin, row' = row
  PROVE  IssuedOnce'
BY DEF IssuedOnce

LEMMA StaysRecorded ==
  ASSUME AssetTypes, ~Running, Advance, row'[Current].status # "none"
  PROVE  Recorded'
BY AdvanceIs DEF Recorded

(* What is done with an asset after it was recorded. *)
LEMMA WasRecorded ==
  ASSUME AssetTypes, Recorded, NEW i \in 2 .. 4, At(Steps[i])
  PROVE  row[Current].status # "none"
<1>1. ~Running /\ Steps[doing[2]] = Steps[i]
  BY DEF At
<1>2. doing[2] \in 1 .. 4
  BY <1>1 DEF AssetTypes, Running, Order
<1>3. doing[2] # 1
  BY <1>1, <1>2 DEF Steps
<1> QED BY <1>1, <1>3 DEF Recorded

LEMMA Beside ==
  ASSUME Sent, Kept, UNCHANGED <<row, store, inbox>>
  PROVE  Sent' /\ Kept'
BY DEF Sent, Kept, Holds

(* A coin that gets one more transaction. *)
LEMMA CoinGrows ==
  ASSUME AssetTypes, NEW k \in Name, chain' = chain, pool' = Append(pool, k)
  PROVE  pool' \in Seq(Name) /\ Coin' = Append(Coin, k)
<1>1. pool \in Seq(Name) /\ Confirmed \in Seq(Name)
  BY CoinType DEF AssetTypes
<1>2. Confirmed' = Confirmed
  BY DEF Confirmed
<1>3. Confirmed \o Append(pool, k) = Append(Confirmed \o pool, k)
  <2> DEFINE l == Confirmed \o Append(pool, k)
             r == Append(Confirmed \o pool, k)
  <2>1. l \in Seq(Name) /\ r \in Seq(Name) /\ Len(l) = Len(r)
    BY <1>1
  <2>2. \A i \in 1 .. Len(l) : l[i] = r[i]
    BY <1>1
  <2> HIDE DEF l, r
  <2>3. l = r
    BY <2>1, <2>2, SeqEqual
  <2> QED BY <2>3 DEF l, r
<1> QED BY <1>1, <1>2, <1>3 DEF Coin

(***************************************************************************)
(* The coordinator.                                                        *)
(***************************************************************************)
LEMMA InitAssetsInv == ASSUME InitAssets PROVE AssetsInv
<1> USE DEF InitAssets
<1>1. Coin = <<>>
  BY FlatEmpty DEF Coin, Confirmed
<1>2. IssuedOnce
  BY <1>1 DEF IssuedOnce
<1>3. Sent /\ Kept /\ Recorded
  BY DEF Sent, Kept, Holds, Recorded
<1>4. AssetTypes
  <2>1. NoRow \in Row /\ NoRow.status = "none" /\ NoRow.tx = <<>>
    BY DEF NoRow, Row, Name
  <2>2. [asset |-> [k \in Kind |-> <<>>], eye |-> Genesis, root |-> 0, ok |-> TRUE] \in StoreType
    BY DEF StoreType, Genesis, Covenant
  <2>3. Genesis \in Covenant
    BY DEF Genesis, Covenant
  <2>4. chain \in Seq(Seq(Name)) /\ pool \in Seq(Name)
    BY EmptySeq
  <2>5. row \in [Kind -> Row] /\ \A k \in Kind : row[k].status = "none" <=> row[k].tx = <<>>
    BY <2>1
  <2>6. inbox \in [Member -> SnapshotType \cup {NoSnapshot}] /\ occurred \in 0 .. MaxChanges
    BY ChangesAssumption
  <2>7. store \in [Member -> StoreType] /\ \A m \in Member : store[m].ok
    BY <2>2
  <2>8. doing \in (1 .. 3) \X (1 .. 4) /\ eye \in Covenant /\ locked \subseteq Member
    BY <2>3
  <2> QED BY <2>4, <2>5, <2>6, <2>7, <2>8 DEF AssetTypes
<1> QED BY <1>2, <1>3, <1>4 DEF AssetsInv

LEMMA EnsureInv == ASSUME AssetsInv, Ensure PROVE AssetsInv'
<1> DEFINE k == Current
           new == [status |-> "pending", tx |-> Append(Coin, k), created |-> Len(chain)]
<1>1. k \in Kind /\ doing' \in ((1 .. 3) \X (1 .. 4)) \cup {<<4, 1>>}
  BY CurrentIs, AdvanceIs DEF AssetsInv, Ensure, At
<1>2. Coin' = Coin
  BY DEF Ensure, Coin, Confirmed
<1>3. Coin \in Seq(Name) /\ k \in Name
  BY <1>1, CoinType DEF AssetsInv, Name
<1>4. new \in Row /\ new.tx # <<>> /\ new.status = "pending"
  <2>1. Len(chain) \in Nat
    BY DEF AssetsInv, AssetTypes
  <2>2. Append(Coin, k) \in Seq(Name) /\ Append(Coin, k) # <<>>
    BY <1>3, AppendProperties
  <2> HIDE DEF k
  <2> QED BY <2>1, <2>2 DEF Row
<1>7. ASSUME row'[k].status # "none" PROVE Recorded'
  BY <1>7, StaysRecorded DEF AssetsInv, Ensure, At
<1>5. CASE row[k].status # "none"
  <2>1. row' = row
    BY <1>5 DEF Ensure
  <2>2. IssuedOnce' /\ Sent' /\ Kept' /\ Recorded'
    BY <1>2, <1>5, <1>7, <2>1, SameCoin, Beside DEF AssetsInv, Ensure
  <2>3. AssetTypes'
    BY <1>1, <2>1 DEF AssetsInv, AssetTypes, Ensure
  <2> QED BY <2>2, <2>3 DEF AssetsInv
<1>6. CASE row[k].status = "none"
  <2>1. row' = [row EXCEPT ![k] = new]
    BY <1>6 DEF Ensure, Prepared, PrepareStormEye, PrepareReissuable, Pending
  <2>2. row[k].tx = <<>> /\ row \in [Kind -> Row]
    BY <1>1, <1>6 DEF AssetsInv, AssetTypes
  <2>3. row'[k] = new /\ \A j \in Kind : j # k => row'[j] = row[j]
    <3> HIDE DEF k, new
    <3> QED BY <1>1, <2>1, <2>2
  <2>7. Recorded'
    BY <1>4, <1>7, <2>3
  <2> HIDE DEF k, new
  <2>4. AssetTypes'
    <3>1. row' \in [Kind -> Row]
      BY <1>4, <2>1, <2>2
    <3>2. \A j \in Kind : row'[j].status = "none" <=> row'[j].tx = <<>>
      BY <1>4, <2>3 DEF AssetsInv, AssetTypes
    <3> QED BY <1>1, <3>1, <3>2 DEF AssetsInv, AssetTypes, Ensure
  <2>5. IssuedOnce'
    <3>1. \A n \in DOMAIN Coin : SubSeq(Coin, 1, n) # <<>>
      <4>1. \A n \in DOMAIN Coin : Len(SubSeq(Coin, 1, n)) = n /\ n # 0
        BY <1>3
      <4> QED BY <4>1
    <3>2. \A n \in DOMAIN Coin : Coin[n] # k
      BY <1>1, <2>2, <3>1 DEF AssetsInv, IssuedOnce
    <3> QED BY <1>2, <2>3, <3>2 DEF AssetsInv, IssuedOnce
  <2>6. Sent' /\ Kept'
    <3>1. UNCHANGED <<inbox, store>>
      BY DEF Ensure
    <3>2. Sent'
      <4> SUFFICES ASSUME NEW m \in Member, inbox[m] # NoSnapshot, NEW j \in DOMAIN inbox[m].assets
                   PROVE  inbox[m].assets[j] = row'[j].tx /\ row'[j].tx # <<>>
        BY <3>1 DEF Sent
      <4>1. inbox[m].assets[j] = row[j].tx /\ row[j].tx # <<>>
        BY DEF AssetsInv, Sent
      <4>2. j \in Kind
        <5>1. inbox[m] \in SnapshotType
          BY DEF AssetsInv, AssetTypes
        <5> QED BY <5>1 DEF SnapshotType
      <4> QED BY <2>2, <2>3, <4>1, <4>2
    <3>3. Kept'
      BY <2>2, <2>3, <3>1 DEF AssetsInv, Kept, Holds
    <3> QED BY <3>2, <3>3
  <2> QED BY <2>4, <2>5, <2>6, <2>7 DEF AssetsInv
<1> QED BY <1>5, <1>6

LEMMA BroadcastInv == ASSUME AssetsInv, Broadcast PROVE AssetsInv'
<1> DEFINE k == Current
<1>1. k \in Kind /\ doing' \in ((1 .. 3) \X (1 .. 4)) \cup {<<4, 1>>}
  BY CurrentIs, AdvanceIs DEF AssetsInv, Broadcast, At
<1>2. Sent' /\ Kept' /\ Recorded'
  <2>1. row[Current].status # "none"
    BY WasRecorded DEF AssetsInv, Broadcast, Steps
  <2>2. Recorded'
    BY <2>1, StaysRecorded DEF AssetsInv, Broadcast, At
  <2> QED BY <2>2, Beside DEF AssetsInv, Broadcast
<1>3. UNCHANGED <<chain, row, eye, store, inbox, occurred, locked>>
  BY DEF Broadcast
<1>4. CASE UNCHANGED pool
  <2>1. Coin' = Coin
    BY <1>3, <1>4 DEF Coin, Confirmed
  <2>2. IssuedOnce'
    BY <1>3, <2>1, SameCoin DEF AssetsInv
  <2>3. AssetTypes'
    BY <1>1, <1>3, <1>4 DEF AssetsInv, AssetTypes
  <2> QED BY <1>2, <2>2, <2>3 DEF AssetsInv
<1>5. CASE row[k].tx = Append(Coin, k) /\ pool' = Append(pool, k)
  <2>1. Coin \in Seq(Name) /\ k \in Name
    BY <1>1, CoinType DEF AssetsInv, Name
  <2> HIDE DEF k
  <2>2. pool' \in Seq(Name) /\ Coin' = Append(Coin, k)
    BY <1>3, <1>5, <2>1, CoinGrows DEF AssetsInv
  <2>3. AssetTypes'
    BY <1>1, <1>3, <2>2 DEF AssetsInv, AssetTypes
  <2>4. IssuedOnce'
    <3> SUFFICES ASSUME NEW j \in Kind, NEW n \in DOMAIN Append(Coin, k), Append(Coin, k)[n] = j
                 PROVE  row[j].tx = SubSeq(Append(Coin, k), 1, n)
      BY <1>3, <2>2 DEF IssuedOnce
    <3>1. n \in 1 .. Len(Coin) + 1
      BY <2>1
    <3>2. CASE n = Len(Coin) + 1
      <4>1. j = k
        BY <2>1, <3>2
      <4>2. SubSeq(Append(Coin, k), 1, n) = Append(Coin, k)
        BY <2>1, <3>2, SubSeqFull, AppendProperties
      <4> QED BY <1>5, <4>1, <4>2
    <3>3. CASE n # Len(Coin) + 1
      <4>1. n \in 1 .. Len(Coin) /\ Coin[n] = j
        BY <2>1, <3>1, <3>3
      <4>2. row[j].tx = SubSeq(Coin, 1, n)
        BY <2>1, <4>1 DEF AssetsInv, IssuedOnce
      <4>3. SubSeq(Append(Coin, k), 1, n) = SubSeq(Coin, 1, n)
        BY <2>1, <4>1
      <4> QED BY <4>2, <4>3
    <3> QED BY <3>2, <3>3
  <2> QED BY <1>2, <2>3, <2>4 DEF AssetsInv
<1> QED BY <1>4, <1>5 DEF Broadcast

LEMMA ActivateInv == ASSUME AssetsInv, Activate PROVE AssetsInv'
<1> DEFINE k == Current
<1>1. k \in Kind /\ doing' \in ((1 .. 3) \X (1 .. 4)) \cup {<<4, 1>>}
  BY CurrentIs, AdvanceIs DEF AssetsInv, Activate, At
<1>2. row[k].status # "none"
  BY WasRecorded DEF AssetsInv, Activate, Steps
<1>3. row' = [row EXCEPT ![k].status = "active"] /\ row \in [Kind -> Row]
  BY DEF Activate, AssetsInv, AssetTypes
<1>4. Coin' = Coin
  BY DEF Activate, Coin, Confirmed
<1>5. Recorded'
  <2>1. row'[k].status = "active"
    <3> HIDE DEF k
    <3> QED BY <1>1, <1>3 DEF Row
  <2> QED BY <2>1, StaysRecorded DEF AssetsInv, Activate, At
<1> HIDE DEF k
<1>6. \A j \in Kind : /\ row'[j].tx = row[j].tx /\ row'[j] \in Row
                      /\ row'[j].status = "none" <=> row[j].status = "none"
  BY <1>1, <1>2, <1>3 DEF Row
<1>7. AssetTypes'
  <2>1. row' \in [Kind -> Row]
    BY <1>3, <1>6
  <2> QED BY <1>1, <1>6, <2>1 DEF AssetsInv, AssetTypes, Activate
<1>8. IssuedOnce'
  BY <1>4, <1>6 DEF AssetsInv, IssuedOnce
<1>9. Kept'
  BY <1>6 DEF AssetsInv, Kept, Holds, Activate
<1>10. Sent'
  <2> SUFFICES ASSUME NEW m \in Member, inbox[m] # NoSnapshot, NEW j \in DOMAIN inbox[m].assets
               PROVE  inbox[m].assets[j] = row'[j].tx /\ row'[j].tx # <<>>
    BY DEF Sent, Activate
  <2>1. inbox[m] \in SnapshotType
    BY DEF AssetsInv, AssetTypes
  <2>2. j \in Kind
    BY <2>1 DEF SnapshotType
  <2> QED BY <1>6, <2>2 DEF AssetsInv, Sent
<1> QED BY <1>5, <1>7, <1>8, <1>9, <1>10 DEF AssetsInv

(* A snapshot is of what the rows have. *)
LEMMA SnapshotIs ==
  ASSUME AssetTypes
  PROVE  /\ Snapshot \in SnapshotType
         /\ \A k \in DOMAIN Snapshot.assets :
              Snapshot.assets[k] = row[k].tx /\ row[k].tx # <<>>
<1>1. Active \in SUBSET Kind
  BY DEF Active
<1>2. \A k \in Active : row[k].tx \in Seq(Name) /\ row[k].tx # <<>>
  <2> SUFFICES ASSUME NEW k \in Active
               PROVE  row[k].tx \in Seq(Name) /\ row[k].tx # <<>>
    OBVIOUS
  <2>1. k \in Kind /\ row[k].status = "active"
    BY DEF Active
  <2>2. row[k] \in Row
    BY <2>1 DEF AssetTypes
  <2> QED BY <2>1, <2>2 DEF AssetTypes, Row
<1> DEFINE as == [k \in Active |-> row[k].tx]
<1>3. as \in [Active -> Seq(Name)]
  BY <1>2
<1>4. Snapshot = [assets |-> as, eye |-> eye]
  BY DEF Snapshot
<1>5. as \in UNION {[K -> Seq(Name)] : K \in SUBSET Kind}
  <2> HIDE DEF as
  <2> QED BY <1>1, <1>3
<1>6. DOMAIN as = Active /\ \A k \in Active : as[k] = row[k].tx
  OBVIOUS
<1> HIDE DEF as
<1>7. eye \in Covenant
  BY DEF AssetTypes
<1> QED BY <1>2, <1>4, <1>5, <1>6, <1>7 DEF SnapshotType

(* Every member is sent one. *)
LEMMA Announced ==
  ASSUME AssetsInv, inbox' = [m \in Member |-> Snapshot], UNCHANGED row
  PROVE  Sent' /\ inbox' \in [Member -> SnapshotType \cup {NoSnapshot}]
<1>1. Snapshot \in SnapshotType
  BY SnapshotIs DEF AssetsInv
<1>2. \A k \in DOMAIN Snapshot.assets : Snapshot.assets[k] = row[k].tx /\ row[k].tx # <<>>
  BY SnapshotIs DEF AssetsInv
<1> QED BY <1>1, <1>2 DEF Sent

LEMMA AnnounceInv == ASSUME AssetsInv, Announce PROVE AssetsInv'
<1>1. doing' \in ((1 .. 3) \X (1 .. 4)) \cup {<<4, 1>>}
  BY AdvanceIs DEF AssetsInv, Announce, At
<1>2. Recorded'
  <2>1. row[Current].status # "none"
    BY WasRecorded DEF AssetsInv, Announce, Steps
  <2> QED BY <2>1, StaysRecorded DEF AssetsInv, Announce, At
<1>3. Sent' /\ inbox' \in [Member -> SnapshotType \cup {NoSnapshot}]
  BY Announced DEF Announce
<1>4. IssuedOnce'
  BY SameCoin DEF AssetsInv, Announce, Coin, Confirmed
<1>5. Kept'
  BY DEF AssetsInv, Kept, Holds, Announce
<1>6. AssetTypes'
  BY <1>1, <1>3 DEF AssetsInv, AssetTypes, Announce
<1> QED BY <1>2, <1>3, <1>4, <1>5, <1>6 DEF AssetsInv

LEMMA ReannounceInv == ASSUME AssetsInv, Reannounce PROVE AssetsInv'
<1>1. Sent' /\ inbox' \in [Member -> SnapshotType \cup {NoSnapshot}]
  BY Announced DEF Reannounce
<1>2. IssuedOnce'
  BY SameCoin DEF AssetsInv, Reannounce, Coin, Confirmed
<1>3. Kept' /\ Recorded'
  BY DEF AssetsInv, Kept, Holds, Reannounce, Recorded, Running, Current
<1>4. AssetTypes'
  BY <1>1 DEF AssetsInv, AssetTypes, Reannounce
<1> QED BY <1>1, <1>2, <1>3, <1>4 DEF AssetsInv

LEMMA StopInv == ASSUME AssetsInv, Stop PROVE AssetsInv'
<1>1. IssuedOnce' /\ Sent' /\ Kept'
  BY SameCoin, Beside DEF AssetsInv, Stop, Coin, Confirmed
<1>2. Recorded'
  BY DEF Recorded, Stop
<1>3. occurred' \in 0 .. MaxChanges
  BY ChangesAssumption DEF Stop, Occurs, AssetsInv, AssetTypes
<1>4. AssetTypes'
  BY <1>3 DEF AssetsInv, AssetTypes, Stop
<1> QED BY <1>1, <1>2, <1>4 DEF AssetsInv

(***************************************************************************)
(* A member.                                                               *)
(***************************************************************************)
(* What is stored is of the rows. *)
Fits(s) == s \in StoreType /\ \A k \in Kind : s.asset[k] # <<>> => s.asset[k] = row[k].tx

LEMMA TakeFits ==
  ASSUME NEW s, Fits(s), NEW snapshot \in SnapshotType, NEW k \in Kind,
         \A j \in DOMAIN snapshot.assets : snapshot.assets[j] = row[j].tx
  PROVE  Fits(Take(s, snapshot, k))
<1>1. s \in StoreType
  BY DEF Fits
<1>2. CASE ~s.ok \/ k \notin DOMAIN snapshot.assets
  BY <1>2 DEF Take
<1>3. ASSUME NEW ok \in BOOLEAN PROVE Fits([s EXCEPT !.ok = ok])
  BY <1>1 DEF Fits, StoreType
<1>4. CASE ~(~s.ok \/ k \notin DOMAIN snapshot.assets) /\ s.asset[k] # <<>>
  <2>1. Same(s, snapshot, k) \in BOOLEAN
    BY DEF Same
  <2>2. Take(s, snapshot, k) = [s EXCEPT !.ok = Same(s, snapshot, k)]
    BY <1>4 DEF Take
  <2> QED BY <1>3, <2>1, <2>2
<1>5. CASE /\ ~(~s.ok \/ k \notin DOMAIN snapshot.assets) /\ ~(s.asset[k] # <<>>)
           /\ ~Verified(s, snapshot, k)
  <2>1. Take(s, snapshot, k) = [s EXCEPT !.ok = FALSE]
    BY <1>5 DEF Take
  <2> QED BY <1>3, <2>1
<1>6. CASE /\ ~(~s.ok \/ k \notin DOMAIN snapshot.assets) /\ ~(s.asset[k] # <<>>)
           /\ Verified(s, snapshot, k)
  <2>1. Take(s, snapshot, k) = Stored(s, snapshot, k)
    BY <1>6 DEF Take
  <2>2. snapshot.assets[k] \in Seq(Name) /\ snapshot.assets[k] = row[k].tx
    BY <1>6 DEF SnapshotType
  <2>3. snapshot.eye \in Covenant
    BY DEF SnapshotType
  <2> DEFINE r == Stored(s, snapshot, k)
  <2>4. r \in StoreType /\ r.asset = [s.asset EXCEPT ![k] = snapshot.assets[k]]
    BY <1>1, <2>2, <2>3 DEF Stored, StoreType
  <2>5. \A j \in Kind : r.asset[j] # <<>> => r.asset[j] = row[j].tx
    <3>1. s.asset \in [Kind -> Seq(Name)]
      BY <1>1 DEF StoreType
    <3> HIDE DEF r
    <3> QED BY <2>2, <2>4, <3>1 DEF Fits
  <2> HIDE DEF r
  <2>6. Fits(r)
    BY <2>4, <2>5 DEF Fits
  <2> QED BY <2>1, <2>6 DEF r
<1> QED BY <1>2, <1>4, <1>5, <1>6

LEMMA HandleAnnouncementInv ==
  ASSUME AssetsInv, NEW m \in Member, HandleAnnouncement(m)
  PROVE  AssetsInv'
<1> DEFINE snapshot == inbox[m]
           after == [Taken(store[m], snapshot) EXCEPT !.ok = TRUE]
<1>1. /\ inbox[m] # NoSnapshot
      /\ store' = [store EXCEPT ![m] = after] /\ inbox' = [inbox EXCEPT ![m] = NoSnapshot]
      /\ UNCHANGED <<chain, pool, row, doing, eye, occurred, locked>>
  BY DEF HandleAnnouncement
<1>2. snapshot \in SnapshotType /\ \A j \in DOMAIN snapshot.assets : snapshot.assets[j] = row[j].tx
  BY <1>1 DEF AssetsInv, AssetTypes, Sent
<1>3. Fits(store[m])
  BY DEF AssetsInv, AssetTypes, Kept, Holds, Fits
<1>4. Sorted[1] \in Kind /\ Sorted[2] \in Kind /\ Sorted[3] \in Kind
  BY DEF Sorted, Kind
<1>5. Fits(Taken(store[m], snapshot))
  <2> DEFINE first == Take(store[m], snapshot, Sorted[1])
             second == Take(first, snapshot, Sorted[2])
             third == Take(second, snapshot, Sorted[3])
  <2>1. Fits(first)
    BY <1>2, <1>3, <1>4, TakeFits
  <2>2. Fits(second)
    <3> HIDE DEF first
    <3> QED BY <1>2, <1>4, <2>1, TakeFits
  <2>3. Fits(third)
    <3> HIDE DEF first, second
    <3> QED BY <1>2, <1>4, <2>2, TakeFits
  <2> QED BY <2>3 DEF Taken
<1>6. after \in StoreType /\ after.ok /\ \A k \in Kind : after.asset[k] # <<>> => after.asset[k] = row[k].tx
  <2> DEFINE t == Taken(store[m], snapshot)
  <2> HIDE DEF t
  <2>1. Fits(t)
    BY <1>5 DEF t
  <2>2. after = [t EXCEPT !.ok = TRUE]
    BY DEF t
  <2> HIDE DEF after
  <2> QED BY <2>1, <2>2 DEF Fits, StoreType
<1> HIDE DEF after, snapshot
<1>7. IssuedOnce' /\ Recorded'
  BY <1>1, SameCoin DEF AssetsInv, Coin, Confirmed, Recorded, Running, Current
<1>8. Sent'
  BY <1>1 DEF AssetsInv, AssetTypes, Sent
<1>9. Kept'
  BY <1>1, <1>6 DEF AssetsInv, AssetTypes, Kept, Holds
<1>10. AssetTypes'
  BY <1>1, <1>6 DEF AssetsInv, AssetTypes
<1> QED BY <1>7, <1>8, <1>9, <1>10 DEF AssetsInv

LEMMA LoseSnapshotInv ==
  ASSUME AssetsInv, NEW m \in Member, LoseSnapshot(m)
  PROVE  AssetsInv'
<1>1. /\ inbox' = [inbox EXCEPT ![m] = NoSnapshot] /\ occurred' \in 0 .. MaxChanges
      /\ UNCHANGED <<chain, pool, row, doing, eye, store, locked>>
  BY ChangesAssumption DEF LoseSnapshot, Occurs, AssetsInv, AssetTypes
<1>2. IssuedOnce' /\ Recorded'
  BY <1>1, SameCoin DEF AssetsInv, Coin, Confirmed, Recorded, Running, Current
<1>3. Sent' /\ Kept'
  BY <1>1 DEF AssetsInv, AssetTypes, Sent, Kept, Holds
<1>4. AssetTypes'
  BY <1>1 DEF AssetsInv, AssetTypes
<1> QED BY <1>2, <1>3, <1>4 DEF AssetsInv


(***************************************************************************)
(* The Storm Eye changes.                                                  *)
(***************************************************************************)
LEMMA RenewInv == ASSUME AssetsInv, Renew PROVE AssetsInv'
<1>1. /\ occurred' \in 0 .. MaxChanges /\ locked' \subseteq Member
      /\ eye' = [eye EXCEPT !.renewals = @ + 1]
      /\ UNCHANGED <<chain, pool, row, doing, store, inbox>>
  BY ChangesAssumption DEF Renew, Occurs, AssetsInv, AssetTypes
<1>2. eye' \in Covenant
  <2>1. eye \in Covenant
    BY DEF AssetsInv, AssetTypes
  <2> QED BY <1>1, <2>1 DEF Covenant
<1>3. IssuedOnce' /\ Recorded' /\ Sent' /\ Kept'
  BY <1>1, SameCoin, Beside DEF AssetsInv, Coin, Confirmed, Recorded, Running, Current
<1>4. AssetTypes'
  BY <1>1, <1>2 DEF AssetsInv, AssetTypes
<1> QED BY <1>3, <1>4 DEF AssetsInv

LEMMA MigrateInv == ASSUME AssetsInv, Migrate PROVE AssetsInv'
<1>1. /\ occurred' \in 0 .. MaxChanges /\ locked' \subseteq Member
      /\ eye' = [eye EXCEPT !.root = @ + 1]
      /\ UNCHANGED <<chain, pool, row, doing, store, inbox>>
  BY ChangesAssumption DEF Migrate, Occurs, AssetsInv, AssetTypes
<1>2. eye' \in Covenant
  <2>1. eye \in Covenant
    BY DEF AssetsInv, AssetTypes
  <2> QED BY <1>1, <2>1 DEF Covenant
<1>3. IssuedOnce' /\ Recorded' /\ Sent' /\ Kept'
  BY <1>1, SameCoin, Beside DEF AssetsInv, Coin, Confirmed, Recorded, Running, Current
<1>4. AssetTypes'
  BY <1>1, <1>2 DEF AssetsInv, AssetTypes
<1> QED BY <1>3, <1>4 DEF AssetsInv

(* A member changes what it knows of the Storm Eye, not its assets. *)
LEMMA EyeOnly ==
  ASSUME AssetsInv, NEW m \in Member, NEW s \in StoreType, s.ok, s.asset = store[m].asset,
         store' = [store EXCEPT ![m] = s],
         UNCHANGED <<chain, pool, row, doing, eye, inbox, occurred, locked>>
  PROVE  AssetsInv'
<1>1. IssuedOnce' /\ Recorded' /\ Sent'
  BY SameCoin DEF AssetsInv, Coin, Confirmed, Recorded, Running, Current, Sent
<1>2. \A n \in Member : store'[n].asset = store[n].asset /\ store'[n] \in StoreType /\ store'[n].ok
  BY DEF AssetsInv, AssetTypes
<1>3. Kept'
  BY <1>2 DEF AssetsInv, Kept, Holds
<1>4. AssetTypes'
  BY <1>2 DEF AssetsInv, AssetTypes
<1> QED BY <1>1, <1>3, <1>4 DEF AssetsInv

LEMMA IndexRenewalInv ==
  ASSUME AssetsInv, NEW m \in Member, IndexRenewal(m)
  PROVE  AssetsInv'
<1> DEFINE s == [store[m] EXCEPT !.eye.renewals = eye.renewals]
<1>1. /\ store[m] \in StoreType /\ store[m].ok /\ eye.renewals \in Nat
      /\ store \in [Member -> StoreType]
  BY DEF AssetsInv, AssetTypes, Covenant
<1>2. s \in StoreType /\ s.ok /\ s.asset = store[m].asset
  BY <1>1 DEF StoreType, Covenant
<1>3. store' = [store EXCEPT ![m] = s]
  BY <1>1 DEF IndexRenewal
<1>4. UNCHANGED <<chain, pool, row, doing, eye, inbox, occurred, locked>>
  BY DEF IndexRenewal
<1> HIDE DEF s
<1> QED BY <1>2, <1>3, <1>4, EyeOnly

LEMMA FinishMigrationInv ==
  ASSUME AssetsInv, NEW m \in Member, FinishMigration(m)
  PROVE  AssetsInv'
<1> DEFINE s == [store[m] EXCEPT !.root = eye.root, !.eye.root = eye.root]
<1>1. /\ store[m] \in StoreType /\ store[m].ok /\ eye.root \in Nat
      /\ store \in [Member -> StoreType]
  BY DEF AssetsInv, AssetTypes, Covenant
<1>2. s \in StoreType /\ s.ok /\ s.asset = store[m].asset
  BY <1>1 DEF StoreType, Covenant
<1>3. store' = [store EXCEPT ![m] = s]
  BY <1>1 DEF FinishMigration
<1>4. UNCHANGED <<chain, pool, row, doing, eye, inbox, occurred, locked>>
  BY DEF FinishMigration
<1> HIDE DEF s
<1> QED BY <1>2, <1>3, <1>4, EyeOnly

(***************************************************************************)
(* The wallet and the chain.                                               *)
(***************************************************************************)
LEMMA PayInv == ASSUME AssetsInv, Pay PROVE AssetsInv'
<1> DEFINE k == "payment"
<1>1. /\ occurred' \in 0 .. MaxChanges /\ pool' = Append(pool, k)
      /\ UNCHANGED <<chain, row, doing, eye, store, inbox, locked>>
  BY ChangesAssumption DEF Pay, Occurs, AssetsInv, AssetTypes
<1>2. k \in Name /\ k \notin Kind
  BY DEF Name, Kind
<1> HIDE DEF k
<1>3. pool' \in Seq(Name) /\ Coin' = Append(Coin, k) /\ Coin \in Seq(Name)
  BY <1>1, <1>2, CoinGrows, CoinType DEF AssetsInv
<1>4. IssuedOnce'
  <2> SUFFICES ASSUME NEW j \in Kind, NEW n \in DOMAIN Append(Coin, k), Append(Coin, k)[n] = j
               PROVE  row[j].tx = SubSeq(Append(Coin, k), 1, n)
    BY <1>1, <1>3 DEF IssuedOnce
  <2>1. n \in 1 .. Len(Coin) + 1
    BY <1>2, <1>3
  <2>2. n # Len(Coin) + 1
    BY <1>2, <1>3
  <2>3. n \in 1 .. Len(Coin) /\ Coin[n] = j
    BY <1>2, <1>3, <2>1, <2>2
  <2>4. row[j].tx = SubSeq(Coin, 1, n)
    BY <1>3, <2>3 DEF AssetsInv, IssuedOnce
  <2>5. SubSeq(Append(Coin, k), 1, n) = SubSeq(Coin, 1, n)
    BY <1>2, <1>3, <2>3
  <2> QED BY <2>4, <2>5
<1>5. Sent' /\ Kept' /\ Recorded'
  BY <1>1, Beside DEF AssetsInv, Recorded, Running, Current
<1>6. AssetTypes'
  BY <1>1, <1>3 DEF AssetsInv, AssetTypes
<1> QED BY <1>4, <1>5, <1>6 DEF AssetsInv

(* A block, or the end of one, changes nothing of the coin. *)
LEMMA MineInv == ASSUME AssetsInv, Mine PROVE AssetsInv'
<1>1. /\ chain' = Append(chain, pool) /\ pool' = <<>>
      /\ UNCHANGED <<row, doing, eye, store, inbox, occurred, locked>>
  BY DEF Mine
<1>2. chain \in Seq(Seq(Name)) /\ pool \in Seq(Name) /\ Confirmed \in Seq(Name)
  BY CoinType DEF AssetsInv, AssetTypes
<1>3. chain' \in Seq(Seq(Name)) /\ pool' \in Seq(Name)
  BY <1>1, <1>2, AppendProperties, EmptySeq
<1>4. Coin' = Coin
  <2>1. Confirmed' = IF chain = <<>> THEN pool ELSE Confirmed \o pool
    BY <1>1, <1>2, FlatAppend DEF Confirmed
  <2>2. chain = <<>> => Confirmed = <<>>
    BY FlatEmpty DEF Confirmed
  <2>3. Confirmed' = Confirmed \o pool
    BY <1>2, <2>1, <2>2, ConcatEmptySeq
  <2>4. Confirmed' \o <<>> = Confirmed'
    BY <1>2, <2>3, ConcatProperties, ConcatEmptySeq
  <2> QED BY <1>1, <2>3, <2>4 DEF Coin
<1>5. IssuedOnce' /\ Sent' /\ Kept' /\ Recorded'
  BY <1>1, <1>4, SameCoin, Beside DEF AssetsInv, Recorded, Running, Current
<1>6. AssetTypes'
  BY <1>1, <1>3 DEF AssetsInv, AssetTypes
<1> QED BY <1>5, <1>6 DEF AssetsInv

LEMMA ReorganiseInv == ASSUME AssetsInv, Reorganise PROVE AssetsInv'
<1>1. /\ occurred' \in 0 .. MaxChanges
      /\ UNCHANGED <<row, doing, eye, store, inbox, locked>>
  BY ChangesAssumption DEF Reorganise, Occurs, AssetsInv, AssetTypes
<1>2. chain \in Seq(Seq(Name)) /\ pool \in Seq(Name) /\ Confirmed \in Seq(Name)
  BY CoinType DEF AssetsInv, AssetTypes
<1>3. PICK d \in 1 .. MaxDepth :
        /\ d <= Len(chain)
        /\ chain' = SubSeq(chain, 1, Len(chain) - d)
        /\ pool' = FlattenSeq(SubSeq(chain, Len(chain) - d + 1, Len(chain))) \o pool
  BY DEF Reorganise
<1> DEFINE n == Len(chain) - d
           kept == FlattenSeq(SubSeq(chain, 1, n))
           cut == FlattenSeq(SubSeq(chain, n + 1, Len(chain)))
<1>4. n \in 0 .. Len(chain)
  BY <1>2, <1>3, ChangesAssumption, LenProperties
<1> HIDE DEF n
<1>5. kept \o cut = Confirmed
  BY <1>2, <1>4, FlatSplit DEF Confirmed
<1>6. /\ SubSeq(chain, 1, n) \in Seq(Seq(Name))
      /\ SubSeq(chain, n + 1, Len(chain)) \in Seq(Seq(Name))
  <2>1. \A i \in 1 .. Len(chain) : chain[i] \in Seq(Name)
    BY <1>2
  <2> QED BY <1>2, <1>4, <2>1, SubSeqProperties, LenProperties
<1>7. kept \in Seq(Name) /\ cut \in Seq(Name)
  BY <1>6, FlatType
<1>8. Confirmed' = kept /\ pool' = cut \o pool /\ chain' = SubSeq(chain, 1, n)
  BY <1>3 DEF n, Confirmed
<1> HIDE DEF kept, cut
<1>9. Coin' = Coin
  <2>1. kept \o (cut \o pool) = (kept \o cut) \o pool
    BY <1>2, <1>7
  <2> QED BY <1>5, <1>8, <2>1 DEF Coin
<1>10. chain' \in Seq(Seq(Name)) /\ pool' \in Seq(Name)
  BY <1>2, <1>6, <1>7, <1>8, ConcatProperties
<1>11. IssuedOnce' /\ Sent' /\ Kept' /\ Recorded'
  BY <1>1, <1>9, SameCoin, Beside DEF AssetsInv, Recorded, Running, Current
<1>12. AssetTypes'
  BY <1>1, <1>10 DEF AssetsInv, AssetTypes
<1> QED BY <1>11, <1>12 DEF AssetsInv

(***************************************************************************)
(* The theorems on the assets.                                             *)
(***************************************************************************)
LEMMA NextAssetsInv == ASSUME AssetsInv, [NextAssets]_assetsVars PROVE AssetsInv'
<1>1. CASE UNCHANGED assetsVars
  <2>1. UNCHANGED <<chain, pool, row, doing, eye, store, inbox, occurred, locked>>
    BY <1>1 DEF assetsVars
  <2>2. IssuedOnce' /\ Sent' /\ Kept' /\ Recorded'
    BY <2>1, SameCoin, Beside DEF AssetsInv, Coin, Confirmed, Recorded, Running, Current
  <2>3. AssetTypes'
    BY <2>1 DEF AssetsInv, AssetTypes
  <2> QED BY <2>2, <2>3 DEF AssetsInv
<1>2. CASE Ensure \/ Broadcast \/ Activate \/ Announce \/ Reannounce \/ Stop
  BY <1>2, EnsureInv, BroadcastInv, ActivateInv, AnnounceInv, ReannounceInv, StopInv
<1>3. ASSUME NEW m \in Member,
             HandleAnnouncement(m) \/ LoseSnapshot(m) \/ IndexRenewal(m) \/ FinishMigration(m)
      PROVE  AssetsInv'
  BY <1>3, HandleAnnouncementInv, LoseSnapshotInv, IndexRenewalInv, FinishMigrationInv
<1>4. CASE Renew \/ Migrate \/ Pay \/ Mine \/ Reorganise
  BY <1>4, RenewInv, MigrateInv, PayInv, MineInv, ReorganiseInv
<1> QED BY <1>1, <1>2, <1>3, <1>4 DEF NextAssets

LEMMA AlwaysAssetsInv == SpecAssets => []AssetsInv
<1>1. InitAssets => AssetsInv
  BY InitAssetsInv
<1>2. AssetsInv /\ [NextAssets]_assetsVars => AssetsInv'
  BY NextAssetsInv
<1> QED BY <1>1, <1>2, PTL DEF SpecAssets

(* The types of the coordinator and of the members hold always: what a     *)
(* snapshot, a block or a row has is an asset of the three (assets.rs).    *)
THEOREM AssetsTypeCorrect == SpecAssets => []TypeOKAssets
<1>1. ASSUME AssetsInv PROVE TypeOKAssets
  <2>1. AssetTypes /\ Confirmed \in Seq(Name)
    BY <1>1, CoinType DEF AssetsInv
  <2>2. doing \in (1 .. 4) \X (1 .. 4)
    BY <2>1 DEF AssetTypes
  <2>3. ASSUME NEW m \in Member
        PROVE  /\ store[m] \in [asset : [Kind -> Seq(Name)], eye : Covenant, root : Nat, ok : {TRUE}]
               /\ inbox[m] = NoSnapshot \/ DOMAIN inbox[m].assets \subseteq Kind
    <3>1. store[m] \in StoreType /\ store[m].ok = TRUE
      BY <2>1 DEF AssetTypes, StoreType
    <3>2. inbox[m] \in SnapshotType \cup {NoSnapshot}
      BY <2>1 DEF AssetTypes
    <3>3. inbox[m] \in SnapshotType => DOMAIN inbox[m].assets \subseteq Kind
      BY DEF SnapshotType
    <3> QED BY <3>1, <3>2, <3>3 DEF StoreType
  <2> QED BY <2>1, <2>2, <2>3 DEF AssetTypes, TypeOKAssets
<1> QED BY <1>1, AlwaysAssetsInv, PTL

(* However often the coordinator stops between recording, broadcasting and *)
(* activating, each asset is issued once, and that issuance is the one     *)
(* every member comes to store (ensure_reissuable_asset,                   *)
(* handle_announcement).                                                   *)
THEOREM IssuanceSafety == SpecAssets => []OneIssuance
<1>1. ASSUME AssetsInv PROVE OneIssuance
  <2> SUFFICES ASSUME NEW k \in Kind
               PROVE  /\ Cardinality({n \in DOMAIN Coin : Coin[n] = k}) <= 1
                      /\ \A m \in Member : Holds(m, k) => store[m].asset[k] = row[k].tx
    BY DEF OneIssuance
  <2> DEFINE at == {n \in DOMAIN Coin : Coin[n] = k}
  <2>1. \A m, n \in at : m = n
    <3>1. Coin \in Seq(Name)
      BY <1>1, CoinType DEF AssetsInv
    <3>2. \A n \in at : n \in 1 .. Len(Coin) /\ row[k].tx = SubSeq(Coin, 1, n)
      BY <1>1, <3>1 DEF AssetsInv, IssuedOnce
    <3>3. \A n \in 1 .. Len(Coin) : Len(SubSeq(Coin, 1, n)) = n
      BY <3>1
    <3> HIDE DEF at
    <3> QED BY <3>2, <3>3
  <2>2. Cardinality(at) <= 1
    <3> HIDE DEF at
    <3>1. CASE at = {}
      BY <3>1, FS_EmptySet
    <3>2. ASSUME at # {} PROVE Cardinality(at) <= 1
      <4>1. PICK n : at = {n}
        BY <2>1, <3>2
      <4>2. Cardinality({n}) = 1
        BY FS_Singleton
      <4> QED BY <4>1, <4>2
    <3> QED BY <3>1, <3>2
  <2>3. \A m \in Member : Holds(m, k) => store[m].asset[k] = row[k].tx
    BY <1>1 DEF AssetsInv, Kept
  <2> QED BY <2>2, <2>3
<1> QED BY <1>1, AlwaysAssetsInv, PTL
=============================================================================
