------------------------- MODULE UserRequestsProofs -------------------------
(***************************************************************************)
(* Theorems about the requests of users and their fees, for every set of   *)
(* requests and outputs, weight limit, finality and number of faults.      *)
(***************************************************************************)
EXTENDS UserRequests, SequenceTheorems, WellFoundedInduction, TLAPS

(***************************************************************************)
(* Selections of a sequence, and the scan of the queue.                    *)
(***************************************************************************)

(* A set of natural numbers that is not empty has a least element, and one *)
(* below a bound has a greatest.                                           *)
LEMMA HasLeast ==
  ASSUME NEW S, S \subseteq Nat, S # {}
  PROVE  \E n \in S : \A m \in S : n <= m
<1>1. PICK n \in S : \A m \in S : <<m, n>> \notin OpToRel(<, Nat)
  BY WFMin, NatLessThanWellFounded, Zenon
<1>2. ASSUME NEW m \in S PROVE n <= m
  <2>1. <<m, n>> \notin OpToRel(<, Nat)
    BY <1>1
  <2>2. m \in Nat /\ n \in Nat
    OBVIOUS
  <2>3. ~(m < n)
    BY <2>1, <2>2, Zenon DEF OpToRel
  <2> QED BY <2>2, <2>3
<1> QED BY <1>2

LEMMA MaxIn ==
  ASSUME NEW b \in Nat, NEW S, S \subseteq 0 .. b, S # {}
  PROVE  Max(S) \in S
<1> DEFINE D == {n \in Nat : b - n \in S}
<1>1. D # {} /\ D \subseteq Nat
  <2>1. PICK x \in S : TRUE
    OBVIOUS
  <2>2. b - x \in Nat /\ b - (b - x) = x
    OBVIOUS
  <2> QED BY <2>1, <2>2
<1>2. PICK n \in D : \A m \in D : n <= m
  <2> HIDE DEF D
  <2> QED BY <1>1, HasLeast
<1>3. b - n \in S /\ \A y \in S : b - n >= y
  <2>1. \A y \in S : y \in 0 .. b /\ b - y \in Nat /\ b - (b - y) = y
    OBVIOUS
  <2>2. \A y \in S : b - y \in D
    BY <2>1
  <2> QED BY <1>2, <2>1, <2>2
<1> QED BY <1>3 DEF Max

Distinct(s) == \A i, j \in DOMAIN s : s[i] = s[j] => i = j

(* The recursive functions by which Among and Scan are defined. *)
IsAmong(f, s, S, len) ==
  f = [n \in 0 .. len |-> IF n = 0 THEN <<>>
                          ELSE IF s[n] \in S THEN Append(f[n - 1], s[n]) ELSE f[n - 1]]

Start == [taken |-> <<>>, failed |-> {}, rate |-> None]
IsScan(f, s, priced, len) ==
  f = [n \in 0 .. len |-> IF n = 0 THEN Start ELSE Consider(f[n - 1], s[n], priced)]

LEMMA AmongExists ==
  ASSUME NEW s, NEW S, NEW len \in Nat
  PROVE  \E f : IsAmong(f, s, S, len)
<1> DEFINE Step(g, n) == IF s[n] \in S THEN Append(g[n - 1], s[n]) ELSE g[n - 1]
           Upto(g, n) == g = [h \in 0 .. n |-> IF h = 0 THEN <<>> ELSE Step(g, h)]
           Bad == {n \in Nat : ~\E g : Upto(g, n)}
<1>1. Bad = {}
  <2>1. SUFFICES ASSUME Bad # {} PROVE FALSE
    OBVIOUS
  <2>2. PICK n \in Bad : \A m \in Bad : n <= m
    <3>1. Bad \subseteq Nat
      OBVIOUS
    <3> HIDE DEF Bad
    <3> QED BY <2>1, <3>1, HasLeast
  <2>3. n \in Nat /\ ~\E g : Upto(g, n)
    OBVIOUS
  <2>4. CASE n = 0
    <3> DEFINE g == [h \in 0 .. 0 |-> <<>>]
    <3>1. g = [h \in 0 .. 0 |-> IF h = 0 THEN <<>> ELSE Step(g, h)]
      <4>1. \A h \in 0 .. 0 : h = 0
        OBVIOUS
      <4> HIDE DEF Step
      <4> QED BY <4>1
    <3> HIDE DEF g, Step
    <3>2. Upto(g, 0)
      BY <3>1
    <3> QED BY <2>3, <2>4, <3>2
  <2>5. CASE n # 0
    <3>1. n - 1 \in Nat /\ n - 1 \notin Bad
      <4>1. n - 1 \in Nat /\ ~(n <= n - 1)
        BY <2>3, <2>5
      <4> HIDE DEF Bad
      <4> QED BY <2>2, <4>1
    <3>2. PICK f : Upto(f, n - 1)
      BY <3>1
    <3> DEFINE g == [h \in 0 .. n |-> IF h = n THEN Step(f, n) ELSE f[h]]
    <3> HIDE DEF Step
    <3>3. \A h \in 0 .. n - 1 : f[h] = IF h = 0 THEN <<>> ELSE Step(f, h)
      BY <3>2
    <3>4. \A h \in 0 .. n - 1 : g[h] = f[h]
      BY <2>3, <2>5
    <3>5. g[n] = Step(f, n)
      BY <2>3
    <3>6. \A h \in 0 .. n : h # 0 => Step(g, h) = Step(f, h)
      <4>1. \A h \in 0 .. n : h # 0 => h - 1 \in 0 .. n - 1
        BY <2>3
      <4> HIDE DEF g
      <4> QED BY <3>4, <4>1 DEF Step
    <3>7. \A h \in 0 .. n : g[h] = IF h = 0 THEN <<>> ELSE Step(g, h)
      <4>1. \A h \in 0 .. n : h = n \/ h \in 0 .. n - 1
        BY <2>3
      <4> HIDE DEF g
      <4> QED BY <2>5, <3>3, <3>4, <3>5, <3>6, <4>1
    <3>8. g = [h \in 0 .. n |-> g[h]]
      OBVIOUS
    <3> HIDE DEF g
    <3>9. Upto(g, n)
      BY <3>7, <3>8
    <3> QED BY <2>3, <3>9
  <2> QED BY <2>4, <2>5
<1>2. PICK g : Upto(g, len)
  BY <1>1
<1> QED BY <1>2 DEF IsAmong

LEMMA ScanExists ==
  ASSUME NEW s, NEW priced, NEW len \in Nat
  PROVE  \E f : IsScan(f, s, priced, len)
<1> DEFINE Step(g, n) == Consider(g[n - 1], s[n], priced)
           Upto(g, n) == g = [h \in 0 .. n |-> IF h = 0 THEN Start ELSE Step(g, h)]
           Bad == {n \in Nat : ~\E g : Upto(g, n)}
<1>1. Bad = {}
  <2>1. SUFFICES ASSUME Bad # {} PROVE FALSE
    OBVIOUS
  <2>2. PICK n \in Bad : \A m \in Bad : n <= m
    <3>1. Bad \subseteq Nat
      OBVIOUS
    <3> HIDE DEF Bad
    <3> QED BY <2>1, <3>1, HasLeast
  <2>3. n \in Nat /\ ~\E g : Upto(g, n)
    OBVIOUS
  <2>4. CASE n = 0
    <3> DEFINE g == [h \in 0 .. 0 |-> Start]
    <3>1. g = [h \in 0 .. 0 |-> IF h = 0 THEN Start ELSE Step(g, h)]
      <4>1. \A h \in 0 .. 0 : h = 0
        OBVIOUS
      <4> HIDE DEF Step
      <4> QED BY <4>1
    <3> HIDE DEF g, Step
    <3>2. Upto(g, 0)
      BY <3>1
    <3> QED BY <2>3, <2>4, <3>2
  <2>5. CASE n # 0
    <3>1. n - 1 \in Nat /\ n - 1 \notin Bad
      <4>1. n - 1 \in Nat /\ ~(n <= n - 1)
        BY <2>3, <2>5
      <4> HIDE DEF Bad
      <4> QED BY <2>2, <4>1
    <3>2. PICK f : Upto(f, n - 1)
      BY <3>1
    <3> DEFINE g == [h \in 0 .. n |-> IF h = n THEN Step(f, n) ELSE f[h]]
    <3> HIDE DEF Step
    <3>3. \A h \in 0 .. n - 1 : f[h] = IF h = 0 THEN Start ELSE Step(f, h)
      BY <3>2
    <3>4. \A h \in 0 .. n - 1 : g[h] = f[h]
      BY <2>3, <2>5
    <3>5. g[n] = Step(f, n)
      BY <2>3
    <3>6. \A h \in 0 .. n : h # 0 => Step(g, h) = Step(f, h)
      <4>1. \A h \in 0 .. n : h # 0 => h - 1 \in 0 .. n - 1
        BY <2>3
      <4> HIDE DEF g
      <4> QED BY <3>4, <4>1 DEF Step
    <3>7. \A h \in 0 .. n : g[h] = IF h = 0 THEN Start ELSE Step(g, h)
      <4>1. \A h \in 0 .. n : h = n \/ h \in 0 .. n - 1
        BY <2>3
      <4> HIDE DEF g
      <4> QED BY <2>5, <3>3, <3>4, <3>5, <3>6, <4>1
    <3>8. g = [h \in 0 .. n |-> g[h]]
      OBVIOUS
    <3> HIDE DEF g
    <3>9. Upto(g, n)
      BY <3>7, <3>8
    <3> QED BY <2>3, <3>9
  <2> QED BY <2>4, <2>5
<1>2. PICK g : Upto(g, len)
  BY <1>1
<1> QED BY <1>2 DEF IsScan

(* A selection of a sequence without repetitions has the selected elements *)
(* only, and no repetitions. *)
LEMMA AmongIs ==
  ASSUME NEW R, NEW s \in Seq(R), Distinct(s), NEW S
  PROVE  /\ Among(s, S) \in Seq(R) /\ Distinct(Among(s, S))
         /\ \A k \in DOMAIN Among(s, S) :
              Among(s, S)[k] \in S /\ \E j \in DOMAIN s : Among(s, S)[k] = s[j]
<1> DEFINE f == CHOOSE g : IsAmong(g, s, S, Len(s))
           Good(n) == /\ f[n] \in Seq(R) /\ Distinct(f[n])
                      /\ \A k \in DOMAIN f[n] : f[n][k] \in S /\ \E j \in 1 .. n : f[n][k] = s[j]
           Bad == {n \in 0 .. Len(s) : ~Good(n)}
<1>1. Among(s, S) = f[Len(s)]
  BY DEF Among, IsAmong
<1>2. IsAmong(f, s, S, Len(s))
  <2>1. Len(s) \in Nat
    OBVIOUS
  <2> QED BY <2>1, AmongExists
<1> HIDE DEF f
<1>3. f[0] = <<>> /\ \A n \in 1 .. Len(s) :
        f[n] = IF s[n] \in S THEN Append(f[n - 1], s[n]) ELSE f[n - 1]
  <2> DEFINE Step(n) == IF s[n] \in S THEN Append(f[n - 1], s[n]) ELSE f[n - 1]
  <2>1. f = [n \in 0 .. Len(s) |-> IF n = 0 THEN <<>> ELSE Step(n)]
    BY <1>2 DEF IsAmong
  <2>2. 0 \in 0 .. Len(s) /\ \A n \in 1 .. Len(s) : n \in 0 .. Len(s) /\ n # 0
    OBVIOUS
  <2> HIDE DEF Step
  <2>3. f[0] = <<>> /\ \A n \in 1 .. Len(s) : f[n] = Step(n)
    BY <2>1, <2>2
  <2> QED BY <2>3 DEF Step
<1>4. Bad = {}
  <2>1. SUFFICES ASSUME Bad # {} PROVE FALSE
    OBVIOUS
  <2>2. PICK n \in Bad : \A m \in Bad : n <= m
    <3>1. Bad \subseteq Nat
      OBVIOUS
    <3> HIDE DEF Bad
    <3> QED BY <2>1, <3>1, HasLeast
  <2>3. n # 0
    <3>1. Good(0)
      BY <1>3 DEF Distinct
    <3> QED BY <3>1
  <2>4. n \in 1 .. Len(s) /\ n - 1 \in 0 .. Len(s) /\ ~(n <= n - 1) /\ ~Good(n)
    BY <2>3
  <2>5. Good(n - 1)
    <3>1. n - 1 \notin Bad
      <4> HIDE DEF Bad
      <4> QED BY <2>2, <2>4
    <3> HIDE DEF Good
    <3> QED BY <2>4, <3>1
  <2>6. CASE s[n] \notin S
    <3>1. f[n] = f[n - 1]
      BY <1>3, <2>4, <2>6
    <3>2. \A j \in 1 .. n - 1 : j \in 1 .. n
      BY <2>4
    <3>3. Good(n)
      BY <2>5, <3>1, <3>2
    <3> QED BY <2>4, <3>3
  <2>7. CASE s[n] \in S
    <3> DEFINE p == f[n - 1]
               q == Append(p, s[n])
    <3>1. f[n] = q
      BY <1>3, <2>4, <2>7
    <3>2. /\ p \in Seq(R) /\ Distinct(p)
          /\ \A k \in DOMAIN p : p[k] \in S /\ \E j \in 1 .. n - 1 : p[k] = s[j]
      BY <2>5
    <3>3. s[n] \in R
      BY <2>4
    <3> HIDE DEF p
    <3>4. /\ q \in Seq(R) /\ Len(q) = Len(p) + 1 /\ Len(p) \in Nat
          /\ \A k \in 1 .. Len(p) : q[k] = p[k]
          /\ q[Len(p) + 1] = s[n]
      BY <3>2, <3>3, AppendProperties
    <3> HIDE DEF q
    <3>5. DOMAIN q = 1 .. Len(p) + 1 /\ DOMAIN p = 1 .. Len(p)
      BY <3>2, <3>4
    <3>6. \A k \in 1 .. Len(p) + 1 : k \in 1 .. Len(p) \/ k = Len(p) + 1
      BY <3>4
    <3>7. \A k \in 1 .. Len(p) : p[k] # s[n]
      <4>1. \A j \in 1 .. n - 1 : j \in DOMAIN s /\ n \in DOMAIN s /\ j # n
        BY <2>4
      <4> QED BY <3>2, <3>5, <4>1 DEF Distinct
    <3>8. Distinct(q)
      BY <3>2, <3>4, <3>5, <3>6, <3>7 DEF Distinct
    <3>9. \A k \in DOMAIN q : q[k] \in S /\ \E j \in 1 .. n : q[k] = s[j]
      <4>1. \A j \in 1 .. n - 1 : j \in 1 .. n
        BY <2>4
      <4>2. n \in 1 .. n
        BY <2>4
      <4>3. \A k \in 1 .. Len(p) : q[k] \in S /\ \E j \in 1 .. n : q[k] = s[j]
        BY <3>2, <3>4, <3>5, <4>1
      <4>4. q[Len(p) + 1] \in S /\ \E j \in 1 .. n : q[Len(p) + 1] = s[j]
        BY <2>7, <3>4, <4>2
      <4> QED BY <3>5, <3>6, <4>3, <4>4
    <3>10. Good(n)
      BY <3>1, <3>4, <3>8, <3>9
    <3> QED BY <2>4, <3>10
  <2> QED BY <2>6, <2>7
<1>5. Good(Len(s))
  <2>1. Len(s) \in 0 .. Len(s)
    OBVIOUS
  <2> HIDE DEF Good
  <2> QED BY <1>4, <2>1
<1>6. DOMAIN s = 1 .. Len(s)
  OBVIOUS
<1> QED BY <1>1, <1>5, <1>6

(* The states of a scan. *)
Rates == {None} \cup {Feed[q] : q \in Request}
Scans == [taken : Seq(Request), failed : SUBSET Request, rate : Rates]

LEMMA ConsiderIs ==
  ASSUME NEW s \in Scans, NEW r \in Request, NEW priced
  PROVE  LET t == Consider(s, r, priced) IN
         /\ t \in Scans
         /\ \/ t.taken = s.taken /\ t.failed = s.failed
            \/ t.taken = s.taken /\ t.failed = s.failed \cup {r}
            \/ t.taken = Append(s.taken, r) /\ t.failed = s.failed
<1> DEFINE rate == IF Feed[r] = None THEN s.rate ELSE Feed[r]
           t == Consider(s, r, priced)
           fail == [s EXCEPT !.failed = s.failed \cup {r}]
           take == [taken |-> Append(s.taken, r), failed |-> s.failed, rate |-> rate]
<1>1. rate \in Rates
  BY DEF Rates, Scans
<1>2. t = s \/ t = fail \/ t = take
  BY Zenon DEF Consider
<1>3. fail \in Scans /\ fail.taken = s.taken /\ fail.failed = s.failed \cup {r}
  BY DEF Scans
<1>4. take \in Scans /\ take.taken = Append(s.taken, r) /\ take.failed = s.failed
  <2>1. Append(s.taken, r) \in Seq(Request) /\ s.failed \in SUBSET Request
    BY DEF Scans
  <2> HIDE DEF rate
  <2> QED BY <1>1, <2>1 DEF Scans
<1> HIDE DEF t, fail, take
<1>5. /\ t \in Scans
      /\ \/ t.taken = s.taken /\ t.failed = s.failed
         \/ t.taken = s.taken /\ t.failed = s.failed \cup {r}
         \/ t.taken = Append(s.taken, r) /\ t.failed = s.failed
  BY <1>2, <1>3, <1>4
<1> QED BY <1>5 DEF t

(* What a scan takes and what it fails come from the queue, and differ. *)
LEMMA ScanIs ==
  ASSUME NEW priced, Rows({"pending"}) \in Seq(Request), Distinct(Rows({"pending"}))
  PROVE  LET s == Rows({"pending"})
             t == Scan(priced) IN
         /\ t.taken \in Seq(Request) /\ Distinct(t.taken)
         /\ \A k \in DOMAIN t.taken : t.taken[k] \notin t.failed /\ \E j \in DOMAIN s : t.taken[k] = s[j]
         /\ \A r \in t.failed : r \in Request /\ \E j \in DOMAIN s : r = s[j]
<1> DEFINE s == Rows({"pending"})
<1>0. s \in Seq(Request) /\ Distinct(s) /\ Len(s) \in Nat /\ DOMAIN s = 1 .. Len(s)
  OBVIOUS
<1> DEFINE f == CHOOSE g : IsScan(g, s, priced, Len(s))
           Good(n, t) ==
             /\ t \in Scans /\ Distinct(t.taken)
             /\ \A k \in DOMAIN t.taken :
                  t.taken[k] \notin t.failed /\ \E j \in 1 .. n : t.taken[k] = s[j]
             /\ \A r \in t.failed : \E j \in 1 .. n : r = s[j]
           Bad == {n \in 0 .. Len(s) : ~Good(n, f[n])}
<1>1. Scan(priced) = f[Len(s)]
  BY DEF Scan, IsScan, Start
<1> HIDE DEF s
<1>2. IsScan(f, s, priced, Len(s))
  BY <1>0, ScanExists
<1> HIDE DEF f
<1>3. f[0] = Start /\ \A n \in 1 .. Len(s) : f[n] = Consider(f[n - 1], s[n], priced)
  <2> DEFINE Step(n) == Consider(f[n - 1], s[n], priced)
  <2>1. f = [n \in 0 .. Len(s) |-> IF n = 0 THEN Start ELSE Step(n)]
    BY <1>2 DEF IsScan
  <2>2. 0 \in 0 .. Len(s) /\ \A n \in 1 .. Len(s) : n \in 0 .. Len(s) /\ n # 0
    BY <1>0
  <2> HIDE DEF Step
  <2>3. f[0] = Start /\ \A n \in 1 .. Len(s) : f[n] = Step(n)
    BY <2>1, <2>2
  <2> QED BY <2>3 DEF Step
<1>4. Bad = {}
  <2>1. SUFFICES ASSUME Bad # {} PROVE FALSE
    OBVIOUS
  <2>2. PICK n \in Bad : \A m \in Bad : n <= m
    <3>1. Bad \subseteq Nat
      BY <1>0
    <3> HIDE DEF Bad
    <3> QED BY <2>1, <3>1, HasLeast
  <2>3. n # 0
    <3>1. Start \in Scans /\ Start.taken = <<>> /\ Start.failed = {}
      BY DEF Start, Scans, Rates
    <3>2. Good(0, Start)
      BY <3>1 DEF Distinct
    <3> QED BY <1>3, <3>2
  <2>4. n \in 1 .. Len(s) /\ n - 1 \in 0 .. Len(s) /\ ~(n <= n - 1) /\ ~Good(n, f[n])
    BY <1>0, <2>3
  <2>5. Good(n - 1, f[n - 1])
    <3>1. n - 1 \notin Bad
      <4> HIDE DEF Bad
      <4> QED BY <2>2, <2>4
    <3> HIDE DEF Good
    <3> QED BY <2>4, <3>1
  <2> DEFINE p == f[n - 1]
             q == f[n]
             r == s[n]
  <2>6. r \in Request
    BY <1>0, <2>4
  <2>7. q = Consider(p, r, priced)
    BY <1>3, <2>4
  <2>8. /\ p \in Scans /\ Distinct(p.taken)
        /\ \A k \in DOMAIN p.taken :
             p.taken[k] \notin p.failed /\ \E j \in 1 .. n - 1 : p.taken[k] = s[j]
        /\ \A x \in p.failed : \E j \in 1 .. n - 1 : x = s[j]
    BY <2>5
  <2>9. \A j \in 1 .. n - 1 : j \in 1 .. n /\ s[j] # r
    <3>1. \A j \in 1 .. n - 1 : j \in 1 .. n /\ j \in DOMAIN s /\ n \in DOMAIN s /\ j # n
      BY <1>0, <2>4
    <3> QED BY <1>0, <3>1 DEF Distinct
  <2>10. n \in 1 .. n
    BY <2>4
  <2> HIDE DEF p, q
  <2>11. /\ q \in Scans
         /\ \/ q.taken = p.taken /\ q.failed = p.failed
            \/ q.taken = p.taken /\ q.failed = p.failed \cup {r}
            \/ q.taken = Append(p.taken, r) /\ q.failed = p.failed
    BY <2>6, <2>7, <2>8, ConsiderIs
  <2>12. CASE q.taken = p.taken /\ q.failed = p.failed
    <3>1. Good(n, q)
      BY <2>8, <2>9, <2>11, <2>12
    <3> QED BY <2>4, <3>1 DEF q
  <2>13. CASE q.taken = p.taken /\ q.failed = p.failed \cup {r}
    <3>1. \A x \in q.failed : \E j \in 1 .. n : x = s[j]
      BY <2>8, <2>9, <2>10, <2>13
    <3>2. \A k \in DOMAIN q.taken : q.taken[k] \notin q.failed /\ \E j \in 1 .. n : q.taken[k] = s[j]
      BY <2>8, <2>9, <2>13
    <3>3. Good(n, q)
      BY <2>8, <2>11, <2>13, <3>1, <3>2
    <3> QED BY <2>4, <3>3 DEF q
  <2>14. CASE q.taken = Append(p.taken, r) /\ q.failed = p.failed
    <3> DEFINE u == p.taken
               v == q.taken
    <3>1. u \in Seq(Request)
      BY <2>8 DEF Scans
    <3>2. /\ v \in Seq(Request) /\ Len(v) = Len(u) + 1 /\ Len(u) \in Nat
          /\ \A k \in 1 .. Len(u) : v[k] = u[k]
          /\ v[Len(u) + 1] = r
      BY <2>6, <2>14, <3>1, AppendProperties
    <3>3. DOMAIN v = 1 .. Len(u) + 1 /\ DOMAIN u = 1 .. Len(u)
      BY <3>1, <3>2
    <3>4. \A k \in 1 .. Len(u) + 1 : k \in 1 .. Len(u) \/ k = Len(u) + 1
      BY <3>2
    <3>5. \A x \in q.failed : \E j \in 1 .. n : x = s[j]
      BY <2>8, <2>9, <2>14
    <3>6. r \notin q.failed
      BY <2>8, <2>9, <2>14
    <3>7. \A k \in 1 .. Len(u) : u[k] # r
      BY <2>8, <2>9, <3>3
    <3>8. Distinct(u) /\ \A k \in 1 .. Len(u) : u[k] \notin q.failed /\ \E j \in 1 .. n : u[k] = s[j]
      BY <2>8, <2>9, <2>14, <3>3
    <3> HIDE DEF u, v
    <3>9. Distinct(v)
      BY <3>2, <3>3, <3>4, <3>7, <3>8 DEF Distinct
    <3>10. \A k \in DOMAIN v : v[k] \notin q.failed /\ \E j \in 1 .. n : v[k] = s[j]
      BY <2>10, <3>2, <3>3, <3>4, <3>6, <3>8
    <3>11. Good(n, q)
      BY <2>11, <3>5, <3>9, <3>10 DEF v
    <3> QED BY <2>4, <3>11 DEF q
  <2> QED BY <2>11, <2>12, <2>13, <2>14
<1>5. Good(Len(s), f[Len(s)])
  <2>1. Len(s) \in 0 .. Len(s)
    BY <1>0
  <2> HIDE DEF Good
  <2> QED BY <1>4, <2>1
<1> DEFINE t == f[Len(s)]
<1>6. /\ t.taken \in Seq(Request) /\ Distinct(t.taken)
      /\ \A k \in DOMAIN t.taken : t.taken[k] \notin t.failed /\ \E j \in DOMAIN s : t.taken[k] = s[j]
      /\ \A r \in t.failed : r \in Request /\ \E j \in DOMAIN s : r = s[j]
  <2> HIDE DEF t
  <2>1. Good(Len(s), t)
    BY <1>5 DEF t
  <2> QED BY <1>0, <2>1 DEF Scans
<1> HIDE DEF t
<1>7. Scan(priced) = t
  BY <1>1 DEF t
<1> QED BY <1>6, <1>7 DEF s

(* The requests of a round are a prefix of those that were taken. *)
LEMMA FittingIs ==
  ASSUME NEW s \in Seq(Request), Distinct(s)
  PROVE  /\ Fitting(s) \in Seq(Request) /\ Distinct(Fitting(s))
         /\ \A k \in DOMAIN Fitting(s) : k \in DOMAIN s /\ Fitting(s)[k] = s[k]
<1> DEFINE fits == {n \in 0 .. Len(s) : n = 0 \/ Weight(SubSeq(s, 1, n)) <= MaxWeight}
           m == Max(fits)
<1>1. Len(s) \in Nat /\ DOMAIN s = 1 .. Len(s)
  OBVIOUS
<1>2. m \in fits
  <2>1. fits \subseteq 0 .. Len(s) /\ 0 \in fits
    BY <1>1
  <2> HIDE DEF fits
  <2> QED BY <1>1, <2>1, MaxIn
<1>3. m \in 0 .. Len(s)
  BY <1>2
<1>4. Fitting(s) = SubSeq(s, 1, m)
  BY DEF Fitting
<1> HIDE DEF m
<1>5. \A i \in 1 .. m : i \in 1 .. Len(s) /\ s[i] \in Request
  BY <1>1, <1>3
<1>6. /\ SubSeq(s, 1, m) \in Seq(Request)
      /\ DOMAIN SubSeq(s, 1, m) = 1 .. m
      /\ \A i \in 1 .. m : SubSeq(s, 1, m)[i] = s[i]
  BY <1>1, <1>3, <1>5
<1>7. Distinct(SubSeq(s, 1, m))
  BY <1>1, <1>5, <1>6 DEF Distinct
<1> QED BY <1>1, <1>4, <1>5, <1>6, <1>7

-----------------------------------------------------------------------------
(***************************************************************************)
(* The inductive invariant.                                                *)
(***************************************************************************)
(* The rows of the database. *)
RowsInv ==
  /\ status \in [Request -> Open \cup {"absent", "executed", "failed"}]
  /\ order \in Seq(Request) /\ Distinct(order)
  /\ \A k \in DOMAIN order : status[order[k]] # "absent"
  /\ checked \subseteq Request /\ \A r \in checked : status[r] = "absent"

(* The chain, and what the issuances have spent. *)
ChainInv ==
  /\ txs \in Seq(Range(txs)) /\ Len(txs) <= MaxTxs
  /\ depth \in [TxId -> 0 .. Finality]
  /\ \A i \in TxId : depth[i] > 0 => i \in DOMAIN txs
  /\ pool \subseteq DOMAIN txs /\ \A i \in pool : depth[i] = 0

(* A request that has been looked at names an output that there is. *)
CoinInv ==
  /\ coin \in [Request -> Coin \cup {None}]
  /\ \A r \in Request : (r \in checked \/ status[r] # "absent") =>
       /\ coin[r] \in Coin
       /\ coin[r].tx # 0 => coin[r].tx \in DOMAIN txs /\ Has(coin[r].tx, coin[r].of)

Listed(reqs) ==
  /\ reqs \in Seq(Request)
  /\ \A k \in DOMAIN reqs : status[reqs[k]] # "absent"

Freed(t) == \A c \in Fees(t) : c.tx = 0 \/ c \in freed

(* Issuances spend what is free, and no two in the chain and the mempool   *)
(* spend the same. *)
TxsInv ==
  /\ \A i \in DOMAIN txs : Listed(txs[i].reqs) /\ Freed(txs[i])
  /\ \A i, j \in Live : i # j => Fees(txs[i]) \cap Fees(txs[j]) = {}

(* Outputs are spent of an issuance below the last block. *)
SpentInv ==
  \A r \in spent : \E j \in TxId :
    depth[j] >= 2 /\ Has(j, r) /\ [tx |-> j, of |-> r] \in freed

Pending(s) == s \in Seq(Request) /\ \A k \in DOMAIN s : status[s[k]] = "pending"

(* What is left to do is open, and each request comes once. *)
Todo(s) == /\ s \in Seq(Request) /\ s # <<>> /\ Distinct(s)
           /\ \A k \in DOMAIN s : status[s[k]] \in Open

FinalNow(i) == i \in TxId /\ depth[i] = Finality

LoopInv ==
  /\ loop.pc \in {"idle", "anchor", "sign", "send", "mark", "reconcile", "execute"}
  /\ loop.pc \in {"anchor", "sign", "send"} => Pending(loop.tx.reqs) /\ Distinct(loop.tx.reqs) /\ loop.tx.reqs # <<>>
  /\ loop.pc = "sign" => loop = [pc |-> "sign", tx |-> loop.tx, tip |-> loop.tip]
  /\ loop.pc = "send" => Freed(loop.tx)
  /\ loop.pc = "mark" => /\ loop = [pc |-> "mark", todo |-> loop.todo, id |-> loop.id]
                         /\ Todo(loop.todo) /\ loop.id \in DOMAIN txs
                         /\ \A k \in DOMAIN loop.todo : Has(loop.id, loop.todo[k])
  /\ loop.pc \in {"reconcile", "execute"} =>
       /\ loop = [pc |-> loop.pc, todo |-> loop.todo]
       /\ Todo(loop.todo)
       /\ \A k \in DOMAIN loop.todo : result[loop.todo[k]] # 0
  /\ loop.pc = "execute" => FinalNow(result[Head(loop.todo)])

ResultInv ==
  /\ result \in [Request -> 0 .. MaxTxs]
  /\ \A r \in Request : result[r] # 0 => result[r] \in DOMAIN txs /\ Has(result[r], r)
  /\ \A r \in Request : status[r] \in Followed => result[r] # 0

Inv == RowsInv /\ ChainInv /\ CoinInv /\ TxsInv /\ SpentInv /\ LoopInv /\ FeesAreHeld
       /\ ResultInv /\ ExecutedIsFinal

LEMMA Bounds == Finality \in Nat /\ Finality >= 2 /\ MaxTxs \in Nat /\ Request \subseteq Nat
  BY FinalityAssumption, BoundAssumption, RequestAssumption

LEMMA RowsAre ==
  ASSUME RowsInv, NEW states
  PROVE  /\ Rows(states) \in Seq(Request) /\ Distinct(Rows(states))
         /\ \A k \in DOMAIN Rows(states) : status[Rows(states)[k]] \in states
<1> DEFINE S == {r \in Request : status[r] \in states}
<1>1. Rows(states) = Among(order, S)
  BY DEF Rows
<1>2. order \in Seq(Request) /\ Distinct(order)
  BY DEF RowsInv
<1>3. /\ Among(order, S) \in Seq(Request) /\ Distinct(Among(order, S))
      /\ \A k \in DOMAIN Among(order, S) : Among(order, S)[k] \in S
  <2> HIDE DEF S
  <2> QED BY <1>2, AmongIs
<1> QED BY <1>1, <1>3

(* What stays true of the chain while no request disappears. *)
LEMMA Settled ==
  ASSUME Inv, UNCHANGED chain,
         \A r \in Request : status[r] # "absent" => status'[r] # "absent" /\ coin'[r] = coin[r]
  PROVE  ChainInv' /\ TxsInv' /\ SpentInv'
<1>1. UNCHANGED <<txs, pool, depth, spent, freed>>
  BY DEF chain
<1>2. ChainInv'
  BY <1>1 DEF Inv, ChainInv
<1>3. Live' = Live
  BY <1>1 DEF Live, InChain
<1>4. \A i \in DOMAIN txs : Listed(txs[i].reqs) /\ Freed(txs[i])
  BY DEF Inv, TxsInv
<1>5. ASSUME NEW i \in DOMAIN txs
      PROVE  /\ Fees(txs[i])' = Fees(txs[i])
             /\ Listed(txs[i].reqs)' /\ Freed(txs[i])'
  <2> DEFINE q == txs[i].reqs
  <2>1. q \in Seq(Request) /\ \A k \in DOMAIN q : q[k] \in Request /\ status[q[k]] # "absent"
    BY <1>4 DEF Listed
  <2>2. txs'[i].reqs = q
    BY <1>1
  <2> HIDE DEF q
  <2>3. {coin'[r] : r \in Range(q)} = {coin[r] : r \in Range(q)}
    BY <2>1 DEF Range
  <2>4. Fees(txs[i])' = Fees(txs[i])
    BY <2>2, <2>3 DEF Fees, q
  <2>5. Listed(txs[i].reqs)'
    BY <2>1, <2>2 DEF Listed
  <2>6. Freed(txs[i])'
    BY <1>1, <1>4, <2>4 DEF Freed
  <2> QED BY <2>4, <2>5, <2>6
<1>6. TxsInv'
  <2>1. \A i \in Live : i \in DOMAIN txs
    BY DEF Live, InChain, Inv, ChainInv
  <2> QED BY <1>1, <1>3, <1>5, <2>1 DEF Inv, TxsInv
<1>7. SpentInv'
  BY <1>1 DEF Inv, SpentInv, Has
<1> QED BY <1>2, <1>6, <1>7

(* A step of the main loop that leaves the chain alone. *)
LEMMA Work ==
  ASSUME Inv, UNCHANGED <<order, coin, checked, chain>>,
         status' \in [Request -> Open \cup {"absent", "executed", "failed"}],
         \A r \in Request : status'[r] = "absent" <=> status[r] = "absent",
         LoopInv', FeesAreHeld', ResultInv', ExecutedIsFinal'
  PROVE  Inv'
<1>1. ChainInv' /\ TxsInv' /\ SpentInv'
  BY Settled
<1>2. RowsInv'
  BY DEF Inv, RowsInv, Distinct
<1>3. CoinInv'
  BY DEF Inv, CoinInv, chain, Has
<1> QED BY <1>1, <1>2, <1>3 DEF Inv

(* One that leaves the rows alone, too. *)
LEMMA Thought ==
  ASSUME Inv, UNCHANGED <<rows, checked, chain>>, LoopInv'
  PROVE  Inv'
<1>1. UNCHANGED <<status, order, coin, held, result, checked, txs, depth>>
  BY DEF rows, chain
<1>2. FeesAreHeld' /\ ResultInv' /\ ExecutedIsFinal'
  BY <1>1 DEF Inv, FeesAreHeld, ResultInv, ExecutedIsFinal, InChain, Has
<1>3. status' \in [Request -> Open \cup {"absent", "executed", "failed"}]
  BY <1>1 DEF Inv, RowsInv
<1> QED BY <1>1, <1>2, <1>3, Work

LEMMA IdleLoop == ASSUME loop' = Idle PROVE LoopInv'
  BY DEF LoopInv, Idle

LEMMA InterruptInv == ASSUME Inv, Interrupt PROVE Inv'
  BY IdleLoop, Thought DEF Interrupt, chain

LEMMA RefuseInv == ASSUME Inv, Refuse PROVE Inv'
  BY IdleLoop, Thought DEF Refuse

LEMMA StartReconcileInv == ASSUME Inv, StartReconcile PROVE Inv'
<1> DEFINE todo == Rows(Followed)
<1>1. /\ todo \in Seq(Request) /\ Distinct(todo)
      /\ \A k \in DOMAIN todo : status[todo[k]] \in Open /\ result[todo[k]] # 0
  <2>1. /\ todo \in Seq(Request) /\ Distinct(todo)
        /\ \A k \in DOMAIN todo : status[todo[k]] \in Followed /\ todo[k] \in Request
    BY RowsAre DEF Inv
  <2> QED BY <2>1 DEF Inv, ResultInv, Followed, Open
<1>2. /\ loop' = [pc |-> "reconcile", todo |-> todo] /\ todo # <<>>
      /\ UNCHANGED <<rows, checked, chain, status, result>>
  BY DEF StartReconcile, rows
<1>3. LoopInv'
  <2> HIDE DEF todo
  <2>1. Todo(loop.todo)'
    BY <1>1, <1>2 DEF Todo, Distinct
  <2>2. (\A k \in DOMAIN loop.todo : result[loop.todo[k]] # 0)'
    BY <1>1, <1>2
  <2> QED BY <1>2, <2>1, <2>2 DEF LoopInv
<1> QED BY <1>2, <1>3, Thought

LEMMA AnchorInv == ASSUME Inv, Anchor PROVE Inv'
<1> DEFINE tx == loop.tx
           tip == Current
<1>1. UNCHANGED <<rows, checked, chain, status>> /\ loop.pc = "anchor"
  BY DEF Anchor, rows
<1>2. loop' = Idle \/ loop' = [pc |-> "sign", tx |-> tx, tip |-> tip]
  BY DEF Anchor
<1>3. Pending(tx.reqs) /\ Distinct(tx.reqs) /\ tx.reqs # <<>>
  BY <1>1 DEF Inv, LoopInv
<1>4. CASE loop' = [pc |-> "sign", tx |-> tx, tip |-> tip]
  <2> HIDE DEF tx, tip
  <2>1. Pending(loop.tx.reqs)' /\ Distinct(loop.tx.reqs)' /\ loop.tx.reqs' # <<>>
    BY <1>1, <1>3, <1>4 DEF Pending, Distinct
  <2>2. LoopInv'
    BY <1>4, <2>1 DEF LoopInv
  <2> QED BY <1>1, <2>2, Thought
<1> QED BY <1>1, <1>2, <1>4, IdleLoop, Thought

(* A burn reserve that nobody needs any more has been freed. *)
LEMMA FreedReserve ==
  ASSUME Inv, NEW c \in Coin, c \notin Reserved, c.tx \in InChain, Has(c.tx, c.of)
  PROVE  c \in freed
<1>1. c.tx # 0 /\ c.tx \in TxId /\ c.of \in Request /\ c = [tx |-> c.tx, of |-> c.of]
  BY DEF Coin, InChain, TxId
<1>2. c.of \in spent
  BY DEF Reserved
<1>3. PICK j \in TxId : depth[j] >= 2 /\ Has(j, c.of) /\ [tx |-> j, of |-> c.of] \in freed
  BY <1>2 DEF Inv, SpentInv
<1>4. j \in Live /\ c.tx \in Live
  <2>1. depth[j] \in Nat
    BY Bounds DEF Inv, ChainInv
  <2> QED BY <1>3, <2>1 DEF Live, InChain
<1>5. coin[c.of] \in Fees(txs[j]) /\ coin[c.of] \in Fees(txs[c.tx])
  BY <1>3 DEF Has, Fees
<1>6. j = c.tx
  BY <1>4, <1>5 DEF Inv, TxsInv
<1> QED BY <1>1, <1>3, <1>6

LEMMA SignInv == ASSUME Inv, Sign PROVE Inv'
<1> DEFINE tx == loop.tx
<1>1. UNCHANGED <<rows, checked, chain, status, coin, freed>> /\ loop.pc = "sign"
  BY DEF Sign, rows, chain
<1>2. \/ loop' = Idle
      \/ loop' = [pc |-> "send", tx |-> tx] /\ Anchored(tx, Reserved)
  BY DEF Sign
<1>3. Pending(tx.reqs) /\ Distinct(tx.reqs) /\ tx.reqs # <<>>
  BY <1>1 DEF Inv, LoopInv
<1>4. CASE loop' = [pc |-> "send", tx |-> tx] /\ Anchored(tx, Reserved)
  <2>1. Freed(tx)
    <3> SUFFICES ASSUME NEW c \in Fees(tx), c.tx # 0 PROVE c \in freed
      BY DEF Freed
    <3>1. PICK r \in Range(tx.reqs) : c = coin[r]
      BY DEF Fees
    <3>2. r \in Request /\ status[r] = "pending"
      BY <1>3, <3>1 DEF Pending, Range
    <3>3. c \in Coin /\ Has(c.tx, c.of)
      BY <3>1, <3>2 DEF Inv, CoinInv
    <3>4. c \notin Reserved /\ c.tx \in InChain
      BY <1>4 DEF Anchored, Exists
    <3> QED BY <3>3, <3>4, FreedReserve
  <2> HIDE DEF tx
  <2>2. loop'.tx = tx /\ loop'.pc = "send"
    BY <1>4
  <2>3. Pending(loop.tx.reqs)' /\ Distinct(loop.tx.reqs)' /\ loop.tx.reqs' # <<>>
    BY <1>1, <1>3, <2>2 DEF Pending, Distinct
  <2>4. Freed(loop.tx)'
    BY <1>1, <2>1, <2>2 DEF Freed, Fees
  <2>5. LoopInv'
    BY <2>2, <2>3, <2>4 DEF LoopInv
  <2> QED BY <1>1, <2>5, Thought
<1> QED BY <1>1, <1>2, <1>4, IdleLoop, Thought

(* Requests that fail give up their fees. *)
LEMMA Failing ==
  ASSUME Inv, NEW S, \A r \in S : r \in Request /\ status[r] = "pending", Fail(S)
  PROVE  /\ status' \in [Request -> Open \cup {"absent", "executed", "failed"}]
         /\ \A r \in Request : /\ status'[r] = "absent" <=> status[r] = "absent"
                               /\ status'[r] = "executed" <=> status[r] = "executed"
                               /\ status'[r] \in Open <=> (status[r] \in Open /\ r \notin S)
                               /\ r \notin S => status'[r] = status[r]
         /\ held' = held \ S
<1>1. status' = [r \in Request |-> IF r \in S THEN "failed" ELSE status[r]] /\ held' = held \ S
  BY DEF Fail
<1>2. status \in [Request -> Open \cup {"absent", "executed", "failed"}]
  BY DEF Inv, RowsInv
<1> QED BY <1>1, <1>2 DEF Open

LEMMA PrepareInv == ASSUME Inv, NEW e, NEW priced, Prepare(e, priced) PROVE Inv'
<1> DEFINE scan == Scan(priced)
           reqs == Fitting(scan.taken)
           heavy == IF scan.taken # <<>> /\ reqs = <<>> THEN {Head(scan.taken)} ELSE {}
           S == scan.failed \cup heavy
           tx == [reqs |-> reqs, eye |-> e, base |-> EyeBase(e), token |-> Token]
           queue == Rows({"pending"})
<1>1. /\ Fail(S)
      /\ loop' = Idle \/ (reqs # <<>> /\ loop' = [pc |-> "anchor", tx |-> tx])
      /\ UNCHANGED <<order, coin, result, checked, chain>>
  BY DEF Prepare
<1>2. /\ queue \in Seq(Request) /\ Distinct(queue)
      /\ \A k \in DOMAIN queue : status[queue[k]] = "pending" /\ queue[k] \in Request
  BY RowsAre DEF Inv
<1>3. /\ scan.taken \in Seq(Request) /\ Distinct(scan.taken)
      /\ \A k \in DOMAIN scan.taken :
           scan.taken[k] \notin scan.failed /\ \E j \in DOMAIN queue : scan.taken[k] = queue[j]
      /\ \A r \in scan.failed : r \in Request /\ \E j \in DOMAIN queue : r = queue[j]
  BY <1>2, ScanIs
<1> HIDE DEF queue, scan
<1>4. /\ reqs \in Seq(Request) /\ Distinct(reqs)
      /\ \A k \in DOMAIN reqs : k \in DOMAIN scan.taken /\ reqs[k] = scan.taken[k]
  BY <1>3, FittingIs
<1> HIDE DEF reqs
<1>5. \A r \in S : r \in Request /\ status[r] = "pending"
  <2>1. \A r \in scan.failed : r \in Request /\ status[r] = "pending"
    BY <1>2, <1>3
  <2>2. \A r \in heavy : \E k \in DOMAIN scan.taken : r = scan.taken[k]
    BY <1>3
  <2> HIDE DEF heavy
  <2> QED BY <1>2, <1>3, <2>1, <2>2
<1>6. \A k \in DOMAIN reqs : reqs # <<>> =>
        reqs[k] \in Request /\ reqs[k] \notin S /\ status[reqs[k]] = "pending"
  BY <1>2, <1>3, <1>4
<1> HIDE DEF S, tx
<1>7. /\ status' \in [Request -> Open \cup {"absent", "executed", "failed"}]
      /\ \A r \in Request : /\ status'[r] = "absent" <=> status[r] = "absent"
                            /\ status'[r] = "executed" <=> status[r] = "executed"
                            /\ status'[r] \in Open <=> (status[r] \in Open /\ r \notin S)
                            /\ r \notin S => status'[r] = status[r]
      /\ held' = held \ S
  BY <1>1, <1>5, Failing
<1>8. LoopInv'
  <2>1. CASE reqs # <<>> /\ loop' = [pc |-> "anchor", tx |-> tx]
    <3>1. loop'.tx.reqs = reqs /\ loop'.pc = "anchor"
      BY <2>1 DEF tx
    <3>2. Pending(loop.tx.reqs)' /\ Distinct(loop.tx.reqs)' /\ loop.tx.reqs' # <<>>
      BY <1>4, <1>6, <1>7, <2>1, <3>1 DEF Pending, Distinct
    <3> QED BY <3>1, <3>2 DEF LoopInv
  <2> QED BY <1>1, <2>1, IdleLoop
<1>9. FeesAreHeld'
  <2>1. held = {r \in Request : status[r] \in Open} /\ \A r, q \in held : r # q => coin[r] # coin[q]
    BY DEF Inv, FeesAreHeld
  <2>2. held' = {r \in Request : status'[r] \in Open}
    BY <1>7, <2>1
  <2> QED BY <1>1, <1>7, <2>1, <2>2 DEF FeesAreHeld, Open
<1>10. ResultInv' /\ ExecutedIsFinal'
  <2>1. UNCHANGED <<txs, depth>>
    BY <1>1 DEF chain
  <2>2. \A r \in Request : status'[r] \in Followed => status[r] \in Followed
    BY <1>7 DEF Followed, Open
  <2> QED BY <1>1, <1>7, <2>1, <2>2 DEF Inv, ResultInv, ExecutedIsFinal, InChain, Has
<1> QED BY <1>1, <1>7, <1>8, <1>9, <1>10, Work

-----------------------------------------------------------------------------
(* Operations that go through a list of requests. *)

LEMMA TodoTail ==
  ASSUME NEW s \in Seq(Request), s # <<>>, Distinct(s)
  PROVE  /\ Head(s) \in Request /\ Head(s) = s[1] /\ 1 \in DOMAIN s
         /\ Len(s) # 1 => Tail(s) # <<>>
         /\ Tail(s) \in Seq(Request) /\ Distinct(Tail(s))
         /\ \A k \in DOMAIN Tail(s) :
              k + 1 \in DOMAIN s /\ Tail(s)[k] = s[k + 1] /\ Tail(s)[k] # Head(s)
<1>1. Len(s) \in Nat /\ Len(s) > 0 /\ DOMAIN s = 1 .. Len(s)
  BY EmptySeq
<1>2. /\ Head(s) \in Request /\ Head(s) = s[1] /\ 1 \in DOMAIN s
  BY <1>1
<1>3. /\ Tail(s) \in Seq(Request) /\ Len(Tail(s)) = Len(s) - 1
      /\ \A k \in 1 .. Len(Tail(s)) : Tail(s)[k] = s[k + 1]
  BY <1>1, HeadTailProperties
<1>4. DOMAIN Tail(s) = 1 .. Len(s) - 1
  BY <1>1, <1>3
<1> DEFINE t == Tail(s)
<1> HIDE DEF t
<1>5. \A k \in DOMAIN t : k \in 1 .. Len(s) - 1 /\ k + 1 \in DOMAIN s /\ t[k] = s[k + 1]
  BY <1>1, <1>3, <1>4 DEF t
<1>6. \A k \in DOMAIN t : t[k] # Head(s)
  <2>1. \A k \in DOMAIN t : k + 1 # 1 /\ k + 1 \in DOMAIN s
    BY <1>1, <1>5
  <2> QED BY <1>2, <1>5, <2>1 DEF Distinct
<1>7. Distinct(t)
  <2> SUFFICES ASSUME NEW i \in DOMAIN t, NEW j \in DOMAIN t, t[i] = t[j] PROVE i = j
    BY DEF Distinct
  <2>1. i + 1 = j + 1
    BY <1>5 DEF Distinct
  <2> QED BY <1>1, <1>5, <2>1
<1>8. Len(s) # 1 => t # <<>>
  <2>1. Len(s) # 1 => Len(t) # 0
    BY <1>1, <1>3 DEF t
  <2> QED BY <2>1
<1> QED BY <1>2, <1>3, <1>5, <1>6, <1>7, <1>8 DEF t

(* What the list says of its first request. *)
LEMMA FirstTodo ==
  ASSUME Inv, loop.pc \in {"mark", "reconcile", "execute"}
  PROVE  /\ loop.todo \in Seq(Request) /\ loop.todo # <<>> /\ Distinct(loop.todo)
         /\ \A k \in DOMAIN loop.todo : status[loop.todo[k]] \in Open
         /\ Head(loop.todo) \in Request /\ status[Head(loop.todo)] \in Open
<1>1. Todo(loop.todo)
  BY DEF Inv, LoopInv
<1>2. Head(loop.todo) = loop.todo[1] /\ 1 \in DOMAIN loop.todo /\ Head(loop.todo) \in Request
  BY <1>1, TodoTail DEF Todo
<1> QED BY <1>1, <1>2 DEF Todo

(* What mark_processing leaves of the list. *)
Marked == IF Len(loop.todo) = 1 THEN Idle ELSE [loop EXCEPT !.todo = Tail(@)]

(* The first request is dealt with and the rest is left to do. *)
LEMMA RestInv ==
  ASSUME Inv, loop.pc \in {"mark", "reconcile", "execute"}, txs' = txs,
         \A r \in Request : (r # Head(loop.todo) /\ status[r] \in Open) => status'[r] \in Open,
         loop.pc # "mark" => result' = result,
         loop' = Idle \/ (loop.pc # "mark" /\ loop' = Rest)
         \/ (loop.pc = "mark" /\ loop' = Marked)
  PROVE  LoopInv'
<1> DEFINE s == loop.todo
           t == Tail(loop.todo)
<1>1. /\ s \in Seq(Request) /\ s # <<>> /\ Distinct(s)
      /\ \A k \in DOMAIN s : status[s[k]] \in Open /\ s[k] \in Request
  BY FirstTodo
<1>2. CASE /\ Len(s) # 1
           /\ \/ loop.pc = "mark" /\ loop' = [loop EXCEPT !.todo = t]
              \/ loop.pc # "mark" /\ loop' = [pc |-> "reconcile", todo |-> t]
  <2>1. /\ t # <<>> /\ t \in Seq(Request) /\ Distinct(t)
        /\ \A k \in DOMAIN t : k + 1 \in DOMAIN s /\ t[k] = s[k + 1] /\ t[k] # Head(s)
    BY <1>1, <1>2, TodoTail
  <2>2. \A k \in DOMAIN t : status'[t[k]] \in Open
    BY <1>1, <2>1
  <2>3. CASE loop.pc = "mark"
    <3> DEFINE id == loop.id
    <3>1. /\ loop = [pc |-> "mark", todo |-> s, id |-> id] /\ id \in DOMAIN txs
          /\ \A k \in DOMAIN s : Has(id, s[k])
      BY <2>3 DEF Inv, LoopInv
    <3> HIDE DEF t, id
    <3>2. loop' = [pc |-> "mark", todo |-> t, id |-> id]
      BY <1>2, <3>1
    <3>3. \A k \in DOMAIN t : Has(id, t[k])
      BY <2>1, <3>1
    <3>4. loop'.todo = t /\ loop'.id = id /\ loop'.pc = "mark"
      BY <3>2
    <3>5. Todo(loop.todo)'
      BY <2>1, <2>2, <3>4 DEF Todo, Distinct
    <3>6. (\A k \in DOMAIN loop.todo : Has(loop.id, loop.todo[k]))'
      BY <3>3, <3>4 DEF Has
    <3> QED BY <3>1, <3>2, <3>4, <3>5, <3>6 DEF LoopInv
  <2>4. CASE loop.pc \in {"reconcile", "execute"}
    <3>1. \A k \in DOMAIN s : result'[s[k]] # 0
      BY <2>4 DEF Inv, LoopInv
    <3> HIDE DEF t
    <3>2. loop' = [pc |-> "reconcile", todo |-> t]
      BY <1>2, <2>4
    <3>3. loop'.todo = t /\ loop'.pc = "reconcile"
      BY <3>2
    <3>4. Todo(loop.todo)'
      BY <2>1, <2>2, <3>3 DEF Todo, Distinct
    <3>5. (\A k \in DOMAIN loop.todo : result[loop.todo[k]] # 0)'
      BY <2>1, <3>1, <3>3
    <3> QED BY <3>2, <3>3, <3>4, <3>5 DEF LoopInv
  <2> QED BY <2>3, <2>4
<1> QED BY <1>2, IdleLoop DEF Rest, Marked

(* The first request gets another status. *)
LEMMA RowStep ==
  ASSUME Inv, loop.pc \in {"mark", "reconcile", "execute"}, NEW v \in Open \cup {"executed"},
         status' = [status EXCEPT ![Head(loop.todo)] = v],
         held' = (IF v = "executed" THEN held \ {Head(loop.todo)} ELSE held),
         coin' = coin
  PROVE  /\ status' \in [Request -> Open \cup {"absent", "executed", "failed"}]
         /\ \A r \in Request : status'[r] = "absent" <=> status[r] = "absent"
         /\ \A r \in Request :
              r # Head(loop.todo) => status'[r] = status[r]
         /\ status'[Head(loop.todo)] = v
         /\ FeesAreHeld'
<1> DEFINE h == Head(loop.todo)
<1>1. h \in Request /\ status[h] \in Open
  BY FirstTodo
<1>2. status \in [Request -> Open \cup {"absent", "executed", "failed"}]
  BY DEF Inv, RowsInv
<1> HIDE DEF h
<1>3. status' = [status EXCEPT ![h] = v] /\ held' = IF v = "executed" THEN held \ {h} ELSE held
  BY DEF h
<1>4. status' \in [Request -> Open \cup {"absent", "executed", "failed"}]
  BY <1>1, <1>2, <1>3
<1>5. (\A r \in Request : r # h => status'[r] = status[r]) /\ status'[h] = v
  BY <1>1, <1>2, <1>3
<1>6. \A r \in Request : status'[r] = "absent" <=> status[r] = "absent"
  BY <1>1, <1>5 DEF Open
<1>7. held = {r \in Request : status[r] \in Open} /\ \A r, q \in held : r # q => coin[r] # coin[q]
  BY DEF Inv, FeesAreHeld
<1>8. v \in Open <=> v # "executed"
  BY DEF Open
<1>9. held' = {r \in Request : status'[r] \in Open}
  BY <1>1, <1>3, <1>5, <1>7, <1>8
<1>10. FeesAreHeld'
  <2>1. \A r, q \in held' : r # q => coin'[r] # coin'[q]
    BY <1>3, <1>7
  <2> QED BY <1>9, <2>1 DEF FeesAreHeld, Open
<1> QED BY <1>4, <1>5, <1>6, <1>10 DEF h

LEMMA MarkProcessingInv == ASSUME Inv, MarkProcessing PROVE Inv'
<1> DEFINE h == Head(loop.todo)
<1>1. /\ loop.pc = "mark" /\ held' = held
      /\ status' = [status EXCEPT ![h] = "processing"]
      /\ result' = [result EXCEPT ![h] = loop.id]
      /\ UNCHANGED <<order, coin, checked, chain, txs, depth>>
  BY DEF MarkProcessing, chain
<1>2. "processing" \in Open \cup {"executed"} /\ "processing" # "executed"
  BY DEF Open
<1>3. /\ status' \in [Request -> Open \cup {"absent", "executed", "failed"}]
      /\ \A r \in Request : status'[r] = "absent" <=> status[r] = "absent"
      /\ \A r \in Request : r # h => status'[r] = status[r]
      /\ status'[h] = "processing" /\ FeesAreHeld'
  BY <1>1, <1>2, RowStep
<1>4. LoopInv'
  <2>1. loop' = Marked
    BY DEF MarkProcessing, Marked
  <2> QED BY <1>1, <1>3, <2>1, RestInv
<1>5. h \in Request /\ status[h] \in Open
  BY <1>1, FirstTodo
<1>6. loop.id \in DOMAIN txs /\ Has(loop.id, h)
  <2>1. loop.id \in DOMAIN txs /\ \A k \in DOMAIN loop.todo : Has(loop.id, loop.todo[k])
    BY <1>1 DEF Inv, LoopInv
  <2>2. h = loop.todo[1] /\ 1 \in DOMAIN loop.todo
    BY <1>1, FirstTodo, TodoTail
  <2> QED BY <2>1, <2>2
<1> HIDE DEF h
<1>7. ResultInv'
  <2>1. loop.id \in 0 .. MaxTxs
    BY <1>6, Bounds DEF Inv, ChainInv
  <2>2. result \in [Request -> 0 .. MaxTxs]
        /\ \A r \in Request : result[r] # 0 => result[r] \in DOMAIN txs /\ Has(result[r], r)
    BY DEF Inv, ResultInv
  <2>3. result' \in [Request -> 0 .. MaxTxs] /\ result'[h] = loop.id
        /\ \A r \in Request : r # h => result'[r] = result[r]
    BY <1>1, <1>5, <2>1, <2>2
  <2>4. \A r \in Request : result'[r] # 0 => result'[r] \in DOMAIN txs /\ Has(result'[r], r)
    BY <1>6, <2>2, <2>3
  <2>5. \A r \in Request : status'[r] \in Followed => result'[r] # 0
    <3>1. loop.id # 0
      BY <1>6 DEF Inv, ChainInv
    <3> QED BY <1>3, <2>3, <3>1 DEF Inv, ResultInv
  <2> QED BY <1>1, <2>3, <2>4, <2>5 DEF ResultInv, Has
<1>8. ExecutedIsFinal'
  <2>1. \A r \in Request : r # h => result'[r] = result[r]
    BY <1>1, <1>5 DEF Inv, ResultInv
  <2>2. \A r \in Request : status'[r] = "executed" => status[r] = "executed" /\ r # h
    BY <1>3
  <2> QED BY <1>1, <2>1, <2>2 DEF Inv, ExecutedIsFinal, InChain, Has
<1> QED BY <1>1, <1>3, <1>4, <1>7, <1>8, Work

LEMMA HeadHasResult ==
  ASSUME Inv, loop.pc \in {"reconcile", "execute"}
  PROVE  result[Head(loop.todo)] # 0 /\ result[Head(loop.todo)] \in DOMAIN txs
<1>1. Head(loop.todo) = loop.todo[1] /\ 1 \in DOMAIN loop.todo /\ Head(loop.todo) \in Request
  BY FirstTodo, TodoTail
<1>2. result[Head(loop.todo)] # 0
  BY <1>1 DEF Inv, LoopInv
<1> QED BY <1>1, <1>2 DEF Inv, ResultInv

LEMMA AwaitBlockInv == ASSUME Inv, AwaitBlock PROVE Inv'
<1> DEFINE h == Head(loop.todo)
<1>1. /\ loop.pc = "reconcile" /\ held' = held
      /\ status' = [status EXCEPT ![h] = "processing"]
      /\ UNCHANGED <<order, coin, checked, chain, txs, depth, result>>
  BY DEF AwaitBlock, Orphan, chain
<1>2. "processing" \in Open \cup {"executed"} /\ "processing" # "executed"
  BY DEF Open
<1>3. /\ status' \in [Request -> Open \cup {"absent", "executed", "failed"}]
      /\ \A r \in Request : status'[r] = "absent" <=> status[r] = "absent"
      /\ \A r \in Request : r # h => status'[r] = status[r]
      /\ status'[h] = "processing" /\ FeesAreHeld'
  BY <1>1, <1>2, RowStep
<1>4. LoopInv'
  <2>1. loop' = Idle \/ loop' = Rest
    BY DEF AwaitBlock
  <2> QED BY <1>1, <1>3, <2>1, RestInv
<1> HIDE DEF h
<1>5. ResultInv'
  BY <1>1, <1>3, HeadHasResult DEF Inv, ResultInv, Has, h
<1>6. ExecutedIsFinal'
  BY <1>1, <1>3 DEF Inv, ExecutedIsFinal, InChain, Has
<1> QED BY <1>1, <1>3, <1>4, <1>5, <1>6, Work

LEMMA IncludeInv == ASSUME Inv, Include PROVE Inv'
<1> DEFINE h == Head(loop.todo)
           s == loop.todo
<1>1. /\ loop.pc = "reconcile" /\ result[h] \in InChain /\ held' = held
      /\ status' = [status EXCEPT ![h] = "included"]
      /\ UNCHANGED <<order, coin, checked, chain, txs, depth, result>>
  BY DEF Include, chain
<1>2. "included" \in Open \cup {"executed"} /\ "included" # "executed"
  BY DEF Open
<1>3. /\ status' \in [Request -> Open \cup {"absent", "executed", "failed"}]
      /\ \A r \in Request : status'[r] = "absent" <=> status[r] = "absent"
      /\ \A r \in Request : r # h => status'[r] = status[r]
      /\ status'[h] = "included" /\ FeesAreHeld'
  BY <1>1, <1>2, RowStep
<1>4. LoopInv'
  <2>1. CASE loop' = Rest
    BY <1>1, <1>3, <2>1, RestInv
  <2>2. CASE IsFinal(result[h]) /\ loop' = [pc |-> "execute", todo |-> s]
    <3>1. /\ s \in Seq(Request) /\ s # <<>> /\ Distinct(s)
          /\ \A k \in DOMAIN s : s[k] \in Request /\ status[s[k]] \in Open /\ result[s[k]] # 0
      BY <1>1, FirstTodo DEF Inv, LoopInv
    <3>2. result[h] \in TxId /\ depth[result[h]] = Finality
      <4>1. result[h] \in TxId /\ depth[result[h]] >= Finality
        BY <1>1, <2>2 DEF InChain, IsFinal
      <4>2. depth[result[h]] \in 0 .. Finality
        BY <4>1 DEF Inv, ChainInv
      <4> QED BY <4>1, <4>2, Bounds
    <3> HIDE DEF s
    <3>3. loop'.pc = "execute" /\ loop'.todo = s
      BY <2>2
    <3>4. \A k \in DOMAIN s : status'[s[k]] \in Open
      BY <1>2, <1>3, <3>1
    <3>5. Todo(loop.todo)'
      BY <3>1, <3>3, <3>4 DEF Todo, Distinct
    <3>6. FinalNow(result[Head(loop.todo)])'
      BY <1>1, <3>2, <3>3 DEF FinalNow, s
    <3>7. (\A k \in DOMAIN loop.todo : result[loop.todo[k]] # 0)'
      BY <1>1, <3>1, <3>3
    <3> QED BY <2>2, <3>3, <3>5, <3>6, <3>7 DEF LoopInv
  <2> QED BY <2>1, <2>2 DEF Include
<1> HIDE DEF h
<1>5. ResultInv'
  <2>1. result[h] # 0
    BY <1>1, HeadHasResult DEF h
  <2> QED BY <1>1, <1>3, <2>1 DEF Inv, ResultInv, Has
<1>6. ExecutedIsFinal'
  BY <1>1, <1>3 DEF Inv, ExecutedIsFinal, InChain, Has
<1> QED BY <1>1, <1>3, <1>4, <1>5, <1>6, Work

LEMMA ExecuteInv == ASSUME Inv, Execute PROVE Inv'
<1> DEFINE h == Head(loop.todo)
           v == IF status[h] = "included" THEN "executed" ELSE status[h]
<1>1. /\ loop.pc = "execute" /\ loop' = Rest
      /\ UNCHANGED <<order, coin, checked, chain, txs, depth, result>>
  BY DEF Execute, chain
<1>2. h \in Request /\ status[h] \in Open
  BY <1>1, FirstTodo
<1>3. status \in [Request -> Open \cup {"absent", "executed", "failed"}]
  BY DEF Inv, RowsInv
<1>4. /\ v \in Open \cup {"executed"}
      /\ v = "executed" <=> status[h] = "included"
  BY <1>2 DEF Open
<1>5. status' = [status EXCEPT ![h] = v]
  <2>1. CASE status[h] = "included"
    <3>1. status' = [q \in Request |-> IF q = h THEN "executed" ELSE status[q]]
      BY <2>1 DEF Execute
    <3> QED BY <1>2, <1>3, <2>1, <3>1
  <2>2. CASE status[h] # "included"
    <3>1. status' = [q \in Request |-> status[q]]
      BY <2>2 DEF Execute
    <3> QED BY <1>2, <1>3, <2>2, <3>1
  <2> QED BY <2>1, <2>2
<1>6. held' = IF v = "executed" THEN held \ {h} ELSE held
  <2> HIDE DEF v
  <2>1. held' = held \ (IF status[h] = "included" THEN {h} ELSE {})
    BY DEF Execute
  <2> QED BY <1>4, <2>1
<1> HIDE DEF v
<1>7. /\ status' \in [Request -> Open \cup {"absent", "executed", "failed"}]
      /\ \A r \in Request : status'[r] = "absent" <=> status[r] = "absent"
      /\ \A r \in Request : r # h => status'[r] = status[r]
      /\ status'[h] = v /\ FeesAreHeld'
  BY <1>1, <1>4, <1>5, <1>6, RowStep
<1>8. LoopInv'
  BY <1>1, <1>7, RestInv
<1>9. FinalNow(result[h]) /\ result[h] # 0
  BY <1>1, HeadHasResult DEF Inv, LoopInv
<1> HIDE DEF h
<1>10. ResultInv'
  BY <1>1, <1>7, <1>9 DEF Inv, ResultInv, Has
<1>11. ExecutedIsFinal'
  <2>1. result[h] \in InChain /\ depth[result[h]] = Finality /\ Has(result[h], h)
    <3>1. result[h] \in TxId /\ depth[result[h]] = Finality
      BY <1>9 DEF FinalNow
    <3>2. Has(result[h], h)
      BY <1>2, <1>9 DEF Inv, ResultInv
    <3> QED BY <3>1, <3>2, Bounds DEF InChain
  <2>2. \A r \in Request : status'[r] = "executed" =>
          result[r] \in InChain /\ depth[result[r]] = Finality /\ Has(result[r], r)
    BY <1>7, <2>1 DEF Inv, ExecutedIsFinal
  <2> QED BY <1>1, <2>2 DEF ExecutedIsFinal, InChain, Has
<1> QED BY <1>1, <1>7, <1>8, <1>10, <1>11, Work

(* A transaction that the mempool takes spends what nothing else spends. *)
LEMMA NoClash ==
  ASSUME NEW t, Accepts(t), NEW j \in Live
  PROVE  Fees(t) \cap Fees(txs[j]) = {} /\ Fees(txs[j]) \cap Fees(t) = {}
  BY DEF Accepts, Conflict

LEMMA ResendInv == ASSUME Inv, Resend PROVE Inv'
<1> DEFINE h == Head(loop.todo)
           i == result[h]
<1>1. /\ loop.pc = "reconcile" /\ i \notin Live /\ held' = held
      /\ status' = [status EXCEPT ![h] = "processing"]
      /\ UNCHANGED <<order, coin, checked, txs, depth, result, spent, freed>>
  BY DEF Resend, Orphan
<1>2. "processing" \in Open \cup {"executed"} /\ "processing" # "executed"
  BY DEF Open
<1>3. /\ status' \in [Request -> Open \cup {"absent", "executed", "failed"}]
      /\ \A r \in Request : status'[r] = "absent" <=> status[r] = "absent"
      /\ \A r \in Request : r # h => status'[r] = status[r]
      /\ status'[h] = "processing" /\ FeesAreHeld'
  BY <1>1, <1>2, RowStep
<1>4. LoopInv'
  <2>1. loop' = Idle \/ loop' = Rest
    BY DEF Resend
  <2> QED BY <1>1, <1>3, <2>1, RestInv
<1>5. pool' = pool \/ (Accepts(txs[i]) /\ pool' = pool \cup {i})
  BY DEF Resend
<1>6. h \in Request
  BY <1>1, FirstTodo
<1>7. i \in DOMAIN txs /\ i \in TxId /\ depth[i] = 0
  <2>1. i \in DOMAIN txs /\ i # 0
    BY <1>1, HeadHasResult
  <2>2. i \in TxId
    <3>1. result[h] \in 0 .. MaxTxs
      <4> HIDE DEF h
      <4> QED BY <1>6 DEF Inv, ResultInv
    <3> HIDE DEF h
    <3> QED BY <2>1, <3>1, Bounds DEF TxId
  <2>3. depth[i] \in 0 .. Finality /\ ~(depth[i] > 0)
    BY <1>1, <2>2 DEF Live, InChain, Inv, ChainInv
  <2> QED BY <2>1, <2>2, <2>3, Bounds
<1> HIDE DEF h, i
<1>8. ChainInv'
  BY <1>1, <1>5, <1>7 DEF Inv, ChainInv
<1>9. Live' = Live \/ (Accepts(txs[i]) /\ Live' = Live \cup {i})
  BY <1>1, <1>5 DEF Live, InChain
<1>10. \A k \in DOMAIN txs : Listed(txs[k].reqs)' /\ Freed(txs[k])' /\ Fees(txs[k])' = Fees(txs[k])
  <2>1. \A q : Listed(q) => Listed(q)'
    BY <1>3 DEF Listed
  <2>2. \A t : Fees(t)' = Fees(t)
    BY <1>1 DEF Fees
  <2>3. \A t : Freed(t)' <=> Freed(t)
    BY <1>1, <2>2 DEF Freed
  <2>4. \A k \in DOMAIN txs : Listed(txs[k].reqs) /\ Freed(txs[k])
    BY DEF Inv, TxsInv
  <2>5. txs' = txs
    BY <1>1
  <2> QED BY <2>4, <2>5, <1>1, <1>3 DEF Listed, Freed, Fees
<1>11. TxsInv'
  <2>1. \A k \in Live : k \in DOMAIN txs
    BY DEF Live, InChain, Inv, ChainInv
  <2>2. \A k, j \in Live : k # j => Fees(txs[k]) \cap Fees(txs[j]) = {}
    BY DEF Inv, TxsInv
  <2>3. \A k, j \in Live' : k # j => Fees(txs[k]) \cap Fees(txs[j]) = {}
    BY <1>9, <2>2, NoClash
  <2>4. \A k \in Live' : k \in DOMAIN txs
    BY <1>7, <1>9, <2>1
  <2>5. \A k, j \in Live' : k # j => Fees(txs[k])' \cap Fees(txs[j])' = {}
    BY <1>10, <2>3, <2>4
  <2> QED BY <1>1, <1>10, <2>5 DEF TxsInv
<1>12. RowsInv' /\ CoinInv' /\ SpentInv'
  <2>1. RowsInv'
    BY <1>1, <1>3 DEF Inv, RowsInv, Distinct
  <2>2. CoinInv'
    BY <1>1, <1>3 DEF Inv, CoinInv, Has
  <2>3. SpentInv'
    BY <1>1 DEF Inv, SpentInv, Has
  <2> QED BY <2>1, <2>2, <2>3
<1>13. ResultInv'
  <2>1. result[h] # 0
    BY <1>1, HeadHasResult DEF h
  <2> QED BY <1>1, <1>3, <2>1 DEF Inv, ResultInv, Has
<1>14. ExecutedIsFinal'
  BY <1>1, <1>3 DEF Inv, ExecutedIsFinal, InChain, Has
<1> QED BY <1>3, <1>4, <1>8, <1>11, <1>12, <1>13, <1>14 DEF Inv

LEMMA SendInv == ASSUME Inv, Send PROVE Inv'
<1> DEFINE tx == loop.tx
           id == Len(txs) + 1
<1>1. /\ loop.pc = "send" /\ id <= MaxTxs
      /\ UNCHANGED <<rows, checked, depth, spent, last, freed, status, order, coin, held, result>>
  BY DEF Send, rows
<1>2. CASE ~Accepts(tx)
  <2>1. loop' = Idle /\ UNCHANGED chain
    BY <1>1, <1>2 DEF Send, chain
  <2> QED BY <1>1, <2>1, IdleLoop, Thought
<1>3. CASE Accepts(tx)
  <2>1. /\ txs' = Append(txs, tx) /\ pool' = pool \cup {id}
        /\ loop' = [pc |-> "mark", todo |-> tx.reqs, id |-> id]
    BY <1>3 DEF Send
  <2>2. Pending(tx.reqs) /\ Distinct(tx.reqs) /\ tx.reqs # <<>> /\ Freed(tx)
    BY <1>1 DEF Inv, LoopInv
  <2> HIDE DEF tx
  <2>3. /\ txs' \in Seq(Range(txs')) /\ Len(txs') = Len(txs) + 1 /\ Len(txs) \in Nat
        /\ \A i \in 1 .. Len(txs) : txs'[i] = txs[i]
        /\ txs'[id] = tx
        /\ DOMAIN txs' = 1 .. Len(txs) + 1 /\ DOMAIN txs = 1 .. Len(txs)
    <3> DEFINE A == Range(txs) \cup {tx}
    <3>1. txs \in Seq(Range(txs))
      BY DEF Inv, ChainInv
    <3>2. txs \in Seq(A)
      BY <3>1, SeqMonotonic
    <3>3. tx \in A
      OBVIOUS
    <3> HIDE DEF A
    <3>4. /\ txs' \in Seq(A) /\ Len(txs') = Len(txs) + 1
          /\ \A i \in 1 .. Len(txs) : txs'[i] = txs[i]
          /\ txs'[id] = tx
      BY <2>1, <3>2, <3>3, AppendProperties
    <3>5. txs' \in Seq(Range(txs'))
      BY <3>4, SeqOfRange
    <3> QED BY <3>2, <3>4, <3>5
  <2>4. \A i \in DOMAIN txs : i \in DOMAIN txs' /\ txs'[i] = txs[i] /\ i # id
    BY <2>3
  <2>5. id \in TxId /\ id \notin DOMAIN txs /\ id \in DOMAIN txs'
    BY <1>1, <2>3, Bounds DEF TxId
  <2>6. depth[id] = 0
    BY <2>5, Bounds DEF Inv, ChainInv
  <2>7. \A i \in DOMAIN txs' : i \in DOMAIN txs \/ i = id
    BY <2>3
  <2> HIDE DEF id
  <2>8. ChainInv'
    <3>1. Len(txs') <= MaxTxs
      BY <1>1, <2>3 DEF id
    <3>2. \A i \in TxId : depth'[i] > 0 => i \in DOMAIN txs'
      BY <1>1, <2>4 DEF Inv, ChainInv
    <3>3. pool' \subseteq DOMAIN txs' /\ \A i \in pool' : depth'[i] = 0
      BY <1>1, <2>1, <2>4, <2>5, <2>6 DEF Inv, ChainInv
    <3> QED BY <1>1, <2>3, <3>1, <3>2, <3>3 DEF Inv, ChainInv
  <2>9. RowsInv'
    BY <1>1 DEF Inv, RowsInv, Distinct
  <2>10. CoinInv'
    BY <1>1, <2>4 DEF Inv, CoinInv, Has
  <2>11. Live' = Live \cup {id} /\ \A i \in Live : i \in DOMAIN txs
    BY <1>1, <2>1 DEF Live, InChain, Inv, ChainInv
  <2>12. Listed(tx.reqs)
    BY <2>2 DEF Pending, Listed
  <2>13. TxsInv'
    <3>1. \A i \in DOMAIN txs : Listed(txs[i].reqs) /\ Freed(txs[i])
      BY DEF Inv, TxsInv
    <3>2. \A i \in DOMAIN txs' : Listed(txs'[i].reqs) /\ Freed(txs'[i])
      BY <2>2, <2>3, <2>4, <2>7, <2>12, <3>1 DEF id
    <3>3. \A i \in DOMAIN txs' : (Listed(txs[i].reqs) /\ Freed(txs[i]))'
      BY <1>1, <3>2 DEF Listed, Freed, Fees
    <3>4. \A i, j \in Live : i # j => Fees(txs[i]) \cap Fees(txs[j]) = {}
      BY DEF Inv, TxsInv
    <3>5. \A j \in Live : Fees(tx) \cap Fees(txs[j]) = {} /\ Fees(txs[j]) \cap Fees(tx) = {}
      BY <1>3, NoClash
    <3>6. txs'[id] = tx
      BY <2>3
    <3>7. \A i, j \in Live' : i # j => Fees(txs'[i]) \cap Fees(txs'[j]) = {}
      BY <2>4, <2>11, <3>4, <3>5, <3>6
    <3>8. \A i, j \in Live' : i # j => Fees(txs[i])' \cap Fees(txs[j])' = {}
      BY <1>1, <3>7 DEF Fees
    <3> QED BY <3>3, <3>8 DEF TxsInv
  <2>14. SpentInv'
    <3> SUFFICES ASSUME NEW r \in spent
                 PROVE  \E j \in TxId : /\ depth'[j] >= 2 /\ r \in Range(txs'[j].reqs)
                                        /\ [tx |-> j, of |-> r] \in freed'
      BY <1>1 DEF SpentInv, Has
    <3>1. PICK j \in TxId : depth[j] >= 2 /\ Has(j, r) /\ [tx |-> j, of |-> r] \in freed
      BY DEF Inv, SpentInv
    <3>2. depth[j] > 0
      BY <3>1, Bounds DEF Inv, ChainInv
    <3>3. txs'[j] = txs[j]
      BY <2>4, <3>2 DEF Inv, ChainInv
    <3> QED BY <1>1, <3>1, <3>3 DEF Has
  <2>15. LoopInv'
    <3> DEFINE q == tx.reqs
    <3>1. /\ q \in Seq(Request) /\ q # <<>> /\ Distinct(q)
          /\ \A k \in DOMAIN q : status'[q[k]] \in Open
      BY <1>1, <2>2 DEF Pending, Open
    <3>2. \A k \in DOMAIN q : q[k] \in Range(txs'[id].reqs)
      BY <2>3 DEF Range
    <3> HIDE DEF q
    <3>3. loop' = [pc |-> "mark", todo |-> q, id |-> id]
      BY <2>1 DEF q
    <3>4. loop'.todo = q /\ loop'.id = id /\ loop'.pc = "mark"
      BY <3>3
    <3>5. Todo(loop.todo)'
      BY <3>1, <3>4 DEF Todo, Distinct
    <3>6. (\A k \in DOMAIN loop.todo : Has(loop.id, loop.todo[k]))'
      BY <3>2, <3>4 DEF Has
    <3> QED BY <2>5, <3>3, <3>4, <3>5, <3>6 DEF LoopInv
  <2>16. FeesAreHeld'
    BY <1>1 DEF Inv, FeesAreHeld
  <2>17. ResultInv'
    BY <1>1, <2>4 DEF Inv, ResultInv, Has
  <2>18. ExecutedIsFinal'
    <3>1. \A i \in InChain : i \in DOMAIN txs
      BY DEF InChain, Inv, ChainInv
    <3> QED BY <1>1, <2>4, <3>1 DEF Inv, ExecutedIsFinal, InChain, Has
  <2> QED BY <2>8, <2>9, <2>10, <2>13, <2>14, <2>15, <2>16, <2>17, <2>18 DEF Inv
<1> QED BY <1>2, <1>3

-----------------------------------------------------------------------------
(* The API and the index, beside the main loop. *)

(* The main loop goes on as long as open requests stay open, and what it   *)
(* is about to issue stays as it was.                                      *)
LEMMA LoopBeside ==
  ASSUME Inv, loop' = loop \/ NewTip, txs' = txs, result' = result, freed \subseteq freed',
         \A i \in TxId : depth[i] = Finality => depth'[i] = Finality,
         \A r \in Request : /\ status[r] \in Open => status'[r] \in Open /\ coin'[r] = coin[r]
                            /\ status[r] = "pending" => status'[r] = "pending"
  PROVE  LoopInv'
<1> DEFINE tx == loop.tx
           tip == IF loop' = loop THEN loop.tip ELSE FALSE
<1>1. /\ loop.pc \in {"anchor", "sign", "send"} =>
           Pending(tx.reqs) /\ Distinct(tx.reqs) /\ tx.reqs # <<>>
      /\ loop.pc = "send" => Freed(tx)
      /\ loop.pc \in {"mark", "reconcile", "execute"} => Todo(loop.todo)
  BY DEF Inv, LoopInv
<1>2. \/ loop' = loop
      \/ loop.pc = "sign" /\ loop' = [pc |-> "sign", tx |-> tx, tip |-> FALSE]
  <2>1. CASE loop' # loop
    <3>1. loop.pc = "sign" /\ loop' = [loop EXCEPT !.tip = FALSE]
      BY <2>1 DEF NewTip
    <3>2. loop = [pc |-> "sign", tx |-> loop.tx, tip |-> loop.tip]
      BY <3>1 DEF Inv, LoopInv
    <3> DEFINE t == loop.tip
    <3> HIDE DEF tx, t
    <3>3. loop = [pc |-> "sign", tx |-> tx, tip |-> t]
      BY <3>2 DEF tx, t
    <3> QED BY <3>1, <3>3
  <2> QED BY <2>1
<1>3. /\ loop'.pc = loop.pc
      /\ loop.pc \in {"anchor", "sign", "send"} => loop'.tx = tx
      /\ loop.pc # "sign" => loop' = loop
  BY <1>2
<1>4. "pending" \in Open
  BY DEF Open
<1> HIDE DEF tx
<1>6. loop.pc \in {"anchor", "sign", "send"} =>
        Pending(loop.tx.reqs)' /\ Distinct(loop.tx.reqs)' /\ loop.tx.reqs' # <<>>
  <2> SUFFICES ASSUME loop.pc \in {"anchor", "sign", "send"}
               PROVE  Pending(loop.tx.reqs)' /\ Distinct(loop.tx.reqs)' /\ loop.tx.reqs' # <<>>
    OBVIOUS
  <2>1. \A k \in DOMAIN tx.reqs : tx.reqs[k] \in Request /\ status[tx.reqs[k]] = "pending"
    BY <1>1 DEF Pending
  <2> QED BY <1>1, <1>3, <2>1 DEF Pending, Distinct
<1>7. loop.pc = "send" => Freed(loop.tx)'
  <2> SUFFICES ASSUME loop.pc = "send" PROVE Freed(loop.tx)'
    OBVIOUS
  <2> DEFINE q == tx.reqs
  <2>1. q \in Seq(Request) /\ \A k \in DOMAIN q : q[k] \in Request /\ coin'[q[k]] = coin[q[k]]
    BY <1>1, <1>4 DEF Pending
  <2>2. loop'.tx.reqs = q
    BY <1>3
  <2> HIDE DEF q
  <2>3. {coin'[r] : r \in Range(q)} = {coin[r] : r \in Range(q)}
    BY <2>1 DEF Range
  <2>4. Fees(loop.tx)' = Fees(tx)
    BY <2>2, <2>3 DEF Fees, q
  <2> QED BY <1>1, <2>4 DEF Freed
<1>8. loop.pc \in {"mark", "reconcile", "execute"} => Todo(loop.todo)'
  <2> SUFFICES ASSUME loop.pc \in {"mark", "reconcile", "execute"} PROVE Todo(loop.todo)'
    OBVIOUS
  <2>1. loop' = loop
    BY <1>3
  <2>2. \A k \in DOMAIN loop.todo : loop.todo[k] \in Request /\ status[loop.todo[k]] \in Open
    BY <1>1 DEF Todo
  <2> QED BY <1>1, <2>1, <2>2 DEF Todo, Distinct
<1>9. loop'.pc = "sign" => loop' = [pc |-> "sign", tx |-> loop'.tx, tip |-> loop'.tip]
  BY <1>2 DEF Inv, LoopInv
<1>10. loop'.pc = "mark" =>
         /\ loop' = [pc |-> "mark", todo |-> loop'.todo, id |-> loop'.id]
         /\ loop'.id \in DOMAIN txs' /\ \A k \in DOMAIN loop'.todo : loop'.todo[k] \in Range(txs'[loop'.id].reqs)
  BY <1>3 DEF Inv, LoopInv, Has
<1>11. /\ loop'.pc \in {"reconcile", "execute"} =>
            /\ loop' = [pc |-> loop'.pc, todo |-> loop'.todo]
            /\ \A k \in DOMAIN loop'.todo : result'[loop'.todo[k]] # 0
       /\ loop'.pc = "execute" => FinalNow(result[Head(loop.todo)])'
  BY <1>3 DEF Inv, LoopInv, FinalNow
<1>12. loop'.pc \in {"idle", "anchor", "sign", "send", "mark", "reconcile", "execute"}
  BY <1>3 DEF Inv, LoopInv
<1> QED BY <1>3, <1>6, <1>7, <1>8, <1>9, <1>10, <1>11, <1>12 DEF LoopInv, Has

LEMMA SyncInv == ASSUME Inv, Sync PROVE Inv'
<1>0. CASE Reindex \/ Index
  <2>1. UNCHANGED <<status, order, coin, held, result, checked, loop, chain, txs, depth, freed>>
    BY <1>0 DEF Reindex, Index, chain, rows
  <2>2. LoopInv'
    BY <2>1, LoopBeside
  <2>3. FeesAreHeld' /\ ResultInv' /\ ExecutedIsFinal'
    BY <2>1 DEF Inv, FeesAreHeld, ResultInv, ExecutedIsFinal, InChain, Has
  <2>4. status' \in [Request -> Open \cup {"absent", "executed", "failed"}]
    BY <2>1 DEF Inv, RowsInv
  <2> QED BY <2>1, <2>2, <2>3, <2>4, Work
<1> SUFFICES ASSUME Reset PROVE Inv'
  BY <1>0 DEF Sync
<1>1. /\ UNCHANGED <<order, coin, held, result, checked, loop, chain, txs, depth, freed>>
      /\ status' = [r \in Request |-> IF status[r] = "included" THEN "processing" ELSE status[r]]
  BY DEF Reset, chain
<1>2. status \in [Request -> Open \cup {"absent", "executed", "failed"}]
  BY DEF Inv, RowsInv
<1>3. /\ status' \in [Request -> Open \cup {"absent", "executed", "failed"}]
      /\ \A r \in Request : /\ status'[r] = "absent" <=> status[r] = "absent"
                            /\ status'[r] = "executed" <=> status[r] = "executed"
                            /\ status'[r] \in Open <=> status[r] \in Open
                            /\ status'[r] \in Followed <=> status[r] \in Followed
                            /\ status[r] = "pending" => status'[r] = "pending"
  BY <1>1, <1>2 DEF Open, Followed
<1>4. LoopInv'
  BY <1>1, <1>3, LoopBeside
<1>5. FeesAreHeld'
  BY <1>1, <1>3 DEF Inv, FeesAreHeld
<1>6. ResultInv'
  BY <1>1, <1>3 DEF Inv, ResultInv, Has
<1>7. ExecutedIsFinal'
  BY <1>1, <1>3 DEF Inv, ExecutedIsFinal, InChain, Has
<1> QED BY <1>1, <1>3, <1>4, <1>5, <1>6, <1>7, Work

LEMMA CheckFeeInv ==
  ASSUME Inv, NEW r \in Request, NEW c \in Offers(r), CheckFee(r, c)
  PROVE  Inv'
<1>1. /\ UNCHANGED <<status, order, held, result, chain, loop, txs, depth, freed>>
      /\ status[r] = "absent"
      /\ checked' = checked \cup {r} /\ coin' = [coin EXCEPT ![r] = c]
  BY DEF CheckFee, chain
<1>2. c \in Coin /\ (c.tx # 0 => c.tx \in InChain /\ Has(c.tx, c.of))
  BY DEF Offers
<1>3. coin \in [Request -> Coin \cup {None}]
  BY DEF Inv, CoinInv
<1>4. /\ coin' \in [Request -> Coin \cup {None}] /\ coin'[r] = c
      /\ \A q \in Request : q # r => coin'[q] = coin[q]
  BY <1>1, <1>2, <1>3
<1>5. "absent" \notin Open
  BY DEF Open
<1>6. ChainInv' /\ TxsInv' /\ SpentInv'
  BY <1>1, <1>4, Settled
<1>7. RowsInv'
  BY <1>1 DEF Inv, RowsInv, Distinct
<1>8. CoinInv'
  <2>1. c.tx # 0 => c.tx \in DOMAIN txs /\ Has(c.tx, c.of)
    BY <1>2 DEF Inv, ChainInv, InChain
  <2> QED BY <1>1, <1>2, <1>4, <2>1 DEF Inv, CoinInv, Has
<1>9. LoopInv'
  BY <1>1, <1>4, <1>5, LoopBeside
<1>10. FeesAreHeld'
  BY <1>1, <1>4, <1>5 DEF Inv, FeesAreHeld
<1>11. ResultInv' /\ ExecutedIsFinal'
  BY <1>1 DEF Inv, ResultInv, ExecutedIsFinal, InChain, Has
<1> QED BY <1>6, <1>7, <1>8, <1>9, <1>10, <1>11 DEF Inv

(* A row that is new has one place, and the others keep theirs. *)
LEMMA PlaceIs ==
  ASSUME Inv, NEW r \in Request, status[r] = "absent"
  PROVE  /\ Place(r) \in Seq(Request) /\ Distinct(Place(r))
         /\ \A k \in DOMAIN Place(r) : Place(r)[k] = r \/ status[Place(r)[k]] # "absent"
<1> DEFINE earlier == {q \in Request : age[q] > 0 \/ q < r}
           a == Among(order, earlier)
           b == Among(order, Request \ earlier)
           m == Append(a, r)
<1>1. Place(r) = m \o b
  BY DEF Place
<1>2. order \in Seq(Request) /\ Distinct(order) /\ \A k \in DOMAIN order : status[order[k]] # "absent"
  BY DEF Inv, RowsInv
<1> DEFINE later == Request \ earlier
<1>3. \A q : ~(q \in earlier /\ q \in later)
  OBVIOUS
<1> HIDE DEF earlier, later
<1>4. /\ a \in Seq(Request) /\ Distinct(a)
      /\ \A k \in DOMAIN a : a[k] \in earlier /\ \E j \in DOMAIN order : a[k] = order[j]
  BY <1>2, AmongIs
<1>5. /\ b \in Seq(Request) /\ Distinct(b)
      /\ \A k \in DOMAIN b : b[k] \in later /\ \E j \in DOMAIN order : b[k] = order[j]
  <2>1. b = Among(order, later)
    BY DEF later
  <2> HIDE DEF b
  <2> QED BY <1>2, <2>1, AmongIs
<1>6. /\ \A k \in DOMAIN a : a[k] # r /\ status[a[k]] # "absent"
      /\ \A k \in DOMAIN b : b[k] # r /\ status[b[k]] # "absent"
  BY <1>2, <1>4, <1>5
<1> HIDE DEF a, b
<1>7. /\ m \in Seq(Request) /\ Len(m) = Len(a) + 1 /\ Len(a) \in Nat /\ Len(b) \in Nat
      /\ \A k \in 1 .. Len(a) : m[k] = a[k]
      /\ m[Len(a) + 1] = r /\ DOMAIN a = 1 .. Len(a) /\ DOMAIN b = 1 .. Len(b)
  BY <1>4, <1>5, AppendProperties
<1> HIDE DEF m
<1> DEFINE s == m \o b
<1>8. /\ s \in Seq(Request) /\ Len(s) = Len(a) + 1 + Len(b)
      /\ \A k \in 1 .. Len(s) : s[k] = IF k <= Len(m) THEN m[k] ELSE b[k - Len(m)]
  <2>1. /\ s \in Seq(Request) /\ Len(s) = Len(m) + Len(b)
        /\ \A k \in 1 .. Len(m) + Len(b) : s[k] = IF k <= Len(m) THEN m[k] ELSE b[k - Len(m)]
    BY <1>5, <1>7, ConcatProperties
  <2> HIDE DEF s
  <2> QED BY <1>7, <2>1
<1>9. DOMAIN s = 1 .. Len(s)
  BY <1>8
<1>10. \A k \in 1 .. Len(s) : \/ k \in DOMAIN a /\ s[k] = a[k]
                              \/ k = Len(a) + 1 /\ s[k] = r
                              \/ k - Len(m) \in DOMAIN b /\ s[k] = b[k - Len(m)] /\ k > Len(m)
  BY <1>7, <1>8
<1> HIDE DEF s
<1>11. Distinct(s)
  <2> SUFFICES ASSUME NEW i \in DOMAIN s, NEW j \in DOMAIN s, i # j PROVE s[i] # s[j]
    BY DEF Distinct
  <2>1. /\ i \in Int /\ j \in Int
        /\ \/ i \in DOMAIN a /\ s[i] = a[i]
           \/ i = Len(a) + 1 /\ s[i] = r
           \/ i - Len(m) \in DOMAIN b /\ s[i] = b[i - Len(m)] /\ i > Len(m)
        /\ \/ j \in DOMAIN a /\ s[j] = a[j]
           \/ j = Len(a) + 1 /\ s[j] = r
           \/ j - Len(m) \in DOMAIN b /\ s[j] = b[j - Len(m)] /\ j > Len(m)
    BY <1>9, <1>10
  <2>2. \A k \in DOMAIN a, l \in DOMAIN b : a[k] # b[l]
    BY <1>3, <1>4, <1>5
  <2>3. \A k, l \in DOMAIN a : k # l => a[k] # a[l]
    BY <1>4 DEF Distinct
  <2>4. \A k, l \in DOMAIN b : k # l => b[k] # b[l]
    BY <1>5 DEF Distinct
  <2>5. Len(m) \in Int /\ (i - Len(m) = j - Len(m) => i = j)
    BY <1>7, <2>1
  <2> DEFINE i1 == i - Len(m)
             j1 == j - Len(m)
  <2>6. i1 # j1
    BY <2>1, <2>5
  <2> HIDE DEF i1, j1
  <2>7. /\ \/ i \in DOMAIN a /\ s[i] = a[i]
           \/ i = Len(a) + 1 /\ s[i] = r
           \/ i1 \in DOMAIN b /\ s[i] = b[i1]
        /\ \/ j \in DOMAIN a /\ s[j] = a[j]
           \/ j = Len(a) + 1 /\ s[j] = r
           \/ j1 \in DOMAIN b /\ s[j] = b[j1]
    BY <2>1 DEF i1, j1
  <2> QED BY <1>6, <2>2, <2>3, <2>4, <2>6, <2>7
<1>12. \A k \in DOMAIN s : s[k] = r \/ status[s[k]] # "absent"
  BY <1>6, <1>9, <1>10
<1> QED BY <1>1, <1>8, <1>11, <1>12 DEF s

LEMMA InsertInv == ASSUME Inv, NEW r \in Request, Insert(r) PROVE Inv'
<1>1. /\ UNCHANGED <<result, chain, loop, txs, depth, freed>>
      /\ r \in checked /\ checked' = checked \ {r}
  BY DEF Insert, chain
<1>2. /\ status \in [Request -> Open \cup {"absent", "executed", "failed"}]
      /\ coin \in [Request -> Coin \cup {None}]
      /\ checked \subseteq Request /\ \A q \in checked : status[q] = "absent"
  BY DEF Inv, RowsInv, CoinInv
<1>3. "absent" \notin Open /\ "pending" \in Open /\ "pending" \notin Followed /\ "absent" \notin Followed
  BY DEF Open, Followed
<1>4. CASE NoConflict(r)
  <2>1. /\ status' = [status EXCEPT ![r] = "pending"] /\ order' = Place(r)
        /\ held' = held \cup {r} /\ coin' = coin
    BY <1>4 DEF Insert
  <2>2. status[r] = "absent" /\ \A q \in held : coin[q] # coin[r]
    BY <1>4 DEF NoConflict
  <2>3. /\ status' \in [Request -> Open \cup {"absent", "executed", "failed"}]
        /\ status'[r] = "pending" /\ \A q \in Request : q # r => status'[q] = status[q]
    BY <1>2, <1>3, <2>1
  <2>4. ChainInv' /\ TxsInv' /\ SpentInv'
    BY <1>1, <2>1, <2>2, <2>3, Settled
  <2>5. RowsInv'
    <3> DEFINE p == Place(r)
    <3>1. /\ p \in Seq(Request) /\ Distinct(p)
          /\ \A k \in DOMAIN p : p[k] \in Request /\ (p[k] = r \/ status[p[k]] # "absent")
      BY <2>2, PlaceIs
    <3> HIDE DEF p
    <3>2. order' = p
      BY <2>1 DEF p
    <3>3. \A k \in DOMAIN p : status'[p[k]] # "absent"
      BY <2>3, <3>1
    <3>4. \A q \in checked' : status'[q] = "absent"
      BY <1>1, <1>2, <2>3
    <3>5. Distinct(order)'
      BY <3>1, <3>2 DEF Distinct
    <3> QED BY <1>1, <1>2, <2>3, <3>1, <3>2, <3>3, <3>4, <3>5 DEF RowsInv
  <2>6. CoinInv'
    BY <1>1, <2>1, <2>3 DEF Inv, CoinInv, Has
  <2>7. LoopInv'
    BY <1>1, <1>3, <2>1, <2>2, <2>3, LoopBeside
  <2>8. FeesAreHeld'
    BY <1>3, <2>1, <2>2, <2>3 DEF Inv, FeesAreHeld
  <2>9. ResultInv'
    BY <1>1, <1>3, <2>3 DEF Inv, ResultInv, Has
  <2>10. ExecutedIsFinal'
    BY <1>1, <2>3 DEF Inv, ExecutedIsFinal, InChain, Has
  <2> QED BY <2>4, <2>5, <2>6, <2>7, <2>8, <2>9, <2>10 DEF Inv
<1>5. CASE ~NoConflict(r)
  <2>1. coin' = [coin EXCEPT ![r] = None] /\ UNCHANGED <<status, order, held>>
    BY <1>5 DEF Insert
  <2>2. status[r] = "absent"
    BY <1>1, <1>2
  <2>3. /\ coin' \in [Request -> Coin \cup {None}]
        /\ \A q \in Request : q # r => coin'[q] = coin[q]
    BY <1>2, <2>1
  <2>4. ChainInv' /\ TxsInv' /\ SpentInv'
    BY <1>1, <2>1, <2>2, <2>3, Settled
  <2>5. RowsInv'
    BY <1>1, <2>1 DEF Inv, RowsInv, Distinct
  <2>6. CoinInv'
    BY <1>1, <2>1, <2>2, <2>3 DEF Inv, CoinInv, Has
  <2>7. LoopInv'
    BY <1>1, <1>3, <2>1, <2>2, <2>3, LoopBeside
  <2>8. FeesAreHeld'
    BY <1>3, <2>1, <2>2, <2>3 DEF Inv, FeesAreHeld
  <2>9. ResultInv' /\ ExecutedIsFinal'
    BY <1>1, <2>1 DEF Inv, ResultInv, ExecutedIsFinal, InChain, Has
  <2> QED BY <2>4, <2>5, <2>6, <2>7, <2>8, <2>9 DEF Inv
<1> QED BY <1>4, <1>5

-----------------------------------------------------------------------------
(* The chain and the mempool. *)

LEMMA MinOfTwo ==
  ASSUME NEW a \in Nat, NEW b \in Nat
  PROVE  Min({a, b}) = IF a <= b THEN a ELSE b
<1> DEFINE m == Min({a, b})
<1>1. \E x \in {a, b} : \A y \in {a, b} : x <= y
  OBVIOUS
<1>2. m \in {a, b} /\ \A y \in {a, b} : m <= y
  BY <1>1 DEF Min
<1> HIDE DEF m
<1>3. m = IF a <= b THEN a ELSE b
  BY <1>2
<1> QED BY <1>3 DEF m

(* The chain and the mempool share out the transactions as before, or some *)
(* of the mempool is gone.                                                 *)
LEMMA Moved ==
  ASSUME Inv, UNCHANGED <<rows, checked, txs>>, freed \subseteq freed',
         loop' = loop \/ NewTip,
         depth' \in [TxId -> 0 .. Finality],
         \A i \in TxId : (depth'[i] > 0 => i \in Live) /\ (depth[i] = Finality => depth'[i] = Finality),
         pool' \subseteq Live, \A i \in pool' : depth'[i] = 0,
         SpentInv'
  PROVE  Inv'
<1>1. UNCHANGED <<status, order, age, coin, held, result, checked, txs>>
  BY DEF rows
<1>2. \A i \in Live : i \in DOMAIN txs
  BY DEF Live, InChain, Inv, ChainInv
<1>3. ChainInv'
  BY <1>1, <1>2 DEF Inv, ChainInv
<1>4. Live' \subseteq Live
  BY DEF Live, InChain
<1>5. RowsInv' /\ CoinInv' /\ FeesAreHeld' /\ ResultInv'
  BY <1>1 DEF Inv, RowsInv, Distinct, CoinInv, FeesAreHeld, ResultInv, Has
<1>6. TxsInv'
  <2>1. \A i \in DOMAIN txs : Listed(txs[i].reqs) /\ Freed(txs[i])
    BY DEF Inv, TxsInv
  <2>2. \A i \in DOMAIN txs' : (Listed(txs[i].reqs) /\ Freed(txs[i]))'
    BY <1>1, <2>1 DEF Listed, Freed, Fees
  <2>3. \A i, j \in Live' : i # j => Fees(txs[i]) \cap Fees(txs[j]) = {}
    BY <1>4 DEF Inv, TxsInv
  <2>4. \A i, j \in Live' : i # j => Fees(txs[i])' \cap Fees(txs[j])' = {}
    BY <1>1, <2>3 DEF Fees
  <2> QED BY <2>2, <2>4 DEF TxsInv
<1>7. LoopInv'
  BY <1>1, LoopBeside
<1>8. ExecutedIsFinal'
  <2>1. \A i \in TxId : depth[i] = Finality => depth'[i] = Finality /\ depth'[i] > 0
    BY Bounds
  <2> QED BY <1>1, <2>1 DEF Inv, ExecutedIsFinal, InChain, Has
<1> QED BY <1>3, <1>5, <1>6, <1>7, <1>8 DEF Inv

LEMMA EvictInv == ASSUME Inv, NEW i \in pool, Evict(i) PROVE Inv'
<1>1. /\ UNCHANGED <<rows, checked, loop, txs, depth, spent, freed>> /\ pool' = Without(i)
  BY DEF Evict
<1>2. pool' \subseteq pool
  BY <1>1 DEF Without
<1>3. SpentInv'
  BY <1>1 DEF Inv, SpentInv, Has
<1>4. /\ depth' \in [TxId -> 0 .. Finality] /\ pool' \subseteq Live /\ \A j \in pool' : depth'[j] = 0
      /\ \A j \in TxId : depth'[j] > 0 => j \in Live
  BY <1>1, <1>2 DEF Inv, ChainInv, Live, InChain
<1> QED BY <1>1, <1>3, <1>4, Moved

LEMMA ReplaceInv == ASSUME Inv, Replace PROVE Inv'
<1> DEFINE lost == {i \in InChain : depth[i] = 1}
<1>1. /\ UNCHANGED <<rows, checked, txs, freed>> /\ NewTip
      /\ depth' = [i \in TxId |-> IF i \in lost THEN 0 ELSE depth[i]]
      /\ pool' = pool \cup lost /\ spent' = spent \ last
  BY DEF Replace
<1>2. depth \in [TxId -> 0 .. Finality] /\ pool \subseteq DOMAIN txs /\ \A i \in pool : depth[i] = 0
  BY DEF Inv, ChainInv
<1>3. \A i \in lost : i \in TxId /\ i \in Live /\ depth[i] = 1
  BY DEF InChain, Live
<1> HIDE DEF lost
<1>4. /\ depth' \in [TxId -> 0 .. Finality]
      /\ \A i \in TxId : /\ depth'[i] > 0 => i \in Live
                         /\ depth[i] >= 2 => depth'[i] = depth[i]
                         /\ depth[i] = Finality => depth'[i] = Finality
  BY <1>1, <1>2, <1>3, Bounds DEF Live, InChain
<1>5. pool' \subseteq Live
  BY <1>1, <1>3 DEF Live
<1>6. \A i \in pool' : depth'[i] = 0
  <2>1. pool \subseteq TxId
    BY Bounds DEF Inv, ChainInv, TxId
  <2> QED BY <1>1, <1>2, <1>3, <2>1
<1>7. SpentInv'
  BY <1>1, <1>4 DEF Inv, SpentInv, Has
<1> QED BY <1>1, <1>4, <1>5, <1>6, <1>7, Moved

LEMMA MineInv ==
  ASSUME Inv, NEW taken \in {{}, pool}, NEW gone \in {{}} \cup {{r} : r \in Spendable},
         Mine(taken, gone)
  PROVE  Inv'
<1>1. /\ UNCHANGED <<rows, checked, txs>> /\ NewTip
      /\ depth' = [i \in TxId |-> IF i \in taken THEN 1
                                  ELSE IF depth[i] = 0 THEN 0 ELSE Min({depth[i] + 1, Finality})]
      /\ pool' = pool \ taken /\ spent' = spent \cup gone
      /\ freed' = freed \cup {c \in Reserved : c.of \in gone}
  BY DEF Mine
<1>2. depth \in [TxId -> 0 .. Finality] /\ pool \subseteq DOMAIN txs /\ \A i \in pool : depth[i] = 0
  BY DEF Inv, ChainInv
<1>3. pool \subseteq TxId
  BY Bounds DEF Inv, ChainInv, TxId
<1>4. ASSUME NEW i \in TxId
      PROVE  /\ depth'[i] \in 0 .. Finality
             /\ i \in taken => depth'[i] = 1
             /\ i \notin taken => (depth'[i] > 0 <=> depth[i] > 0)
             /\ depth[i] > 0 => depth'[i] >= 2
             /\ depth[i] = Finality => depth'[i] = Finality
  <2>1. depth[i] \in Nat /\ depth[i] <= Finality /\ depth[i] + 1 \in Nat
    BY <1>2, Bounds
  <2>2. Min({depth[i] + 1, Finality}) = IF depth[i] + 1 <= Finality THEN depth[i] + 1 ELSE Finality
    BY <2>1, MinOfTwo, Bounds
  <2>3. i \in taken => depth[i] = 0
    BY <1>2
  <2> QED BY <1>1, <2>1, <2>2, <2>3, Bounds
<1>5. depth' \in [TxId -> 0 .. Finality]
  <2>1. depth' = [i \in TxId |-> depth'[i]]
    BY <1>1
  <2> QED BY <1>4, <2>1
<1>6. \A i \in TxId : (depth'[i] > 0 => i \in Live) /\ (depth[i] = Finality => depth'[i] = Finality)
  BY <1>4 DEF Live, InChain
<1>7. pool' \subseteq Live /\ \A i \in pool' : depth'[i] = 0
  <2>1. \A i \in pool' : i \in pool /\ i \notin taken /\ depth[i] = 0 /\ i \in TxId
    BY <1>1, <1>2, <1>3
  <2> QED BY <1>1, <2>1 DEF Live
<1>8. SpentInv'
  <2> SUFFICES ASSUME NEW r \in spent'
               PROVE  \E j \in TxId : depth'[j] >= 2 /\ Has(j, r) /\ [tx |-> j, of |-> r] \in freed'
    BY <1>1 DEF SpentInv, Has
  <2>1. CASE r \in spent
    <3>1. PICK j \in TxId : depth[j] >= 2 /\ Has(j, r) /\ [tx |-> j, of |-> r] \in freed
      BY <2>1 DEF Inv, SpentInv
    <3>2. depth[j] > 0
      BY <1>2, <3>1, Bounds
    <3> QED BY <1>1, <1>4, <3>1, <3>2
  <2>2. CASE r \in gone
    <3>1. PICK c \in Reserved : depth[c.tx] > 0 /\ c.of = r
      BY <2>2 DEF Spendable
    <3>2. c \in Coin /\ c.tx \in InChain /\ Has(c.tx, c.of)
      BY DEF Reserved
    <3>3. c.tx # 0 /\ c.tx \in TxId /\ c = [tx |-> c.tx, of |-> c.of]
      BY <3>2 DEF Coin, InChain, TxId
    <3>4. c \in freed'
      BY <1>1, <2>2, <3>1
    <3> QED BY <1>4, <3>1, <3>2, <3>3, <3>4
  <2> QED BY <1>1, <2>1, <2>2
<1>9. freed \subseteq freed'
  BY <1>1
<1> QED BY <1>1, <1>5, <1>6, <1>7, <1>8, <1>9, Moved

-----------------------------------------------------------------------------
LEMMA InitInv == ASSUME Init PROVE Inv
<1>1. RowsInv
  <2>1. order \in Seq(Request) /\ DOMAIN order = {} /\ Distinct(order)
    BY DEF Init, Distinct
  <2> QED BY <2>1 DEF Init, RowsInv
<1>2. ChainInv
  <2>1. txs = <<>> /\ txs \in Seq(Range(txs)) /\ Len(txs) = 0
    BY DEF Init
  <2> QED BY <2>1, Bounds DEF Init, ChainInv
<1>3. CoinInv
  BY DEF Init, CoinInv
<1>4. TxsInv
  BY Bounds DEF Init, TxsInv, Live, InChain
<1>5. SpentInv
  BY DEF Init, SpentInv
<1>6. LoopInv
  BY DEF Init, Idle, LoopInv
<1>7. FeesAreHeld
  BY DEF Init, FeesAreHeld, Open
<1>8. ResultInv
  BY Bounds DEF Init, ResultInv, Followed
<1>9. ExecutedIsFinal
  BY DEF Init, ExecutedIsFinal
<1> QED BY <1>1, <1>2, <1>3, <1>4, <1>5, <1>6, <1>7, <1>8, <1>9 DEF Inv

LEMMA StutterInv == ASSUME Inv, UNCHANGED vars PROVE Inv'
<1>1. UNCHANGED <<rows, checked, chain, txs, depth, freed, result>> /\ loop' = loop
  BY DEF vars, rows, chain
<1>2. UNCHANGED <<status, coin>>
  BY DEF vars, rows
<1>3. LoopInv'
  BY <1>1, <1>2, LoopBeside
<1> QED BY <1>1, <1>3, Thought

LEMMA StepInv == Inv /\ [Next]_vars => Inv'
<1> SUFFICES ASSUME Inv, [Next]_vars PROVE Inv'
  OBVIOUS
<1>1. ASSUME NEW r \in Request, API(r) PROVE Inv'
  BY <1>1, InsertInv, CheckFeeInv DEF API
<1>2. CASE Round
  BY <1>2, PrepareInv DEF Round
<1>3. CASE Issue
  BY <1>3, AnchorInv, SignInv, RefuseInv, SendInv, MarkProcessingInv DEF Issue
<1>4. CASE Reconcile
  BY <1>4, StartReconcileInv, ResendInv, AwaitBlockInv, IncludeInv, ExecuteInv DEF Reconcile
<1>5. CASE Interrupt
  BY <1>5, InterruptInv
<1>6. CASE Sync
  BY <1>6, SyncInv
<1>7. ASSUME NEW taken \in {{}, pool}, NEW gone \in {{}} \cup {{r} : r \in Spendable},
             Mine(taken, gone)
      PROVE  Inv'
  BY <1>7, MineInv
<1>8. CASE Replace
  BY <1>8, ReplaceInv
<1>9. ASSUME NEW i \in pool, Evict(i) PROVE Inv'
  BY <1>9, EvictInv
<1>10. CASE UNCHANGED vars
  BY <1>10, StutterInv
<1> QED BY <1>1, <1>2, <1>3, <1>4, <1>5, <1>6, <1>7, <1>8, <1>9, <1>10 DEF Next

THEOREM SpecInv == Spec => []Inv
<1> QED BY InitInv, StepInv, PTL DEF Spec

-----------------------------------------------------------------------------
(* insert_pending, mark_failed and mark_executed: as long as a request is  *)
(* open, and no longer, its fee UTXO is held for it alone, whatever the    *)
(* API, the rounds, the reconciliation, faults and restarts do between the *)
(* steps of each other. *)
THEOREM FeesSafety == Spec => []FeesAreHeld
<1>1. Inv => FeesAreHeld
  BY DEF Inv
<1> QED BY <1>1, SpecInv, PTL

(* require_unreserved_anchored_fee_utxos and is_reserved_for_burning: no   *)
(* transaction in the chain or the mempool spends a burn reserve before    *)
(* the outputs it is for are spent. *)
THEOREM ReserveSafety == Spec => []ReservesAreKept
<1>1. Inv => ReservesAreKept
  BY DEF Inv, TxsInv, Freed, ReservesAreKept, ChainInv, Live, InChain
<1> QED BY <1>1, SpecInv, PTL

(* reconcile_confirmations: an executed request was issued by the          *)
(* transaction recorded for it, which has its last confirmation. *)
THEOREM ExecutedSafety == Spec => []ExecutedIsFinal
<1>1. Inv => ExecutedIsFinal
  BY DEF Inv
<1> QED BY <1>1, SpecInv, PTL
=============================================================================
