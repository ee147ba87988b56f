------------------------------- MODULE Rounds -------------------------------
(***************************************************************************)
(* What a round takes and what is signed: an issuance from the queue of    *)
(* requests to the rows of the index, and the burns of what it issued      *)
(* (high_storm/user_requests.rs, burning.rs and issuance.rs, the index and *)
(* the schedule of main.rs).                                               *)
(*                                                                         *)
(* The coordinator searches for the number of batches that fit its share   *)
(* of a block, lays the issuance out and has it signed; the members check  *)
(* the transaction they are sent, which another version of the program, or *)
(* a coordinator that is wrong, may have laid out otherwise.  The index    *)
(* reads what was signed.  When the items have expired the leaders search  *)
(* for, lay out and sign burns until nothing is left.                      *)
(***************************************************************************)
EXTENDS Layout

CONSTANTS
  Queues,       \* the pending batches that a round may find
  EyeCount,     \* Storm Eyes
  BlockWeight,  \* MAX_LIQUID_TRANSACTION_WEIGHT
  MaxLimit,     \* MAX_REQUESTS_PER_ROUND, and the groups of a burn
  Checked,      \* the build checks for overflow
  Clocks,       \* what the members' clocks say when the coordinator's is Now
  Now,
  Branch,       \* the branch of the Storm Tree that signs, and another
  Other,
  MaxWrong      \* bound: transactions laid out otherwise

Batches == [owner : {1, 2}, kinds : Seq({"tick", "verifier"}), fees : Seq(Nat)]

ASSUME EyesAssumption == EyeCount \in Nat \ {0}
ASSUME LimitAssumption == BlockWeight \in Nat /\ MaxLimit \in Nat \ {0}
ASSUME BranchAssumption == Branch # NoSigner

(* Clocks count seconds from long ago.                                     *)
ASSUME TimeAssumption ==
  /\ Now \in Nat /\ MaxTickSkew \in Nat
  /\ Clocks \subseteq Nat /\ \A clock \in Clocks : clock > MaxTickSkew

(* What is queued asks for something and pays the least fee for it         *)
(* (validate_request, minimum_fee_value).                                  *)
ASSUME QueueAssumption ==
  \A queue \in Queues :
    /\ queue \in Seq(Batches)
    /\ \A b \in DOMAIN queue :
         queue[b].kinds # <<>> /\ Sum(queue[b].fees) >= MinimumFee(Len(queue[b].kinds))

(* A group that burns alone can pay for it.                                *)
ASSUME ReserveAssumption == \A n \in 1 .. MaxItems : BurnFee(n, 1) < BurnReserve * n

VARIABLES
  pc,       \* what comes next
  pending,  \* the batches in the queue
  search,   \* the search for the size of the round: limits, and the best so far
  tx,       \* the transaction that is proposed or signed
  wrong,    \* those that were laid out otherwise
  rows,     \* the items in the index that nobody has spent
  utxo,     \* what the accounts' outputs of the issuance hold
  busy      \* the reserves that a transaction in the mempool spends

roundsVars == <<pc, pending, search, tx, wrong, rows, utxo, busy>>

-----------------------------------------------------------------------------
(* The schedule. *)

(* max_transaction_weight. *)
LaneWeight == BlockWeight \div EyeCount

(* estimated_weight: an item weighs more as an input than as an output. *)
IssuanceWeight(batches) ==
  BaseWeight + AccountWeight * Len(FeeInputs(batches)) + ItemWeight * Len(Issued(batches))
BurnWeight(taken) ==
  BaseWeight + AccountWeight * Len(ReservesOf(taken)) + (ItemWeight + 1) * Len(taken)

-----------------------------------------------------------------------------
(* The searches of prepare_round. *)

Fresh == [lo |-> 1, hi |-> MaxLimit, lim |-> MaxLimit, best |-> <<>>]

(* Variant for sensitivity checking: one too few. *)
BelowTooFar(count) == count - 2

Below(count) == count - 1

(* The next limit to try.  When the bounds have crossed, their difference  *)
(* underflows: the loop is over, unless the build checks for it.           *)
Narrow(lo, hi, best, next) ==
  IF lo <= hi
  THEN /\ search' = [lo |-> lo, hi |-> hi, best |-> best, lim |-> lo + (hi - lo) \div 2]
       /\ UNCHANGED pc
  ELSE /\ search' = [search EXCEPT !.best = IF Checked THEN @ ELSE best]
       /\ pc' = IF Checked THEN "trapped" ELSE next

Settle(taken, next) ==
  /\ search' = [search EXCEPT !.best = taken]
  /\ pc' = IF taken = <<>> THEN "done" ELSE next

(* A candidate of count parts, which is not empty, is weighed.             *)
Weigh(taken, count, weight, next) ==
  LET largest == count < search.lim \/ search.lim = MaxLimit IN
  \/ /\ weight <= LaneWeight
     /\ IF largest THEN Settle(taken, next) ELSE Narrow(count + 1, search.hi, taken, next)
  \/ weight > LaneWeight /\ Narrow(search.lo, Below(count), search.best, next)

(* The pending batches that a candidate takes. *)
Prefix(limit) ==
  SubSeq(pending, 1, Max({n \in 0 .. Min({limit, Len(pending)}) :
                            Len(Issued(SubSeq(pending, 1, n))) <= MaxItems}))

(* A round of the coordinator; a batch that can never be issued is failed. *)
Choose ==
  LET taken == Prefix(search.lim)
      unfit == Len(taken) = 1 /\ IssuanceWeight(taken) > LaneWeight IN
  /\ pc = "choose"
  /\ \/ taken = <<>> /\ Settle(search.best, "propose") /\ UNCHANGED pending
     \/ unfit /\ pending' = Tail(pending) /\ search' = Fresh /\ UNCHANGED pc
     \/ /\ taken # <<>> /\ ~unfit
        /\ Weigh(taken, Len(taken), IssuanceWeight(taken), "propose")
        /\ UNCHANGED pending
  /\ UNCHANGED <<tx, wrong, rows, utxo, busy>>

(* The groups that a candidate of a burn takes: the oldest, without those  *)
(* whose reserve is being spent.  Left out are the cap on the items of a   *)
(* candidate (MAX_TICKS_PER_BURN), which skips a group that exceeds it,    *)
(* and the refusal of a lone group above the standard weight: the queues   *)
(* considered here stay below both.                                        *)
Age(reserve) == Cardinality({x \in {r.reserve : r \in ToSet(rows)} : x <= reserve})
GroupsOf(limit) ==
  Picked(rows)[{k \in DOMAIN rows : /\ rows[k].reserve \notin busy
                                   /\ Age(rows[k].reserve) <= limit}]

(* A round of a leader; a group that is too heavy burns alone.             *)
ChooseBurn ==
  LET taken == GroupsOf(search.lim)
      count == Len(ReservesOf(taken))
      alone == count = 1 /\ BurnWeight(taken) > LaneWeight IN
  /\ pc = "burn"
  /\ \/ /\ taken = <<>>
        /\ pc' = IF search.best = <<>> THEN "live" ELSE "fire"
        /\ UNCHANGED search
     \/ /\ taken # <<>> /\ ~Covered(utxo, taken)
        /\ IF search.lim > 1 THEN Narrow(search.lo, search.lim - 1, search.best, "fire")
           ELSE pc' = "live" /\ UNCHANGED search
     \/ taken # <<>> /\ Covered(utxo, taken) /\ alone /\ Settle(taken, "fire")
     \/ /\ taken # <<>> /\ Covered(utxo, taken) /\ ~alone
        /\ Weigh(taken, count, BurnWeight(taken), "fire")
  /\ UNCHANGED <<pending, tx, wrong, rows, utxo, busy>>

-----------------------------------------------------------------------------
(* Proposals and signatures. *)

(* Other outputs in the place of one. *)
OtherOutputs(out) ==
  {[out EXCEPT !.amount = a] : a \in {out.amount - 1, out.amount + 1} \cap Nat}
  \cup {[out EXCEPT !.asset = a] : a \in {"policy", "tick", "verifier"}}
  \cup {[out EXCEPT !.to = t] : t \in {Treasury, MinerFee, Account(1), Account(2),
                                        Voucher(1, NoSigner), Voucher(2, Other)}}
  \cup (IF out.to[1] # "descriptors" THEN {}
        ELSE UNION {{[out EXCEPT !.to[2][k].reserve = @ + 1],
                     [out EXCEPT !.to[2][k].out = @ - 1],
                     [out EXCEPT !.to[2][k].owner = 3 - @],
                     [out EXCEPT !.to[2][k].signer = Other],
                     [out EXCEPT !.to[2] = RemoveAt(@, k)]} : k \in DOMAIN out.to[2]})

(* Transactions that differ in one place from another. *)
Near(t) ==
  LET outs == t.outputs IN
  (UNION {{[t EXCEPT !.outputs[k] = o] : o \in OtherOutputs(outs[k])} : k \in DOMAIN outs})
  \cup {[t EXCEPT !.outputs = RemoveAt(outs, k)] : k \in DOMAIN outs}
  \cup {[t EXCEPT !.outputs = InsertAt(outs, k, outs[k])] : k \in DOMAIN outs}
  \cup {[t EXCEPT !.outputs[k] = outs[k + 1], !.outputs[k + 1] = outs[k]] : k \in 1 .. Len(outs) - 1}
  \cup {[t EXCEPT !.inputs = RemoveAt(t.inputs, k)] : k \in DOMAIN t.inputs}
  \cup {[t EXCEPT !.inputs[k].issue = @ + 1] : k \in {i \in DOMAIN t.inputs : t.inputs[i].issue > 0}}

Propose ==
  /\ pc = "propose"
  /\ tx' = Issuance(search.best, Now, Branch)
  /\ pc' = "sign"
  /\ UNCHANGED <<pending, search, wrong, rows, utxo, busy>>

Fire ==
  /\ pc = "fire"
  /\ tx' = BurnOf(utxo, search.best)
  /\ pc' = "sign burn"
  /\ UNCHANGED <<pending, search, wrong, rows, utxo, busy>>

(* What the members are sent was laid out otherwise. *)
LayOutOtherwise(t) ==
  /\ pc \in {"sign", "sign burn"}
  /\ wrong < MaxWrong
  /\ wrong' = wrong + 1
  /\ tx' = t
  /\ UNCHANGED <<pc, pending, search, rows, utxo, busy>>

(* The index reads the issuance, which is in a block. *)
Sign(clock) ==
  /\ pc = "sign"
  /\ IF ValidIssuance(tx, search.best, clock, Branch)
     THEN /\ pc' = "signed"
          /\ pending' = SubSeq(pending, Len(search.best) + 1, Len(pending))
     ELSE /\ pc' = "refused"
          /\ UNCHANGED pending
  /\ UNCHANGED <<search, tx, wrong, rows, utxo, busy>>

IndexIssuance ==
  /\ pc = "signed"
  /\ IF IsIssuance(tx) /\ Readable(tx)
     THEN /\ rows' = Rows(tx)
          /\ utxo' = [k \in {Rows(tx)[i].reserve : i \in DOMAIN Rows(tx)} |->
                       tx.outputs[k].amount]
          /\ pc' = "live"
     ELSE /\ pc' = "stopped"
          /\ UNCHANGED <<rows, utxo>>
  /\ UNCHANGED <<pending, search, tx, wrong, busy>>

(* A user spends an item while it lives, and a transaction spends a        *)
(* reserve for a while; then a leader has a round.                         *)
Expire(spent, taken) ==
  /\ pc = "live"
  /\ taken # {} => busy = {}
  /\ rows' = Picked(rows)[{k \in DOMAIN rows : rows[k].out \notin spent}]
  /\ busy' = taken
  /\ search' = Fresh
  /\ pc' = IF rows' = <<>> THEN "done" ELSE "burn"
  /\ UNCHANGED <<pending, tx, wrong, utxo>>

SignBurn ==
  /\ pc = "sign burn"
  /\ pc' = IF ValidBurn(tx, rows, utxo) THEN "burned" ELSE "live"
  /\ UNCHANGED <<pending, search, tx, wrong, rows, utxo, busy>>

(* The burn is in a block. *)
Burned ==
  /\ pc = "burned"
  /\ LET spent == {tx.inputs[k].from : k \in DOMAIN tx.inputs} IN
     rows' = Picked(rows)[{k \in DOMAIN rows : <<"out", rows[k].out>> \notin spent}]
  /\ pc' = IF rows' = <<>> THEN "done" ELSE "live"
  /\ UNCHANGED <<pending, search, tx, wrong, utxo, busy>>

InitRounds ==
  /\ pc = "choose"
  /\ pending \in Queues
  /\ search = Fresh
  /\ tx = [inputs |-> <<>>, outputs |-> <<>>]
  /\ wrong = 0
  /\ rows = <<>> /\ utxo = <<>> /\ busy = {}

UpToOne(S) == {{}} \cup {{i} : i \in S}
Items == {rows[k].out : k \in DOMAIN rows}

Round == Choose \/ Propose \/ (\E clock \in Clocks : Sign(clock)) \/ IndexIssuance
         \/ (\E spent \in UpToOne(Items), taken \in UpToOne(DOMAIN utxo) : Expire(spent, taken))
         \/ ChooseBurn \/ Fire \/ SignBurn \/ Burned

NextRounds == Round \/ \E t \in Near(tx) : LayOutOtherwise(t)

SpecRounds == InitRounds /\ [][NextRounds]_roundsVars /\ WF_roundsVars(Round)

-----------------------------------------------------------------------------
(* Every variable keeps its type; an issuance that is laid out as it       *)
(* should be leaves every account something.                               *)
TypeOKRounds ==
  /\ pending \in Seq(Batches)
  /\ search.lo \in 1 .. MaxLimit + 1 /\ search.lim \in 1 .. MaxLimit
  /\ \A k \in DOMAIN tx.outputs : tx.outputs[k].amount \in Nat
  /\ wrong = 0 => \A k \in DOMAIN tx.outputs :
                   tx.outputs[k].to[1] = "account" => tx.outputs[k].amount > 0
  /\ {rows[k].reserve : k \in DOMAIN rows} \subseteq DOMAIN utxo

(* The round takes the largest prefix of the queue that fits, and of the   *)
(* groups to burn too unless one of them is left out (README: "packs the   *)
(* largest FIFO prefix whose conservative weight estimate does not         *)
(* exceed").                                                               *)
RoundIsLargest ==
  /\ pc \in {"propose", "trapped"} /\ rows = <<>> =>
       \A n \in 1 .. Min({MaxLimit, Len(pending)}) :
         LET more == SubSeq(pending, 1, n) IN
         n > Len(search.best) =>
           IssuanceWeight(more) > LaneWeight \/ Len(Issued(more)) > MaxItems
  /\ pc = "fire" /\ busy = {} =>
       \A n \in 1 .. Min({MaxLimit, Len(ReservesOf(rows))}) :
         n > Len(ReservesOf(search.best)) =>
           \/ BurnWeight(GroupsOf(n)) > LaneWeight
           \/ ~Covered(utxo, GroupsOf(n))
           \/ \E m \in 1 .. n : ~Covered(utxo, GroupsOf(m))

(* What the coordinator and the leader lay out the members sign, if their  *)
(* clocks agree; and whatever they sign, the index of no node stops at it  *)
(* and reads from it what the users asked for, each with a reserve of its  *)
(* own account, which is left what burns its items                         *)
(* (validate_execute_request, validate_layout, indexed_issued_outputs,     *)
(* validate_accounting_outputs).                                           *)
SigningIsExact ==
  /\ TypeOKRounds
  /\ pc = "sign" /\ wrong = 0 => ValidIssuance(tx, search.best, Now, Branch)
  /\ pc = "sign burn" /\ tx = BurnOf(utxo, search.best) => ValidBurn(tx, rows, utxo)
  /\ pc # "stopped"
  /\ pc = "signed" =>
       LET issued == Issued(search.best)
           reserve(b) == 1 + Len(Tokens(search.best)) + Len(issued) + b IN
       /\ IsIssuance(tx) /\ Readable(tx)
       /\ Len(Rows(tx)) = Len(issued)
       /\ \A k \in DOMAIN issued :
            LET r == Rows(tx)[k] IN
            /\ r.kind = issued[k].kind /\ r.owner = issued[k].owner
            /\ r.signer = IF r.kind = "verifier" THEN Branch ELSE NoSigner
            /\ \A l \in DOMAIN issued :
                 (r.reserve = Rows(tx)[l].reserve) <=> (issued[k].batch = issued[l].batch)
       /\ \A b \in DOMAIN search.best :
            tx.outputs[reserve(b)].amount >= BurnReserve * Len(search.best[b].kinds)
       /\ Policy(tx.outputs) = Policy([k \in DOMAIN tx.inputs |-> tx.inputs[k].out])

(* A signed burn destroys its items and no others, and their accounts      *)
(* share its fee, down to one satoshi (validate_layout, fee_share).        *)
BurnsAreFair ==
  pc = "burned" =>
    LET taken == ItemsIn(tx, rows)
        groups == ReservesOf(taken)
        fee == BurnFee(Len(taken), Len(groups))
        paid(g) == utxo[groups[g]] - tx.outputs[1 + Len(BurnOutputs(taken)) + g].amount IN
    /\ \A kind \in {"tick", "verifier"} :
         Sum([k \in DOMAIN tx.inputs |->
               IF tx.inputs[k].out.asset = kind THEN tx.inputs[k].out.amount ELSE 0])
         = Sum([k \in DOMAIN tx.outputs |->
               IF tx.outputs[k].asset = kind /\ tx.outputs[k].to = OpReturn
               THEN tx.outputs[k].amount ELSE 0])
    /\ Sum([g \in DOMAIN groups |-> paid(g)]) = fee
    /\ \A g, h \in DOMAIN groups : paid(g) - paid(h) \in {-1, 0, 1}

(* Whatever was issued is burned in the end, though groups are heavier     *)
(* than a lane, cannot pay their share of a larger burn, or have a reserve *)
(* that is being spent for a while.                                        *)
ItemsBurn == pc = "live" ~> pc = "done"
=============================================================================
