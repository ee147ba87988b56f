------------------------------- MODULE Layout -------------------------------
(***************************************************************************)
(* The transactions of the network: how the coordinator lays out an        *)
(* issuance and the leader a burn (high_storm/user_requests.rs and         *)
(* burning.rs), what a member checks before it signs them, and what the    *)
(* index of every node reads from an issuance (indexer/mod.rs,             *)
(* issuance.rs).                                                           *)
(*                                                                         *)
(* A batch is a user's request for items: ticks, which carry the time as   *)
(* their amount, and verifiers, which carry the branch that signs.         *)
(* Positions count from 1.  Blinding, witnesses and proofs are left out: a *)
(* token is an output of its own asset.                                    *)
(***************************************************************************)
EXTENDS Integers, SequencesExt, FiniteSetsExt

CONSTANTS
  OperationalFee,   \* operational_fee_sats
  BurnReserve,      \* tick_burn_reserve_sats
  IssuanceFee,      \* issuance_transaction_fee_sats
  MinBurnFee,       \* burn_transaction_fee_sats
  BaseWeight,       \* BURN_BASE_WEIGHT and the weight of an issuance's frame
  ItemWeight,       \* BURN_ITEM_WEIGHT
  AccountWeight,    \* BURN_RESERVE_WEIGHT
  FeeWeight,        \* weight that one satoshi of the relay floor pays for
  MaxItems,         \* MAX_ISSUED_DESCRIPTORS, MAX_TICKS_PER_BURN
  MaxTickSkew,      \* MAX_TICK_TIME_SKEW_SECS
  NoSigner

ASSUME FeeAssumption == {OperationalFee, BurnReserve, IssuanceFee, MinBurnFee} \subseteq Nat
ASSUME WeightAssumption ==
  {BaseWeight, ItemWeight, AccountWeight, FeeWeight, MaxItems} \subseteq Nat \ {0}

(* Scripts. *)
Eye == <<"eye">>
Treasury == <<"treasury">>
Account(owner) == <<"account", owner>>
Voucher(owner, signer) == <<"voucher", owner, signer>>
Descriptors(ds) == <<"descriptors", ds>>
OpReturn == <<"burn">>
MinerFee == <<"fee">>

Out(to, asset, amount) == [to |-> to, asset |-> asset, amount |-> amount]

(* An input: the outpoint, the output it spends and what it reissues. *)
In(from, out) == [from |-> from, out |-> out, issue |-> 0]

Token(kind) == IF kind = "tick" THEN "tick token" ELSE "verifier token"

EyeOut == Out(Eye, "eye", 1)
TokenOut(kind) == Out(Treasury, Token(kind), 1)

(* Numbers in ascending order, and what a sequence has at some places.     *)
Ascending == [S \in SUBSET Nat |->
  [k \in 1 .. Cardinality(S) |-> CHOOSE x \in S : Cardinality({y \in S : y <= x}) = k]]
Picked(s) == [places \in SUBSET DOMAIN s |->
  FlattenSeq([k \in DOMAIN s |-> IF k \in places THEN <<s[k]>> ELSE <<>>])]

(* Asset kinds, ticks first. *)
InOrder == [kinds \in SUBSET {"tick", "verifier"} |->
  (IF "tick" \in kinds THEN <<"tick">> ELSE <<>>)
  \o (IF "verifier" \in kinds THEN <<"verifier">> ELSE <<>>)]

Sum(s) ==
  LET sum[n \in 0 .. Len(s)] == IF n = 0 THEN 0 ELSE sum[n - 1] + s[n]
  IN sum[Len(s)]
Policy(outs) ==
  Sum([k \in DOMAIN outs |-> IF outs[k].asset = "policy" THEN outs[k].amount ELSE 0])

-----------------------------------------------------------------------------
(* Issuances. *)

(* What a round issues, batch by batch, with the number of the batch. *)
Issued(batches) ==
  FlattenSeq([b \in DOMAIN batches |->
    [k \in DOMAIN batches[b].kinds |-> [kind |-> batches[b].kinds[k],
                                        owner |-> batches[b].owner, batch |-> b]]])

(* The assets that are reissued, ticks first. *)
Tokens(batches) ==
  InOrder[{i.kind : i \in ToSet(Issued(batches))}]

(* minimum_fee_value. *)
MinimumFee(count) == (OperationalFee + BurnReserve) * count + IssuanceFee

(* What an account pays beyond its operational fee and its least reserve. *)
Available(b) == Sum(b.fees) - (OperationalFee + BurnReserve) * Len(b.kinds)

(* allocate_account_reserves: the first accounts pay the miner's fee.      *)
FeeLeft(batches) ==
  LET left[n \in 0 .. Len(batches)] ==
        IF n = 0 THEN IssuanceFee
        ELSE left[n - 1] - Min({Available(batches[n]), left[n - 1]})
  IN left

AccountReserve(batches, b) ==
  Sum(batches[b].fees) - OperationalFee * Len(batches[b].kinds)
    - (FeeLeft(batches)[b - 1] - FeeLeft(batches)[b])

Affordable(batches) ==
  /\ \A b \in DOMAIN batches : Available(batches[b]) >= 0
  /\ FeeLeft(batches)[Len(batches)] = 0

(* Of the k-th item, i, when count items come after first outputs. *)
Descriptor(i, first, count, signer, k) ==
  [out |-> first + k, reserve |-> first + count + i.batch,
   owner |-> i.owner, signer |-> IF i.kind = "verifier" THEN signer ELSE NoSigner]

DescriptorsOf(batches, signer) ==
  LET issued == Issued(batches)
      first == 1 + Len(Tokens(batches)) IN
  [k \in DOMAIN issued |-> Descriptor(issued[k], first, Len(issued), signer, k)]

Amount(kind, now) == IF kind = "verifier" THEN 1 ELSE now

IssuedOut(i, now, signer) ==
  Out(Voucher(i.owner, IF i.kind = "verifier" THEN signer ELSE NoSigner), i.kind,
      Amount(i.kind, now))

FeeInputs(batches) ==
  FlattenSeq([b \in DOMAIN batches |->
    [f \in DOMAIN batches[b].fees |->
      In(<<"fee", b, f>>,
         Out(Account(batches[b].owner), "policy", batches[b].fees[f]))]])

(* prepare_round_candidate from the chosen batches on, for the branch that *)
(* signs.                                                                  *)
Issuance(batches, now, signer) ==
  LET issued == Issued(batches)
      tokens == Tokens(batches)
      amount(kind) == Sum([k \in DOMAIN issued |->
                        IF issued[k].kind = kind THEN Amount(kind, now) ELSE 0]) IN
  [inputs |->
     <<In(<<"eye">>, EyeOut)>>
     \o [t \in DOMAIN tokens |->
          [In(<<Token(tokens[t])>>, TokenOut(tokens[t])) EXCEPT !.issue = amount(tokens[t])]]
     \o FeeInputs(batches),
   outputs |->
     <<EyeOut>>
     \o [t \in DOMAIN tokens |-> TokenOut(tokens[t])]
     \o [k \in DOMAIN issued |-> IssuedOut(issued[k], now, signer)]
     \o [b \in DOMAIN batches |->
          Out(Account(batches[b].owner), "policy", AccountReserve(batches, b))]
     \o <<Out(Descriptors(DescriptorsOf(batches, signer)), "policy", 0),
          Out(Treasury, "policy", OperationalFee * Len(issued)),
          Out(MinerFee, "policy", IssuanceFee)>>]

(* validate_token. *)
TokensAreKept(tx, tokens) ==
  \A t \in DOMAIN tokens : /\ Len(tx.inputs) > t /\ Len(tx.outputs) > t
                           /\ tx.inputs[1 + t].out = TokenOut(tokens[t])
                           /\ tx.outputs[1 + t] = tx.inputs[1 + t].out

(* validate_accounting_outputs. *)
Accounting(tx, batches) ==
  LET issued == Issued(batches)
      first == 1 + Len(Tokens(batches)) + Len(issued) IN
  /\ Len(tx.outputs) = first + Len(batches) + 3
  /\ \E k \in DOMAIN tx.outputs :
       tx.outputs[k] = Out(Treasury, "policy", OperationalFee * Len(issued))
  /\ Affordable(batches)
  /\ \A b \in DOMAIN batches :
       tx.outputs[first + b] = Out(Account(batches[b].owner), "policy",
                                   AccountReserve(batches, b))
  /\ \E k \in DOMAIN tx.outputs : tx.outputs[k] = Out(MinerFee, "policy", IssuanceFee)
  /\ Policy([k \in DOMAIN tx.inputs |-> tx.inputs[k].out]) = Policy(tx.outputs)

(* Variant for sensitivity checking: no look at whose an output is. *)
IssuedMatchAnyone(tx, batches, now, signer) ==
  LET issued == Issued(batches)
      first == 1 + Len(Tokens(batches)) IN
  \A k \in DOMAIN issued : tx.outputs[first + k].asset = issued[k].kind

(* The issued outputs that validate_execute_request expects. *)
IssuedMatch(tx, batches, now, signer) ==
  LET issued == Issued(batches)
      first == 1 + Len(Tokens(batches)) IN
  \A k \in DOMAIN issued :
    LET out == tx.outputs[first + k] IN
    /\ [out EXCEPT !.amount = 0] = [IssuedOut(issued[k], now, signer) EXCEPT !.amount = 0]
    /\ IF issued[k].kind = "verifier" THEN out.amount = 1
       ELSE out.amount - now \in -MaxTickSkew .. MaxTickSkew

(* validate_execute_request, of a member whose clock says now. *)
ValidIssuance(tx, batches, now, signer) ==
  LET issued == Issued(batches)
      tokens == Tokens(batches)
      first == 1 + Len(tokens)
      amount(kind) == Sum([k \in DOMAIN issued |->
                        IF issued[k].kind = kind THEN tx.outputs[first + k].amount ELSE 0]) IN
  /\ batches # <<>>
  /\ Len(tx.inputs) >= 3 /\ Len(tx.outputs) >= 5
  /\ tx.inputs[1].out = EyeOut /\ tx.outputs[1] = EyeOut
  /\ TokensAreKept(tx, tokens)
  /\ SubSeq(tx.inputs, first + 1, Len(tx.inputs)) = FeeInputs(batches)
  /\ Len(tx.outputs) >= first + Len(issued)
  /\ IssuedMatch(tx, batches, now, signer)
  /\ \A t \in DOMAIN tokens : tx.inputs[1 + t].issue = amount(tokens[t])
  /\ Len(tx.outputs) > first + Len(issued) + Len(batches)
  /\ tx.outputs[first + Len(issued) + Len(batches) + 1]
       = Out(Descriptors(DescriptorsOf(batches, signer)), "policy", 0)
  /\ Accounting(tx, batches)

-----------------------------------------------------------------------------
(* The index. *)

DescribingOutputs(tx) == {k \in DOMAIN tx.outputs : tx.outputs[k].to[1] = "descriptors"}
KindOf(d) == IF d.signer = NoSigner THEN "tick" ELSE "verifier"

(* issuance_tokens: the reissued assets if this is an issuance. *)
Reissued(tx) ==
  LET count == CHOOSE n \in 0 .. Len(tx.inputs) - 1 :
                 /\ \A k \in 2 .. n + 1 : tx.inputs[k].issue > 0
                 /\ n + 1 < Len(tx.inputs) => tx.inputs[n + 2].issue = 0 IN
  [t \in 1 .. count |->
    IF tx.inputs[1 + t].out = TokenOut("tick") THEN "tick" ELSE "verifier"]

IsIssuance(tx) ==
  /\ Reissued(tx) # <<>>
  /\ tx.inputs[1].out = EyeOut /\ tx.outputs[1] = EyeOut
  /\ TokensAreKept(tx, Reissued(tx))

(* The descriptors and outputs agree: otherwise the index stops with an    *)
(* error (indexed_issued_outputs).                                         *)
Readable(tx) ==
  /\ Cardinality(DescribingOutputs(tx)) = 1
  /\ LET d == tx.outputs[CHOOSE k \in DescribingOutputs(tx) : TRUE]
         ds == d.to[2]
         places == 1 .. Len(ds)
         of(kind) == {k \in places : KindOf(ds[k]) = kind} IN
     /\ d.asset = "policy" /\ d.amount = 0
     /\ Len(ds) \in 1 .. MaxItems
     /\ \A k \in places : KindOf(ds[k]) \in ToSet(Reissued(tx))
     /\ \A k, l \in places : ds[k].out = ds[l].out => k = l
     /\ Cardinality({ds[k].signer : k \in places} \ {NoSigner}) <= 1
     /\ \A t \in DOMAIN Reissued(tx) :
          LET kind == Reissued(tx)[t] IN
          /\ Cardinality({k \in DOMAIN tx.outputs : tx.outputs[k].asset = kind})
               = Cardinality(of(kind))
          /\ tx.inputs[1 + t].issue
               = Sum([k \in places |-> IF k \in of(kind) THEN tx.outputs[ds[k].out].amount
                                       ELSE 0])
     /\ \A k \in places :
          LET out == tx.outputs[ds[k].out]
              reserve == tx.outputs[ds[k].reserve] IN
          /\ ds[k].out \in 1 .. Len(tx.outputs) /\ ds[k].reserve \in 1 .. Len(tx.outputs)
          /\ out.to = Voucher(ds[k].owner, ds[k].signer) /\ out.asset = KindOf(ds[k])
          /\ KindOf(ds[k]) = "verifier" => out.amount = 1
          /\ reserve.to = Account(ds[k].owner)
          /\ reserve.asset = "policy" /\ reserve.amount > 0

(* The rows of monitored_utxos, in the order of the outputs. *)
Rows(tx) ==
  LET ds == tx.outputs[CHOOSE k \in DescribingOutputs(tx) : TRUE].to[2] IN
  [k \in 1 .. Len(ds) |->
    [out |-> ds[k].out, kind |-> KindOf(ds[k]), owner |-> ds[k].owner,
     signer |-> ds[k].signer, reserve |-> ds[k].reserve,
     amount |-> tx.outputs[ds[k].out].amount]]

-----------------------------------------------------------------------------
(* Burns. *)

Ceil(a, b) == (a + b - 1) \div b

(* burn_fee. *)
BurnFee(items, groups) ==
  Max({MinBurnFee, Ceil(BaseWeight + ItemWeight * items + AccountWeight * groups, FeeWeight)})

(* fee_share. *)
FeeShare(total, groups, index) ==
  total \div groups + (IF index <= total % groups THEN 1 ELSE 0)

(* The reserves of the rows, oldest first. *)
ReservesOf(rows) == Ascending[{r.reserve : r \in ToSet(rows)}]
GroupOf(rows, reserve) == Picked(rows)[{k \in DOMAIN rows : rows[k].reserve = reserve}]

(* The rows of groups in the order of a burn's inputs. *)
Grouped(rows) ==
  LET reserves == ReservesOf(rows) IN
  FlattenSeq([g \in DOMAIN reserves |-> GroupOf(rows, reserves[g])])

(* burn_outputs: an OP_RETURN for each asset, ticks first. *)
BurnOutputs(rows) ==
  LET kinds == InOrder[{r.kind : r \in ToSet(rows)}] IN
  [t \in DOMAIN kinds |->
    Out(OpReturn, kinds[t],
        Sum([k \in DOMAIN rows |-> IF rows[k].kind = kinds[t] THEN rows[k].amount ELSE 0]))]

ItemInput(r) == In(<<"out", r.out>>, Out(Voucher(r.owner, r.signer), r.kind, r.amount))

(* What the account of a group gets back. *)
Remaining(utxo, rows, g) ==
  LET reserves == ReservesOf(rows) IN
  utxo[reserves[g]] - FeeShare(BurnFee(Len(rows), Len(reserves)), Len(reserves), g)

(* Variant for sensitivity checking: as if more burns were to come. *)
CoveredTwice(utxo, rows) == \A g \in DOMAIN ReservesOf(rows) : Remaining(utxo, rows, g) > BurnReserve

Covered(utxo, rows) == \A g \in DOMAIN ReservesOf(rows) : Remaining(utxo, rows, g) > 0

(* The accounts' outputs and inputs; utxo gives what a reserve holds. *)
OwnerOf(rows, reserve) == (CHOOSE r \in ToSet(rows) : r.reserve = reserve).owner
ReserveInput(utxo, rows, reserve) ==
  In(<<"out", reserve>>, Out(Account(OwnerOf(rows, reserve)), "policy", utxo[reserve]))

(* build_burn_transaction. *)
BurnOf(utxo, rows) ==
  LET reserves == ReservesOf(rows)
      items == Grouped(rows) IN
  [inputs |->
     <<In(<<"eye">>, EyeOut)>>
     \o [k \in DOMAIN items |-> ItemInput(items[k])]
     \o [g \in DOMAIN reserves |-> ReserveInput(utxo, rows, reserves[g])],
   outputs |->
     <<EyeOut>> \o BurnOutputs(rows)
     \o [g \in DOMAIN reserves |->
          Out(Account(OwnerOf(rows, reserves[g])), "policy", Remaining(utxo, rows, g))]
     \o <<Out(MinerFee, "policy", BurnFee(Len(rows), Len(reserves)))>>]

(* The leading inputs after the Storm Eye that are expired items. *)
ItemsIn(tx, expired) ==
  LET item(k) == \E r \in ToSet(expired) : tx.inputs[k].from = <<"out", r.out>>
      count == CHOOSE n \in 0 .. Len(tx.inputs) - 1 :
                 /\ \A k \in 2 .. n + 1 : item(k)
                 /\ n + 1 < Len(tx.inputs) => ~item(n + 2) IN
  [k \in 1 .. count |->
    CHOOSE r \in ToSet(expired) : tx.inputs[1 + k].from = <<"out", r.out>>]

(* Variant for sensitivity checking: the fee is what the burn says. *)
ValidBurnAnyFee(tx, expired, utxo) ==
  LET rows == ItemsIn(tx, expired)
      burn == BurnOf(utxo, rows)
      outs == 1 + Len(BurnOutputs(rows)) IN
  /\ Len(tx.inputs) >= 3 /\ Len(tx.outputs) >= 4
  /\ Len(rows) \in 1 .. MaxItems /\ Covered(utxo, rows)
  /\ tx.inputs = burn.inputs
  /\ Len(tx.outputs) = Len(burn.outputs)
  /\ SubSeq(tx.outputs, 1, outs) = SubSeq(burn.outputs, 1, outs)

(* validate_layout of a member, with its own expired rows.                 *)
ValidBurn(tx, expired, utxo) ==
  LET rows == ItemsIn(tx, expired)
      reserves == ReservesOf(rows)
      outs == 1 + Len(BurnOutputs(rows)) IN
  /\ Len(tx.inputs) >= 3 /\ Len(tx.outputs) >= 4
  /\ tx.inputs[1].out = EyeOut /\ tx.outputs[1] = EyeOut
  /\ Len(rows) \in 1 .. MaxItems
  /\ \A k \in DOMAIN rows : tx.inputs[1 + k] = ItemInput(rows[k])
  /\ Len(tx.inputs) = 1 + Len(rows) + Len(reserves)
  /\ Len(tx.outputs) = outs + Len(reserves) + 1
  /\ SubSeq(tx.outputs, 2, outs) = BurnOutputs(rows)
  /\ \A g \in DOMAIN reserves :
       /\ tx.inputs[1 + Len(rows) + g] = ReserveInput(utxo, rows, reserves[g])
       /\ Remaining(utxo, rows, g) > 0
       /\ tx.outputs[outs + g] = Out(Account(OwnerOf(rows, reserves[g])), "policy",
                                     Remaining(utxo, rows, g))
  /\ Last(tx.outputs) = Out(MinerFee, "policy", BurnFee(Len(rows), Len(reserves)))
=============================================================================
