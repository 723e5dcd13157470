------------------------------ MODULE MetaAmm -------------------------------
(***************************************************************************)
(* The ReferenceQuote path of the on-chain program (programs/meta_amm):    *)
(* one pool, its quote state, its maker-owned vaults, the token accounts   *)
(* of the keys that touch it, and the cluster's slot clock.                *)
(*                                                                         *)
(* Every instruction is a transaction: it runs alone and either takes all  *)
(* its effects or none.  An action is the successful execution of one      *)
(* instruction, its guards are the checks and account constraints in code  *)
(* order, and a rejected instruction changes nothing.  The nondeterminism  *)
(* is that of the chain: who signs what, with which arguments, and in      *)
(* which order transactions and slots interleave.                          *)
(***************************************************************************)
EXTENDS ReferenceQuote, FiniteSets

CONSTANTS
  Keys,            \* the keys that sign transactions
  Maker,           \* the key that creates the pool: its PDA names it
  DefaultKey,      \* Pubkey::default()
  Vault,           \* owner of both vaults, a PDA no key signs for
  NoAccount,       \* an account that has not been initialized
  PoolArgs,        \* arguments and mints offered to pool initialization
  QuoteAuthorities,                           \* instruction arguments:
  MidPrices, Spreads, Amounts, MinimumOuts,
  DepositAmounts,  \* transfers made to a vault outside the program
  InitialBase, InitialQuote,                  \* token balances of the keys
  MaxSlot,         \* bound on the slot clock
  MaxSequence,     \* bound on quote sequence numbers
  WithheldFee      \* what a transfer-fee mint keeps of a transfer

Holders == Keys \cup {Vault}

Mints    == [decimals : Nat, transfer_fee : BOOLEAN]
Params   == [fee_bps : Nat, base_half_spread_bps : Nat,
             aging_start_slots : Nat, protected_start_slots : Nat,
             expire_slots : Nat,
             aging_surcharge_bps_per_slot : Nat, max_aging_surcharge_bps : Nat,
             max_trade_base_atoms : Nat, protected_max_trade_base_atoms : Nat,
             inventory_skew_bps_per_10k_imbalance : Nat,
             max_inventory_skew_bps : Nat, hard_inventory_band_bps : Nat]
Envelopes == [max_maker_update_period_slots : Nat,
              max_landing_latency_slots : Nat,
              min_update_success_probability_bps : Nat,
              same_slot_order : Nat]
Budgets   == [required_swap_account_metas : Nat, max_swap_account_metas : Nat]

(* A public key is a string of 32 bytes, so there are finitely many.       *)
ASSUME KeysAssumption ==
  Maker \in Keys /\ Vault \notin Keys /\ IsFiniteSet(Keys)

ASSUME ArgsAssumption ==
  /\ PoolArgs \subseteq [params : Params, envelope : Envelopes,
                         budget : Budgets, base_mint : Mints, quote_mint : Mints]
  /\ QuoteAuthorities \subseteq Keys \cup {DefaultKey}
  /\ MidPrices \subseteq Nat /\ Spreads \subseteq Nat
  /\ Amounts \subseteq Nat /\ MinimumOuts \subseteq Nat
  /\ DepositAmounts \subseteq Nat
  /\ InitialBase \in [Keys -> Nat] /\ InitialQuote \in [Keys -> Nat]
  /\ MaxSlot \in Nat /\ MaxSequence \in Nat /\ WithheldFee \in Nat

VARIABLES
  slot,         \* Clock::get()?.slot
  poolConfig,   \* ReferenceQuotePoolConfig
  quoteState,   \* ReferenceQuoteState
  vaultState,   \* VaultState
  baseTokens,   \* base balance of every holder
  quoteTokens   \* quote balance of every holder

vars == <<slot, poolConfig, quoteState, vaultState, baseTokens, quoteTokens>>

PoolConfigs == [paused : BOOLEAN, params : Params, same_slot_order : {0, 1},
                base_mint : Mints, quote_mint : Mints]
QuoteStates == [quote_authority : Keys \cup {DefaultKey}, paused : BOOLEAN,
                same_slot_order : {0, 1}, base_half_spread_bps : Nat,
                mid_price : Nat, publish_slot : Nat, sequence : Nat,
                last_update_slot : Nat]
VaultStates == [paused : BOOLEAN, target_base_inventory : U64]

ASSUME NoAccountAssumption ==
  NoAccount \notin PoolConfigs \cup QuoteStates \cup VaultStates

TypeOK ==
  /\ slot \in Nat
  /\ poolConfig = NoAccount \/ poolConfig \in PoolConfigs
  /\ quoteState = NoAccount \/ quoteState \in QuoteStates
  /\ vaultState = NoAccount \/ vaultState \in VaultStates
  /\ baseTokens \in [Holders -> Nat]
  /\ quoteTokens \in [Holders -> Nat]

Init ==
  /\ slot = 0
  /\ poolConfig = NoAccount
  /\ quoteState = NoAccount
  /\ vaultState = NoAccount
  /\ baseTokens = [h \in Holders |-> IF h \in Keys THEN InitialBase[h] ELSE 0]
  /\ quoteTokens = [h \in Holders |-> IF h \in Keys THEN InitialQuote[h] ELSE 0]

-----------------------------------------------------------------------------
(* The token program (external).  A mint with a transfer fee credits less  *)
(* than it debits.                                                         *)

Received(amount, mint) ==
  IF mint.transfer_fee THEN SaturatingSub(amount, WithheldFee) ELSE amount

CanPay(tokens, from, amount) == tokens[from] >= amount

TransferChecked(tokens, from, to, amount, mint) ==
  [tokens EXCEPT ![from] = @ - amount, ![to] = @ + Received(amount, mint)]

(* Mutation: only the base mint is inspected. *)
MintsSupported_BaseOnly(pair) == ~pair.base_mint.transfer_fee

(* reject_unsupported_token_extensions on both mints. *)
MintsSupported(pair) ==
  ~pair.base_mint.transfer_fee /\ ~pair.quote_mint.transfer_fee

-----------------------------------------------------------------------------
(* Account constraints.  The derived addresses tie every account to the    *)
(* one pool of this model, so what is left of a constraint is that the     *)
(* account exists (or, for init, does not), who must sign, and the pause   *)
(* of the vaults.                                                          *)

InitializeQuoteStateAccounts(authority) ==
  poolConfig # NoAccount /\ quoteState = NoAccount /\ authority = Maker

UpdateQuoteAccounts == poolConfig # NoAccount /\ quoteState # NoAccount

PausePoolAccounts(authority) == poolConfig # NoAccount /\ authority = Maker

InitializeVaultsAccounts(authority) ==
  poolConfig # NoAccount /\ vaultState = NoAccount /\ authority = Maker

FundPoolAccounts(authority) ==
  /\ poolConfig # NoAccount /\ vaultState # NoAccount
  /\ authority = Maker
  /\ ~vaultState.paused

SwapAccounts ==
  /\ poolConfig # NoAccount /\ quoteState # NoAccount
  /\ vaultState # NoAccount
  /\ ~vaultState.paused

(* assert_maker_owned_for_pool, asked again by the handlers. *)
VaultOpen == ~vaultState.paused

-----------------------------------------------------------------------------
(* Pool and quote instructions. *)

InitializeReferenceQuotePool(args) ==
  /\ poolConfig = NoAccount
  /\ MintsSupported(args)
  /\ args.envelope.same_slot_order \in {0, 1}
  /\ ConfigCompiles(args.params, args.envelope, args.budget,
                    args.base_mint, args.quote_mint)
  /\ poolConfig' = [paused |-> FALSE,
                    params |-> args.params,
                    same_slot_order |-> args.envelope.same_slot_order,
                    base_mint |-> args.base_mint,
                    quote_mint |-> args.quote_mint]
  /\ UNCHANGED <<slot, quoteState, vaultState, baseTokens, quoteTokens>>

InitializeReferenceQuoteState(signer, quoteAuthority) ==
  /\ InitializeQuoteStateAccounts(signer)
  /\ quoteAuthority # DefaultKey
  /\ quoteState' = [quote_authority |-> quoteAuthority,
                    paused |-> FALSE,
                    same_slot_order |-> poolConfig.same_slot_order,
                    base_half_spread_bps |->
                      poolConfig.params.base_half_spread_bps,
                    mid_price |-> 0,
                    publish_slot |-> 0,
                    sequence |-> 0,
                    last_update_slot |-> 0]
  /\ UNCHANGED <<slot, poolConfig, vaultState, baseTokens, quoteTokens>>

(* Mutation: the sequence of the quote in force is accepted again. *)
UpdateAccepted_ReplayedSequence(signer, mid, publishSlot, sequence) ==
  /\ signer \in {Maker, quoteState.quote_authority}
  /\ mid > 0
  /\ sequence >= quoteState.sequence
  /\ publishSlot >= quoteState.publish_slot
  /\ publishSlot <= slot

(* Mutation: a publish slot ahead of the clock is accepted. *)
UpdateAccepted_FutureSlot(signer, mid, publishSlot, sequence) ==
  /\ signer \in {Maker, quoteState.quote_authority}
  /\ mid > 0
  /\ sequence > quoteState.sequence
  /\ publishSlot >= quoteState.publish_slot

(* The checks of ReferenceQuoteState::apply_update. *)
UpdateAccepted(signer, mid, publishSlot, sequence) ==
  /\ signer \in {Maker, quoteState.quote_authority}
  /\ mid > 0
  /\ sequence > quoteState.sequence
  /\ publishSlot >= quoteState.publish_slot
  /\ publishSlot <= slot

(* What apply_update writes. *)
ApplyUpdate(mid, publishSlot, sequence) ==
  [quoteState EXCEPT !.mid_price = mid, !.publish_slot = publishSlot,
                     !.sequence = sequence, !.last_update_slot = slot]

UpdateReferenceQuote(signer, mid, publishSlot, sequence) ==
  /\ UpdateQuoteAccounts
  /\ quoteState.same_slot_order = poolConfig.same_slot_order
  /\ UpdateAccepted(signer, mid, publishSlot, sequence)
  /\ quoteState' = ApplyUpdate(mid, publishSlot, sequence)
  /\ UNCHANGED <<slot, poolConfig, vaultState, baseTokens, quoteTokens>>

(* Mutation: the spread is checked for its own range only. *)
BaseSpreadValid_OwnRange(spread) == spread < BPS

(* validate_reference_quote_base_spread. *)
BaseSpreadValid(spread) == WorstSpread(spread, poolConfig.params) < BPS

UpdateReferenceQuoteV2(signer, mid, spread, publishSlot, sequence) ==
  /\ UpdateQuoteAccounts
  /\ quoteState.same_slot_order = poolConfig.same_slot_order
  /\ BaseSpreadValid(spread)
  /\ UpdateAccepted(signer, mid, publishSlot, sequence)
  /\ quoteState' = [ApplyUpdate(mid, publishSlot, sequence)
                      EXCEPT !.base_half_spread_bps = spread]
  /\ UNCHANGED <<slot, poolConfig, vaultState, baseTokens, quoteTokens>>

PausePool(signer, paused) ==
  /\ PausePoolAccounts(signer)
  /\ poolConfig' = [poolConfig EXCEPT !.paused = paused]
  /\ UNCHANGED <<slot, quoteState, vaultState, baseTokens, quoteTokens>>

-----------------------------------------------------------------------------
(* Vault instructions. *)

InitializeMakerVaults(signer) ==
  /\ InitializeVaultsAccounts(signer)
  /\ MintsSupported(poolConfig)
  /\ vaultState' = [paused |-> FALSE, target_base_inventory |-> 0]
  /\ UNCHANGED <<slot, poolConfig, quoteState, baseTokens, quoteTokens>>

(* apply_base_funding_to_target.  The vault balance it is given was read   *)
(* before the funding transfer.                                            *)
FundedTarget(target, preBaseVault, baseAmount) ==
  IF baseAmount = 0 THEN target
  ELSE (IF target = 0 THEN preBaseVault ELSE target) + baseAmount

(* Mutation: the sum is not checked against its field. *)
TargetFits_Unchecked(target) == TRUE

(* The checked_add of the target. *)
TargetFits(target) == target <= MaxU64

(* FundPoolArgs::validate. *)
FundingAsked(baseAmount, quoteAmount) == baseAmount > 0 \/ quoteAmount > 0

FundPool(signer, baseAmount, quoteAmount) ==
  LET target == FundedTarget(vaultState.target_base_inventory,
                             baseTokens[Vault], baseAmount)
  IN
  /\ FundPoolAccounts(signer)
  /\ FundingAsked(baseAmount, quoteAmount)
  /\ MintsSupported(poolConfig)
  /\ VaultOpen
  /\ CanPay(baseTokens, signer, baseAmount)
  /\ CanPay(quoteTokens, signer, quoteAmount)
  /\ TargetFits(target)
  /\ baseTokens' = TransferChecked(baseTokens, signer, Vault, baseAmount,
                                   poolConfig.base_mint)
  /\ quoteTokens' = TransferChecked(quoteTokens, signer, Vault, quoteAmount,
                                    poolConfig.quote_mint)
  /\ vaultState' = [vaultState EXCEPT !.target_base_inventory = target]
  /\ UNCHANGED <<slot, poolConfig, quoteState>>

-----------------------------------------------------------------------------
(* Swaps. *)

(* The parameters of the pool with the half spread of the quote state. *)
SwapParams ==
  [poolConfig.params EXCEPT
     !.base_half_spread_bps = quoteState.base_half_spread_bps]

(* What the program hands to the math crate: balances before the trade. *)
QuotingState ==
  [base_inventory        |-> baseTokens[Vault],
   quote_inventory       |-> quoteTokens[Vault],
   target_base_inventory |-> vaultState.target_base_inventory,
   mid_price             |-> quoteState.mid_price,
   mid_publish_slot      |-> quoteState.publish_slot,
   now_slot              |-> slot,
   paused                |-> \/ poolConfig.paused
                             \/ quoteState.paused
                             \/ vaultState.paused]

SwapQuote(amountIn, baseToQuote) ==
  QuoteExactIn(QuotingState, SwapParams, amountIn, baseToQuote)

(* Mutation: the sequence the swap expects is not compared. *)
QuoteUsable_AnySequence(expectedSequence) ==
  /\ ~quoteState.paused
  /\ quoteState.same_slot_order = poolConfig.same_slot_order
  /\ quoteState.mid_price > 0 /\ quoteState.sequence > 0
  /\ quoteState.publish_slot <= slot

(* ReferenceQuoteState::assert_usable_for_swap. *)
QuoteUsable(expectedSequence) ==
  /\ ~quoteState.paused
  /\ quoteState.same_slot_order = poolConfig.same_slot_order
  /\ quoteState.mid_price > 0 /\ quoteState.sequence > 0
  /\ quoteState.sequence = expectedSequence
  /\ quoteState.publish_slot <= slot

(* SwapExactInArgs::validate. *)
SwapAsked(amountIn, minimumOut, expectedSequence) ==
  amountIn > 0 /\ minimumOut > 0 /\ expectedSequence > 0

(* What the handler asks of the pool before it quotes. *)
PoolOpen ==
  /\ VaultOpen
  /\ ~poolConfig.paused
  /\ vaultState.target_base_inventory > 0

(* Mutation: any output will do. *)
OutputAcceptable_Any(amountOut, minimumOut) == amountOut > 0

(* The slippage check, made before any token moves. *)
OutputAcceptable(amountOut, minimumOut) == amountOut >= minimumOut

SwapExactIn(taker, amountIn, minimumOut, expectedSequence, baseToQuote) ==
  LET quote   == SwapQuote(amountIn, baseToQuote)
      inMint  == IF baseToQuote THEN poolConfig.base_mint
                                ELSE poolConfig.quote_mint
      outMint == IF baseToQuote THEN poolConfig.quote_mint
                                ELSE poolConfig.base_mint
      in      == IF baseToQuote THEN baseTokens ELSE quoteTokens
      out     == IF baseToQuote THEN quoteTokens ELSE baseTokens
      newIn   == TransferChecked(in, taker, Vault, amountIn, inMint)
      newOut  == TransferChecked(out, Vault, taker, quote.value, outMint)
  IN
  /\ SwapAccounts
  /\ SwapAsked(amountIn, minimumOut, expectedSequence)
  /\ MintsSupported(poolConfig)
  /\ QuoteUsable(expectedSequence)
  /\ PoolOpen
  /\ quote.error = NoError
  /\ OutputAcceptable(quote.value, minimumOut)
  /\ CanPay(in, taker, amountIn)
  /\ CanPay(out, Vault, quote.value)
  /\ baseTokens' = IF baseToQuote THEN newIn ELSE newOut
  /\ quoteTokens' = IF baseToQuote THEN newOut ELSE newIn
  /\ UNCHANGED <<slot, poolConfig, quoteState, vaultState>>

-----------------------------------------------------------------------------
(* The environment: the cluster's clock, and plain token transfers into a  *)
(* vault, which the token program allows anybody to make.                  *)

Tick ==
  /\ slot < MaxSlot
  /\ slot' = slot + 1
  /\ UNCHANGED <<poolConfig, quoteState, vaultState, baseTokens, quoteTokens>>

DepositBase(key, amount) ==
  /\ vaultState # NoAccount
  /\ amount > 0 /\ CanPay(baseTokens, key, amount)
  /\ baseTokens' = TransferChecked(baseTokens, key, Vault, amount,
                                   poolConfig.base_mint)
  /\ UNCHANGED <<slot, poolConfig, quoteState, vaultState, quoteTokens>>

DepositQuote(key, amount) ==
  /\ vaultState # NoAccount
  /\ amount > 0 /\ CanPay(quoteTokens, key, amount)
  /\ quoteTokens' = TransferChecked(quoteTokens, key, Vault, amount,
                                    poolConfig.quote_mint)
  /\ UNCHANGED <<slot, poolConfig, quoteState, vaultState, baseTokens>>

-----------------------------------------------------------------------------

Slots     == 0 .. MaxSlot
Sequences == 0 .. MaxSequence

Next ==
  \/ \E args \in PoolArgs : InitializeReferenceQuotePool(args)
  \/ \E signer \in Keys, authority \in QuoteAuthorities :
       InitializeReferenceQuoteState(signer, authority)
  \/ \E signer \in Keys, mid \in MidPrices, publish \in Slots,
        sequence \in Sequences :
       UpdateReferenceQuote(signer, mid, publish, sequence)
  \/ \E signer \in Keys, mid \in MidPrices, spread \in Spreads,
        publish \in Slots, sequence \in Sequences :
       UpdateReferenceQuoteV2(signer, mid, spread, publish, sequence)
  \/ \E signer \in Keys, paused \in BOOLEAN : PausePool(signer, paused)
  \/ \E signer \in Keys : InitializeMakerVaults(signer)
  \/ \E signer \in Keys, base \in Amounts, quote \in Amounts :
       FundPool(signer, base, quote)
  \/ \E taker \in Keys, amountIn \in Amounts, minimumOut \in MinimumOuts,
        expected \in Sequences, baseToQuote \in BOOLEAN :
       SwapExactIn(taker, amountIn, minimumOut, expected, baseToQuote)
  \/ Tick
  \/ \E key \in Keys, amount \in DepositAmounts : DepositBase(key, amount)
  \/ \E key \in Keys, amount \in DepositAmounts : DepositQuote(key, amount)

Spec == Init /\ [][Next]_vars

(* Slots pass whether or not anybody transacts. *)
FairSpec == Spec /\ WF_vars(Tick)

=============================================================================
