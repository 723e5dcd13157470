--------------------------- MODULE MetaAmmProofs ----------------------------
(***************************************************************************)
(* Theorems about the ReferenceQuote path, about the takers' side of it    *)
(* and about the bytes a pool is stored in, for every set of keys, every   *)
(* pool configuration, every word width and any number of instructions.    *)
(***************************************************************************)
EXTENDS Router, MetaAmmProperties, StoredConfig, ReferenceQuoteProofs,
        SequenceTheorems

(***************************************************************************)
(* The inductive invariant.  A pool account exists only with parameters    *)
(* and mints that passed validation; the half spread of the quote account  *)
(* was checked against the limits in the pool account; quote and vault     *)
(* accounts exist only beside a pool account.                              *)
(***************************************************************************)
PoolValidated ==
  poolConfig # NoAccount =>
    ConfigParamsValid(poolConfig.params) /\ MintsSupported(poolConfig)

SpreadWithinPool ==
  quoteState # NoAccount =>
    /\ poolConfig # NoAccount
    /\ WorstSpread(quoteState.base_half_spread_bps, poolConfig.params) < BPS

VaultHasPool == vaultState # NoAccount => poolConfig # NoAccount

IInv ==
  /\ TypeOK
  /\ PoolValidated
  /\ SpreadWithinPool
  /\ VaultHasPool
  /\ QuoteNotFromFuture

-----------------------------------------------------------------------------
(* Lemmas about the helpers of the actions. *)

(* One transfer, debited and credited in full. *)
Moved(before, after, from, to, amount) ==
  /\ before \in [Holders -> Nat] /\ after \in [Holders -> Nat]
  /\ from \in Holders /\ to \in Holders /\ from # to
  /\ amount \in Nat
  /\ after[from] = before[from] - amount
  /\ after[to] = before[to] + amount
  /\ \A h \in Holders \ {from, to} : after[h] = before[h]

(* A transfer that can be paid in a mint without a fee moves its amount.   *)
LEMMA TransferMoves ==
  ASSUME NEW tokens \in [Holders -> Nat], NEW from \in Holders,
         NEW to \in Holders, from # to, NEW amount \in Nat, NEW mint \in Mints,
         ~mint.transfer_fee, CanPay(tokens, from, amount)
  PROVE  Moved(tokens, TransferChecked(tokens, from, to, amount, mint),
               from, to, amount)
<1>1. Received(amount, mint) = amount
  BY DEF Received
<1>2. tokens[from] - amount \in Nat /\ tokens[to] + amount \in Nat
  BY DEF CanPay
<1>. QED
  BY <1>1, <1>2 DEF TransferChecked, Moved

(* Every pool account was opened on mints without a transfer fee.          *)
LEMMA MintsExact ==
  ASSUME IInv, poolConfig # NoAccount
  PROVE  /\ poolConfig.base_mint \in Mints /\ ~poolConfig.base_mint.transfer_fee
         /\ poolConfig.quote_mint \in Mints /\ ~poolConfig.quote_mint.transfer_fee
  BY DEF IInv, TypeOK, PoolConfigs, PoolValidated, MintsSupported

(* With every account in place the program hands the math crate a state    *)
(* and parameters of the right type, and parameters it accepts.            *)
LEMMA SwapInputs ==
  ASSUME IInv, Live
  PROVE  /\ QuotingState \in QuotingStates
         /\ SwapParams \in QuoteParams
         /\ MathParamsValid(SwapParams)
         /\ WorstSpread(SwapParams.base_half_spread_bps, SwapParams) < BPS
         /\ SwapParams.hard_inventory_band_bps
              = poolConfig.params.hard_inventory_band_bps
         /\ poolConfig.params.hard_inventory_band_bps \in 1 .. BPS
<1>1. /\ poolConfig \in PoolConfigs /\ quoteState \in QuoteStates
      /\ vaultState \in VaultStates /\ slot \in Nat
      /\ baseTokens[Vault] \in Nat /\ quoteTokens[Vault] \in Nat
  BY DEF IInv, Live, TypeOK, Holders
<1>2. poolConfig.params \in Params /\ quoteState.base_half_spread_bps \in Nat
  BY <1>1 DEF PoolConfigs, QuoteStates
<1>3. SwapParams \in QuoteParams
  BY <1>2 DEF SwapParams, Params, QuoteParams
<1>4. QuotingState \in QuotingStates
  BY <1>1, MaxU64Assumption
     DEF QuotingState, QuotingStates, PoolConfigs, QuoteStates, VaultStates, U64
<1>5. /\ ConfigParamsValid(poolConfig.params)
      /\ WorstSpread(quoteState.base_half_spread_bps, poolConfig.params) < BPS
  BY DEF IInv, PoolValidated, SpreadWithinPool, Live
<1>6. SwapParams = [poolConfig.params EXCEPT
                      !.base_half_spread_bps = quoteState.base_half_spread_bps]
  BY DEF SwapParams
<1>7. WorstSpread(SwapParams.base_half_spread_bps, SwapParams) < BPS
  BY <1>2, <1>5, <1>6 DEF WorstSpread, Params
<1>8. quoteState.base_half_spread_bps < BPS
  BY <1>2, <1>5, BPSAssumption DEF WorstSpread, Params
<1>9. MathParamsValid(SwapParams)
  BY <1>2, <1>5, <1>6, <1>8 DEF MathParamsValid, ConfigParamsValid, Params
<1>10. /\ SwapParams.hard_inventory_band_bps
            = poolConfig.params.hard_inventory_band_bps
       /\ poolConfig.params.hard_inventory_band_bps \in 1 .. BPS
  BY <1>2, <1>5, <1>6 DEF ConfigParamsValid, Params
<1>. QED
  BY <1>3, <1>4, <1>7, <1>9, <1>10

(* The quote of a swap in a state of the invariant.                        *)
LEMMA SwapQuoteFacts ==
  ASSUME IInv, Live, NEW amountIn \in Nat, NEW baseToQuote \in BOOLEAN,
         SwapQuote(amountIn, baseToQuote).error = NoError
  PROVE  LET out     == SwapQuote(amountIn, baseToQuote).value
             newBase == IF baseToQuote THEN BaseVault + amountIn
                                       ELSE BaseVault - out
         IN  /\ out \in Nat \ {0}
             /\ out < IF baseToQuote THEN QuoteVault ELSE BaseVault
             /\ newBase \in Nat
             /\ vaultState.target_base_inventory \in Nat \ {0}
             /\ AbsInt(InventoryImbalanceBps(
                         newBase, vaultState.target_base_inventory))
                  <= poolConfig.params.hard_inventory_band_bps
<1>. DEFINE out == SwapQuote(amountIn, baseToQuote).value
<1>1. out \in Nat
  BY SwapInputs, QuoteType DEF SwapQuote
<1>2. /\ QuotingState.base_inventory = BaseVault
      /\ QuotingState.quote_inventory = QuoteVault
      /\ QuotingState.target_base_inventory = vaultState.target_base_inventory
  BY DEF QuotingState, BaseVault, QuoteVault
<1>3. /\ BaseVault \in Nat /\ QuoteVault \in Nat
      /\ vaultState.target_base_inventory \in Nat
  BY <1>2, SwapInputs DEF QuotingStates
<1>4. /\ 0 < out
      /\ out < IF baseToQuote THEN QuoteVault ELSE BaseVault
      /\ vaultState.target_base_inventory > 0
      /\ AbsInt(InventoryImbalanceBps(
                  IF baseToQuote THEN BaseVault + amountIn ELSE BaseVault - out,
                  vaultState.target_base_inventory))
           <= poolConfig.params.hard_inventory_band_bps
  BY <1>2, SwapInputs, QuoteSettles DEF SwapQuote
<1>. HIDE DEF out
<1>5. /\ out \in Nat \ {0}
      /\ (IF baseToQuote THEN BaseVault + amountIn ELSE BaseVault - out) \in Nat
      /\ vaultState.target_base_inventory \in Nat \ {0}
  BY <1>1, <1>3, <1>4
<1>. QED
  BY <1>4, <1>5 DEF out

(* A swap executes on a quote that was accepted, pays at least the minimum *)
(* and moves the input to the vault and the output to the taker.           *)
LEMMA SwapMoves ==
  ASSUME IInv, NEW taker \in Keys, NEW amountIn \in Nat,
         NEW minimumOut, NEW expected, NEW baseToQuote \in BOOLEAN,
         SwapExactIn(taker, amountIn, minimumOut, expected, baseToQuote)
  PROVE  LET out == SwapQuote(amountIn, baseToQuote).value
         IN  /\ Live /\ QuoteUsable(expected) /\ PoolOpen
             /\ SwapQuote(amountIn, baseToQuote).error = NoError
             /\ amountIn > 0 /\ out >= minimumOut
             /\ UNCHANGED <<slot, poolConfig, quoteState, vaultState>>
             /\ IF baseToQuote
                THEN /\ Moved(baseTokens, baseTokens', taker, Vault, amountIn)
                     /\ Moved(quoteTokens, quoteTokens', Vault, taker, out)
                ELSE /\ Moved(quoteTokens, quoteTokens', taker, Vault, amountIn)
                     /\ Moved(baseTokens, baseTokens', Vault, taker, out)
<1>. DEFINE out == SwapQuote(amountIn, baseToQuote).value
<1>1. /\ Live /\ QuoteUsable(expected) /\ PoolOpen
      /\ SwapQuote(amountIn, baseToQuote).error = NoError
      /\ amountIn > 0 /\ out >= minimumOut
      /\ UNCHANGED <<slot, poolConfig, quoteState, vaultState>>
  BY DEF SwapExactIn, Live, SwapAccounts, SwapAsked, OutputAcceptable
<1>2. out \in Nat
  BY <1>1, SwapQuoteFacts
<1>3. /\ taker \in Holders /\ Vault \in Holders /\ taker # Vault
      /\ baseTokens \in [Holders -> Nat] /\ quoteTokens \in [Holders -> Nat]
  BY KeysAssumption DEF Holders, IInv, TypeOK
<1>4. /\ poolConfig.base_mint \in Mints /\ ~poolConfig.base_mint.transfer_fee
      /\ poolConfig.quote_mint \in Mints /\ ~poolConfig.quote_mint.transfer_fee
  BY <1>1, MintsExact DEF Live
<1>5. CASE baseToQuote
  <2>1. /\ CanPay(baseTokens, taker, amountIn) /\ CanPay(quoteTokens, Vault, out)
        /\ baseTokens' = TransferChecked(baseTokens, taker, Vault, amountIn,
                                         poolConfig.base_mint)
        /\ quoteTokens' = TransferChecked(quoteTokens, Vault, taker, out,
                                          poolConfig.quote_mint)
    BY <1>5 DEF SwapExactIn
  <2>. HIDE DEF out
  <2>2. /\ Moved(baseTokens, baseTokens', taker, Vault, amountIn)
        /\ Moved(quoteTokens, quoteTokens', Vault, taker, out)
    BY <1>2, <1>3, <1>4, <2>1, TransferMoves
  <2>. QED
    BY <1>1, <1>5, <2>2 DEF out
<1>6. CASE ~baseToQuote
  <2>1. /\ CanPay(quoteTokens, taker, amountIn) /\ CanPay(baseTokens, Vault, out)
        /\ quoteTokens' = TransferChecked(quoteTokens, taker, Vault, amountIn,
                                          poolConfig.quote_mint)
        /\ baseTokens' = TransferChecked(baseTokens, Vault, taker, out,
                                         poolConfig.base_mint)
    BY <1>6 DEF SwapExactIn
  <2>. HIDE DEF out
  <2>2. /\ Moved(quoteTokens, quoteTokens', taker, Vault, amountIn)
        /\ Moved(baseTokens, baseTokens', Vault, taker, out)
    BY <1>2, <1>3, <1>4, <2>1, TransferMoves
  <2>. QED
    BY <1>1, <1>6, <2>2 DEF out
<1>. QED
  BY <1>5, <1>6

(* What a swap does to the vaults.                                         *)
LEMMA SwapMovesVaults ==
  ASSUME IInv, NEW taker \in Keys, NEW amountIn \in Nat,
         NEW minimumOut, NEW expected, NEW baseToQuote \in BOOLEAN,
         SwapExactIn(taker, amountIn, minimumOut, expected, baseToQuote)
  PROVE  LET out == SwapQuote(amountIn, baseToQuote).value
         IN  /\ baseTokens' \in [Holders -> Nat]
             /\ quoteTokens' \in [Holders -> Nat]
             /\ BaseVault' = IF baseToQuote THEN BaseVault + amountIn
                                            ELSE BaseVault - out
             /\ QuoteVault' = IF baseToQuote THEN QuoteVault - out
                                             ELSE QuoteVault + amountIn
  BY SwapMoves DEF Moved, BaseVault, QuoteVault

(* What funding does to the balances and to the target.                    *)
LEMMA FundingMoves ==
  ASSUME IInv, NEW signer \in Keys, NEW baseAmount \in Nat,
         NEW quoteAmount \in Nat, FundPool(signer, baseAmount, quoteAmount)
  PROVE  LET target == FundedTarget(vaultState.target_base_inventory,
                                    BaseVault, baseAmount)
         IN  /\ Moved(baseTokens, baseTokens', signer, Vault, baseAmount)
             /\ Moved(quoteTokens, quoteTokens', signer, Vault, quoteAmount)
             /\ BaseVault' = BaseVault + baseAmount
             /\ QuoteVault' = QuoteVault + quoteAmount
             /\ target \in U64
             /\ vaultState \in VaultStates
             /\ vaultState' = [vaultState EXCEPT !.target_base_inventory = target]
<1>1. /\ poolConfig # NoAccount /\ vaultState # NoAccount
      /\ CanPay(baseTokens, signer, baseAmount)
      /\ CanPay(quoteTokens, signer, quoteAmount)
      /\ baseTokens' = TransferChecked(baseTokens, signer, Vault, baseAmount,
                                       poolConfig.base_mint)
      /\ quoteTokens' = TransferChecked(quoteTokens, signer, Vault, quoteAmount,
                                        poolConfig.quote_mint)
      /\ TargetFits(FundedTarget(vaultState.target_base_inventory,
                                 baseTokens[Vault], baseAmount))
      /\ vaultState' = [vaultState EXCEPT !.target_base_inventory =
                          FundedTarget(vaultState.target_base_inventory,
                                       baseTokens[Vault], baseAmount)]
  BY DEF FundPool, FundPoolAccounts
<1>2. /\ signer \in Holders /\ Vault \in Holders /\ signer # Vault
      /\ baseTokens \in [Holders -> Nat] /\ quoteTokens \in [Holders -> Nat]
  BY KeysAssumption DEF Holders, IInv, TypeOK
<1>3. /\ Moved(baseTokens, baseTokens', signer, Vault, baseAmount)
      /\ Moved(quoteTokens, quoteTokens', signer, Vault, quoteAmount)
  BY <1>1, <1>2, MintsExact, TransferMoves
<1>4. /\ vaultState \in VaultStates
      /\ vaultState.target_base_inventory \in Nat
  BY <1>1, MaxU64Assumption DEF IInv, TypeOK, VaultStates, U64
<1>5. FundedTarget(vaultState.target_base_inventory, BaseVault, baseAmount) \in U64
  BY <1>1, <1>2, <1>4, MaxU64Assumption
     DEF FundedTarget, TargetFits, U64, BaseVault
<1>. QED
  BY <1>1, <1>3, <1>4, <1>5 DEF BaseVault, QuoteVault, Moved

(* A transfer made past the program arrives in full.                       *)
LEMMA DepositMoves ==
  ASSUME IInv, NEW key \in Keys, NEW amount \in Nat
  PROVE  /\ DepositBase(key, amount) =>
              /\ Moved(baseTokens, baseTokens', key, Vault, amount)
              /\ BaseVault' = BaseVault + amount /\ amount > 0
         /\ DepositQuote(key, amount) =>
              /\ Moved(quoteTokens, quoteTokens', key, Vault, amount)
              /\ QuoteVault' = QuoteVault + amount /\ amount > 0
<1>1. /\ key \in Holders /\ Vault \in Holders /\ key # Vault
      /\ baseTokens \in [Holders -> Nat] /\ quoteTokens \in [Holders -> Nat]
  BY KeysAssumption DEF Holders, IInv, TypeOK
<1>2. vaultState # NoAccount =>
        /\ poolConfig.base_mint \in Mints /\ ~poolConfig.base_mint.transfer_fee
        /\ poolConfig.quote_mint \in Mints /\ ~poolConfig.quote_mint.transfer_fee
  BY MintsExact DEF IInv, VaultHasPool
<1>3. ASSUME DepositBase(key, amount)
      PROVE  Moved(baseTokens, baseTokens', key, Vault, amount) /\ amount > 0
  BY <1>1, <1>2, <1>3, TransferMoves DEF DepositBase
<1>4. ASSUME DepositQuote(key, amount)
      PROVE  Moved(quoteTokens, quoteTokens', key, Vault, amount) /\ amount > 0
  BY <1>1, <1>2, <1>4, TransferMoves DEF DepositQuote
<1>. QED
  BY <1>3, <1>4 DEF Moved, BaseVault, QuoteVault

-----------------------------------------------------------------------------
(* The invariant is inductive. *)

(* The invariant holds initially.                                          *)
LEMMA InitIInv == ASSUME Init PROVE IInv
<1>1. baseTokens \in [Holders -> Nat] /\ quoteTokens \in [Holders -> Nat]
  BY ArgsAssumption DEF Init, Holders
<1>. QED
  BY <1>1 DEF Init, IInv, TypeOK, PoolValidated, SpreadWithinPool, VaultHasPool,
              QuoteNotFromFuture

(* Creating the pool account: everything the invariant says of its         *)
(* parameters and mints is checked by the instruction.                     *)
LEMMA PoolCreated ==
  ASSUME IInv, NEW args \in PoolArgs, InitializeReferenceQuotePool(args)
  PROVE  IInv'
<1>1. /\ args.params \in Params
      /\ args.base_mint \in Mints /\ args.quote_mint \in Mints
  BY ArgsAssumption
<1>2. poolConfig' = [paused |-> FALSE, params |-> args.params,
                     same_slot_order |-> args.envelope.same_slot_order,
                     base_mint |-> args.base_mint,
                     quote_mint |-> args.quote_mint]
  BY DEF InitializeReferenceQuotePool
<1>3. args.envelope.same_slot_order \in {0, 1}
  BY DEF InitializeReferenceQuotePool
<1>4. poolConfig' \in PoolConfigs
  BY <1>1, <1>2, <1>3 DEF PoolConfigs
<1>5. /\ quoteState = NoAccount /\ vaultState = NoAccount
      /\ UNCHANGED <<slot, quoteState, vaultState, baseTokens, quoteTokens>>
  BY DEF InitializeReferenceQuotePool, IInv, SpreadWithinPool, VaultHasPool
<1>6. ConfigParamsValid(args.params) /\ MintsSupported(args)
  BY DEF InitializeReferenceQuotePool, ConfigCompiles
<1>7. PoolValidated'
  BY <1>2, <1>6 DEF PoolValidated, MintsSupported
<1>8. TypeOK'
  BY <1>4, <1>5 DEF IInv, TypeOK
<1>. QED
  BY <1>5, <1>7, <1>8
     DEF IInv, SpreadWithinPool, VaultHasPool, QuoteNotFromFuture

(* Creating the quote account: it starts with the pool's own half spread.  *)
LEMMA QuoteCreated ==
  ASSUME IInv, NEW signer \in Keys, NEW authority \in QuoteAuthorities,
         InitializeReferenceQuoteState(signer, authority)
  PROVE  IInv'
<1>1. /\ poolConfig # NoAccount
      /\ quoteState' = [quote_authority |-> authority, paused |-> FALSE,
                        same_slot_order |-> poolConfig.same_slot_order,
                        base_half_spread_bps |->
                          poolConfig.params.base_half_spread_bps,
                        mid_price |-> 0, publish_slot |-> 0, sequence |-> 0,
                        last_update_slot |-> 0]
      /\ UNCHANGED <<slot, poolConfig, vaultState, baseTokens, quoteTokens>>
  BY DEF InitializeReferenceQuoteState,
     InitializeQuoteStateAccounts
<1>2. /\ poolConfig \in PoolConfigs /\ poolConfig.params \in Params
      /\ authority \in Keys \cup {DefaultKey} /\ slot \in Nat
  BY <1>1, ArgsAssumption DEF IInv, TypeOK, PoolConfigs
<1>3. quoteState' \in QuoteStates
  BY <1>1, <1>2 DEF PoolConfigs, QuoteStates, Params
<1>4. TypeOK'
  BY <1>1, <1>3 DEF IInv, TypeOK
<1>5. SpreadWithinPool'
  BY <1>1 DEF IInv, PoolValidated, ConfigParamsValid, SpreadWithinPool
<1>6. QuoteNotFromFuture'
  BY <1>1, <1>2 DEF QuoteNotFromFuture
<1>. QED
  BY <1>1, <1>4, <1>5, <1>6
     DEF IInv, PoolValidated, MintsSupported, VaultHasPool

(* What both update instructions share.                                    *)
LEMMA UpdateKeeps ==
  ASSUME IInv, quoteState # NoAccount, NEW signer \in Keys, NEW mid \in MidPrices,
         NEW publish \in Slots, NEW sequence \in Sequences, NEW spread \in Nat,
         WorstSpread(spread, poolConfig.params) < BPS,
         UpdateAccepted(signer, mid, publish, sequence),
         quoteState' = [ApplyUpdate(mid, publish, sequence)
                          EXCEPT !.base_half_spread_bps = spread],
         UNCHANGED <<slot, poolConfig, vaultState, baseTokens, quoteTokens>>
  PROVE  IInv'
<1>1. /\ mid \in Nat /\ publish \in Nat /\ sequence \in Nat /\ slot \in Nat
      /\ quoteState \in QuoteStates
  BY ArgsAssumption DEF Slots, Sequences, IInv, TypeOK
<1>2. quoteState' = [quoteState EXCEPT
                       !.mid_price = mid, !.publish_slot = publish,
                       !.sequence = sequence, !.last_update_slot = slot,
                       !.base_half_spread_bps = spread]
  BY DEF ApplyUpdate
<1>3. quoteState' \in QuoteStates
  BY <1>1, <1>2 DEF QuoteStates
<1>4. TypeOK'
  BY <1>3 DEF IInv, TypeOK
<1>5. SpreadWithinPool'
  BY <1>1, <1>2 DEF IInv, SpreadWithinPool, QuoteStates
<1>6. QuoteNotFromFuture'
  <2>1. /\ quoteState'.mid_price = mid /\ quoteState'.publish_slot = publish
        /\ quoteState'.sequence = sequence
        /\ quoteState'.last_update_slot = slot
    BY <1>1, <1>2 DEF QuoteStates
  <2>2. mid > 0 /\ sequence > 0 /\ publish <= slot
    BY <1>1 DEF UpdateAccepted, QuoteStates
  <2>. QED
    BY <1>1, <2>1, <2>2 DEF QuoteNotFromFuture
<1>. QED
  BY <1>4, <1>5, <1>6 DEF IInv, PoolValidated, MintsSupported, VaultHasPool

(* One lemma per instruction: each keeps the invariant.                    *)
LEMMA QuoteUpdated ==
  ASSUME IInv, NEW signer \in Keys, NEW mid \in MidPrices,
         NEW publish \in Slots, NEW sequence \in Sequences,
         UpdateReferenceQuote(signer, mid, publish, sequence)
  PROVE  IInv'
<1>. DEFINE spread == quoteState.base_half_spread_bps
<1>1. /\ quoteState # NoAccount
      /\ UpdateAccepted(signer, mid, publish, sequence)
      /\ quoteState' = ApplyUpdate(mid, publish, sequence)
      /\ UNCHANGED <<slot, poolConfig, vaultState, baseTokens, quoteTokens>>
  BY DEF UpdateReferenceQuote,
     UpdateQuoteAccounts
<1>2. quoteState \in QuoteStates /\ spread \in Nat
  BY <1>1 DEF IInv, TypeOK, QuoteStates
<1>3. WorstSpread(spread, poolConfig.params) < BPS
  BY <1>1 DEF IInv, SpreadWithinPool
<1>4. ApplyUpdate(mid, publish, sequence)
        = [ApplyUpdate(mid, publish, sequence)
             EXCEPT !.base_half_spread_bps = spread]
  BY <1>2 DEF ApplyUpdate, QuoteStates
<1>. QED
  BY <1>1, <1>2, <1>3, <1>4, UpdateKeeps

LEMMA QuoteUpdatedV2 ==
  ASSUME IInv, NEW signer \in Keys, NEW mid \in MidPrices, NEW spread \in Spreads,
         NEW publish \in Slots, NEW sequence \in Sequences,
         UpdateReferenceQuoteV2(signer, mid, spread, publish, sequence)
  PROVE  IInv'
  BY UpdateKeeps, ArgsAssumption DEF UpdateReferenceQuoteV2, BaseSpreadValid,
     UpdateQuoteAccounts

LEMMA PoolPaused ==
  ASSUME IInv, NEW signer \in Keys, NEW paused \in BOOLEAN,
         PausePool(signer, paused)
  PROVE  IInv'
<1>1. /\ poolConfig # NoAccount
      /\ poolConfig' = [poolConfig EXCEPT !.paused = paused]
      /\ UNCHANGED <<slot, quoteState, vaultState, baseTokens, quoteTokens>>
  BY DEF PausePool,
     PausePoolAccounts
<1>2. poolConfig \in PoolConfigs
  BY <1>1 DEF IInv, TypeOK
<1>3. /\ poolConfig' \in PoolConfigs
      /\ poolConfig'.params = poolConfig.params
      /\ poolConfig'.base_mint = poolConfig.base_mint
      /\ poolConfig'.quote_mint = poolConfig.quote_mint
  BY <1>1, <1>2 DEF PoolConfigs
<1>4. TypeOK'
  BY <1>1, <1>3 DEF IInv, TypeOK
<1>5. PoolValidated'
  BY <1>1, <1>3 DEF IInv, PoolValidated, MintsSupported
<1>6. SpreadWithinPool' /\ VaultHasPool'
  BY <1>1, <1>3, NoAccountAssumption DEF IInv, SpreadWithinPool, VaultHasPool
<1>. QED
  BY <1>1, <1>4, <1>5, <1>6 DEF IInv, QuoteNotFromFuture

(* Steps that leave pool and quote accounts alone keep the invariant if    *)
(* they keep the types, and no vault account appears without a pool.       *)
LEMMA BalancesKeep ==
  ASSUME IInv, UNCHANGED <<poolConfig, quoteState>>, TypeOK', slot' >= slot,
         vaultState' # NoAccount => poolConfig # NoAccount
  PROVE  IInv'
<1>1. QuoteNotFromFuture'
  BY DEF IInv, TypeOK, QuoteNotFromFuture, QuoteStates
<1>. QED
  BY <1>1 DEF IInv, PoolValidated, MintsSupported, SpreadWithinPool, VaultHasPool

LEMMA VaultsCreated ==
  ASSUME IInv, NEW signer \in Keys, InitializeMakerVaults(signer)
  PROVE  IInv'
<1>1. vaultState' \in VaultStates
  BY MaxU64Assumption DEF InitializeMakerVaults, VaultStates, U64
<1>2. TypeOK' /\ slot' >= slot
  BY <1>1 DEF InitializeMakerVaults, IInv, TypeOK
<1>. QED
  BY <1>2, BalancesKeep DEF InitializeMakerVaults,
     InitializeVaultsAccounts

LEMMA PoolFunded ==
  ASSUME IInv, NEW signer \in Keys, NEW base \in Amounts, NEW quote \in Amounts,
         FundPool(signer, base, quote)
  PROVE  IInv'
<1>1. vaultState' \in VaultStates
  BY FundingMoves, ArgsAssumption DEF VaultStates
<1>2. baseTokens' \in [Holders -> Nat] /\ quoteTokens' \in [Holders -> Nat]
  BY FundingMoves, ArgsAssumption DEF Moved
<1>3. UNCHANGED <<slot, poolConfig, quoteState>>
  BY DEF FundPool
<1>4. TypeOK' /\ slot' >= slot
  BY <1>1, <1>2, <1>3 DEF IInv, TypeOK
<1>. QED
  BY <1>3, <1>4, BalancesKeep DEF FundPool,
     FundPoolAccounts

LEMMA Swapped ==
  ASSUME IInv, NEW taker \in Keys, NEW amountIn \in Nat,
         NEW minimumOut, NEW expected, NEW baseToQuote \in BOOLEAN,
         SwapExactIn(taker, amountIn, minimumOut, expected, baseToQuote)
  PROVE  IInv'
<1>1. UNCHANGED <<slot, poolConfig, quoteState, vaultState>>
  BY DEF SwapExactIn
<1>2. TypeOK' /\ slot' >= slot
  BY <1>1, SwapMovesVaults DEF IInv, TypeOK
<1>. QED
  BY <1>1, <1>2, BalancesKeep DEF IInv, VaultHasPool

LEMMA Ticked == ASSUME IInv, Tick PROVE IInv'
<1>1. TypeOK' /\ slot' >= slot
  BY DEF Tick, IInv, TypeOK
<1>. QED
  BY <1>1, BalancesKeep DEF Tick, IInv, VaultHasPool

LEMMA Deposited ==
  ASSUME IInv, NEW key \in Keys, NEW amount \in DepositAmounts,
         DepositBase(key, amount) \/ DepositQuote(key, amount)
  PROVE  IInv'
<1>1. TypeOK' /\ slot' >= slot
  BY DepositMoves, ArgsAssumption
     DEF Moved, DepositBase, DepositQuote, IInv, TypeOK
<1>. QED
  BY <1>1, BalancesKeep DEF DepositBase, DepositQuote, IInv, VaultHasPool

(* Every step keeps the invariant.                                         *)
LEMMA NextIInv == ASSUME IInv, [Next]_vars PROVE IInv'
<1>1. CASE \E args \in PoolArgs : InitializeReferenceQuotePool(args)
  BY <1>1, PoolCreated
<1>2. CASE \E signer \in Keys, authority \in QuoteAuthorities :
             InitializeReferenceQuoteState(signer, authority)
  BY <1>2, QuoteCreated
<1>3. CASE \E signer \in Keys, mid \in MidPrices, publish \in Slots,
              sequence \in Sequences :
             UpdateReferenceQuote(signer, mid, publish, sequence)
  BY <1>3, QuoteUpdated
<1>4. CASE \E signer \in Keys, mid \in MidPrices, spread \in Spreads,
              publish \in Slots, sequence \in Sequences :
             UpdateReferenceQuoteV2(signer, mid, spread, publish, sequence)
  BY <1>4, QuoteUpdatedV2
<1>5. CASE \E signer \in Keys, paused \in BOOLEAN : PausePool(signer, paused)
  BY <1>5, PoolPaused
<1>6. CASE \E signer \in Keys : InitializeMakerVaults(signer)
  BY <1>6, VaultsCreated
<1>7. CASE \E signer \in Keys, base \in Amounts, quote \in Amounts :
             FundPool(signer, base, quote)
  BY <1>7, PoolFunded
<1>8. CASE \E taker \in Keys, amountIn \in Amounts, minimumOut \in MinimumOuts,
              expected \in Sequences, baseToQuote \in BOOLEAN :
             SwapExactIn(taker, amountIn, minimumOut, expected, baseToQuote)
  BY <1>8, ArgsAssumption, Swapped
<1>9. CASE Tick
  BY <1>9, Ticked
<1>10. CASE \E key \in Keys, amount \in DepositAmounts : DepositBase(key, amount)
  BY <1>10, Deposited
<1>11. CASE \E key \in Keys, amount \in DepositAmounts : DepositQuote(key, amount)
  BY <1>11, Deposited
<1>12. CASE UNCHANGED vars
  BY <1>12 DEF vars, IInv, TypeOK, PoolValidated, MintsSupported,
               SpreadWithinPool, VaultHasPool, QuoteNotFromFuture
<1>. QED
  BY <1>1, <1>2, <1>3, <1>4, <1>5, <1>6, <1>7, <1>8, <1>9, <1>10, <1>11, <1>12
     DEF Next

(* The invariant holds in every reachable state. *)
THEOREM Inductive == Spec => []IInv
<1>1. Init => IInv
  BY InitIInv
<1>2. IInv /\ [Next]_vars => IInv'
  BY NextIInv
<1>. QED
  BY <1>1, <1>2, PTL DEF Spec

-----------------------------------------------------------------------------
(* Theorems. *)

(* The accounts of the program and all balances keep their types: in       *)
(* particular the base target, which only funding moves, never outgrows    *)
(* its 64-bit field.                                                       *)
THEOREM TypeCorrect == Spec => []TypeOK
<1>1. IInv => TypeOK
  BY DEF IInv
<1>. QED
  BY <1>1, Inductive, PTL

(* A quote never carries a slot of the future, and price and sequence are  *)
(* set together by apply_update.                                           *)
THEOREM NoQuoteFromFuture == Spec => []QuoteNotFromFuture
<1>1. IInv => QuoteNotFromFuture
  BY DEF IInv
<1>. QED
  BY <1>1, Inductive, PTL

(* No legal history of initializations and updates leaves a funded pool    *)
(* whose swaps fail as misconfigured.                                      *)
THEOREM ConfigurationSound == Spec => []QuoteNeverMisconfigured
<1>1. ASSUME IInv PROVE QuoteNeverMisconfigured
  <2>. SUFFICES ASSUME Live, vaultState.target_base_inventory > 0,
                       NEW amountIn \in Amounts, NEW baseToQuote \in BOOLEAN
                PROVE  SwapQuote(amountIn, baseToQuote).error # "InvalidConfig"
    BY DEF QuoteNeverMisconfigured
  <2>1. QuotingState.target_base_inventory > 0
    BY DEF QuotingState
  <2>2. amountIn \in Nat
    BY ArgsAssumption
  <2>. QED
    BY <1>1, <2>1, <2>2, SwapInputs, NeverMisconfigured DEF SwapQuote
<1>. QED
  BY <1>1, Inductive, PTL

(* No step takes the sequence of a quote account back, and a step that     *)
(* leaves it leaves all of the account: the two update instructions are    *)
(* the only steps that touch it, and both move the sequence on.            *)
Pinned == quoteState # NoAccount =>
            /\ quoteState' # NoAccount
            /\ quoteState'.sequence >= quoteState.sequence
            /\ quoteState'.publish_slot >= quoteState.publish_slot
            /\ quoteState'.sequence = quoteState.sequence
                 => quoteState' = quoteState

(* Every step leaves the quote or replaces it by a later one.              *)
LEMMA StepPinned == ASSUME IInv, [Next]_vars PROVE Pinned
<1>. SUFFICES ASSUME quoteState # NoAccount
              PROVE  Pinned
  BY DEF Pinned
<1>1. quoteState \in QuoteStates
  BY DEF IInv, TypeOK
<1>2. ASSUME quoteState' = quoteState PROVE Pinned
  BY <1>1, <1>2 DEF Pinned, QuoteStates
<1>3. ASSUME NEW signer \in Keys, NEW mid \in MidPrices, NEW publish \in Slots,
             NEW sequence \in Sequences,
             UpdateAccepted(signer, mid, publish, sequence),
             quoteState'.sequence = sequence,
             quoteState'.publish_slot = publish,
             quoteState' \in QuoteStates
      PROVE  Pinned
  BY <1>1, <1>3, NoAccountAssumption DEF Pinned, UpdateAccepted, QuoteStates
<1>4. MidPrices \subseteq Nat /\ Slots \subseteq Nat /\ Sequences \subseteq Nat
      /\ slot \in Nat
  BY ArgsAssumption DEF Slots, Sequences, IInv, TypeOK
<1>5. ASSUME NEW signer \in Keys, NEW mid \in MidPrices, NEW publish \in Slots,
             NEW sequence \in Sequences,
             UpdateReferenceQuote(signer, mid, publish, sequence)
      PROVE  Pinned
  <2>1. ApplyUpdate(mid, publish, sequence) \in QuoteStates
    BY <1>1, <1>4 DEF ApplyUpdate, QuoteStates
  <2>2. quoteState' = ApplyUpdate(mid, publish, sequence)
    BY <1>5 DEF UpdateReferenceQuote
  <2>3. quoteState'.sequence = sequence /\ quoteState'.publish_slot = publish
    BY <1>1, <2>2 DEF ApplyUpdate, QuoteStates
  <2>. QED
    BY <1>3, <1>5, <2>1, <2>2, <2>3 DEF UpdateReferenceQuote
<1>6. ASSUME NEW signer \in Keys, NEW mid \in MidPrices, NEW spread \in Spreads,
             NEW publish \in Slots, NEW sequence \in Sequences,
             UpdateReferenceQuoteV2(signer, mid, spread, publish, sequence)
      PROVE  Pinned
  <2>1. [ApplyUpdate(mid, publish, sequence)
           EXCEPT !.base_half_spread_bps = spread] \in QuoteStates
    BY <1>1, <1>4, ArgsAssumption DEF ApplyUpdate, QuoteStates
  <2>2. quoteState' = [ApplyUpdate(mid, publish, sequence)
                         EXCEPT !.base_half_spread_bps = spread]
    BY <1>6 DEF UpdateReferenceQuoteV2
  <2>3. quoteState'.sequence = sequence /\ quoteState'.publish_slot = publish
    BY <1>1, <2>2 DEF ApplyUpdate, QuoteStates
  <2>. QED
    BY <1>3, <1>6, <2>1, <2>2, <2>3 DEF UpdateReferenceQuoteV2
<1>. QED
  BY <1>2, <1>5, <1>6
     DEF Next, vars, InitializeReferenceQuotePool,
         InitializeReferenceQuoteState, PausePool, InitializeMakerVaults,
         FundPool, SwapExactIn, Tick, DepositBase, DepositQuote,
         InitializeQuoteStateAccounts, PausePoolAccounts,
         InitializeVaultsAccounts, FundPoolAccounts, SwapAccounts, SwapAsked

(* A sequence number pins price, spread and publish slot.                  *)
THEOREM SequencePins == Spec => SequencePinsQuote
<1>1. IInv /\ [Next]_vars => Pinned
  BY StepPinned
<1>. QED
  BY <1>1, Inductive, PTL DEF Spec, SequencePinsQuote, Pinned

(* What a step does to the vaults: a swap moves both, funding raises both  *)
(* and the target, a transfer past the program raises one, and no other    *)
(* step touches balances or target of an existing vault account.           *)
LEMMA VaultSteps ==
  ASSUME IInv, [Next]_vars
  PROVE  \/ \E taker \in Keys, amountIn \in Amounts, minimumOut \in MinimumOuts,
               expected \in Sequences, baseToQuote \in BOOLEAN :
              SwapExactIn(taker, amountIn, minimumOut, expected, baseToQuote)
         \/ \E signer \in Keys, base \in Amounts, quote \in Amounts :
              FundPool(signer, base, quote)
         \/ \E key \in Keys, amount \in DepositAmounts :
              DepositBase(key, amount) \/ DepositQuote(key, amount)
         \/ /\ UNCHANGED <<baseTokens, quoteTokens>>
            /\ \/ UNCHANGED vaultState
               \/ vaultState = NoAccount /\ vaultState'.target_base_inventory = 0
            /\ \/ vaultState = NoAccount
               \/ poolConfig'.params = poolConfig.params
<1>1. ASSUME NEW args \in PoolArgs, InitializeReferenceQuotePool(args)
      PROVE  /\ UNCHANGED <<baseTokens, quoteTokens, vaultState>>
             /\ vaultState = NoAccount
  BY <1>1 DEF InitializeReferenceQuotePool, IInv, VaultHasPool
<1>2. ASSUME NEW signer \in Keys, NEW paused \in BOOLEAN, PausePool(signer, paused)
      PROVE  /\ UNCHANGED <<baseTokens, quoteTokens, vaultState>>
             /\ poolConfig'.params = poolConfig.params
  BY <1>2 DEF PausePool, IInv, TypeOK, PoolConfigs
<1>3. ASSUME NEW signer \in Keys, InitializeMakerVaults(signer)
      PROVE  /\ UNCHANGED <<baseTokens, quoteTokens, poolConfig>>
             /\ vaultState = NoAccount
             /\ vaultState'.target_base_inventory = 0
  BY <1>3 DEF InitializeMakerVaults,
     InitializeVaultsAccounts
<1>. QED
  BY <1>1, <1>2, <1>3 DEF Next, vars, InitializeReferenceQuoteState,
     UpdateReferenceQuote, UpdateReferenceQuoteV2, Tick

(* A swap ends within the band wherever it started.                        *)
LEMMA SwapEndsInBand ==
  ASSUME IInv, NEW taker \in Keys, NEW amountIn \in Amounts,
         NEW minimumOut \in MinimumOuts, NEW expected \in Sequences,
         NEW baseToQuote \in BOOLEAN,
         SwapExactIn(taker, amountIn, minimumOut, expected, baseToQuote)
  PROVE  InBand'
<1>. DEFINE target == vaultState.target_base_inventory
            band   == poolConfig.params.hard_inventory_band_bps
<1>1. UNCHANGED <<poolConfig, vaultState>>
  BY DEF SwapExactIn
<1>2. /\ Live /\ SwapQuote(amountIn, baseToQuote).error = NoError
      /\ BaseVault' = IF baseToQuote THEN BaseVault + amountIn
                      ELSE BaseVault - SwapQuote(amountIn, baseToQuote).value
      /\ amountIn \in Nat /\ BaseVault' \in Nat
  BY SwapMoves, SwapMovesVaults, ArgsAssumption DEF BaseVault, Holders
<1>3. /\ BaseVault' \in Nat /\ target \in Nat \ {0}
      /\ AbsInt(InventoryImbalanceBps(BaseVault', target)) <= band
  BY <1>2, SwapQuoteFacts
<1>4. band \in Nat /\ band < MaxI32
  BY <1>2, SwapInputs, BPSAssumption
<1>5. AbsInt(BaseVault' - target) * BPS < (band + 1) * target
  BY <1>3, <1>4, BandIsExact
<1>. QED
  BY <1>1, <1>5 DEF InBand

(* Funding moves vault and target alike, by the first amount or by each,   *)
(* so the pool stays within a band that it was within.                     *)
LEMMA FundingKeepsBand ==
  ASSUME IInv, InBand, NEW signer \in Keys, NEW base \in Amounts,
         NEW quote \in Amounts, FundPool(signer, base, quote)
  PROVE  InBand'
<1>. DEFINE target == vaultState.target_base_inventory
            band   == poolConfig.params.hard_inventory_band_bps
<1>1. /\ UNCHANGED poolConfig /\ vaultState # NoAccount /\ poolConfig # NoAccount
  BY DEF FundPool,
     FundPoolAccounts
<1>2. /\ BaseVault \in Nat /\ base \in Nat /\ target \in Nat
      /\ band \in Nat
  BY <1>1, ArgsAssumption, MaxU64Assumption
     DEF IInv, TypeOK, BaseVault, Holders, VaultStates, U64, PoolConfigs, Params
<1>3. /\ BaseVault' = BaseVault + base
      /\ target' = FundedTarget(target, BaseVault, base)
  BY <1>2, FundingMoves, ArgsAssumption DEF VaultStates
<1>4. CASE target = 0
  <2>1. target' = 0 \/ target' = BaseVault'
    BY <1>2, <1>3, <1>4 DEF FundedTarget
  <2>2. target' > 0 => AbsInt(BaseVault' - target') * BPS = 0
    BY <1>2, <1>3, <2>1, BPSAssumption DEF AbsInt
  <2>3. target' > 0 /\ target' \in Nat => 0 < (band + 1) * target'
    BY <1>2
  <2>4. target' \in Nat
    BY <1>2, <1>3, <2>1
  <2>. QED
    BY <1>1, <2>2, <2>3, <2>4 DEF InBand
<1>5. CASE target > 0
  <2>1. target' = target + base
    BY <1>2, <1>3, <1>5 DEF FundedTarget
  <2>2. BaseVault' - target' = BaseVault - target
    BY <1>2, <1>3, <2>1
  <2>3. AbsInt(BaseVault - target) * BPS < (band + 1) * target
    BY <1>1, <1>5 DEF InBand
  <2>4. target * (band + 1) <= target' * (band + 1)
    BY <1>2, <2>1, ProductMonotone
  <2>5. /\ AbsInt(BaseVault - target) * BPS \in Int
        /\ (band + 1) * target \in Int /\ (band + 1) * target' \in Int
    BY <1>2, <2>1, BPSAssumption DEF AbsInt
  <2>6. (band + 1) * target <= (band + 1) * target'
    BY <1>2, <2>1, <2>4
  <2>7. AbsInt(BaseVault' - target') * BPS < (band + 1) * target'
    BY <2>2, <2>3, <2>5, <2>6
  <2>. QED
    BY <1>1, <2>7 DEF InBand
<1>. QED
  BY <1>2, <1>4, <1>5

(* The base vault leaves the hard band only by a transfer past the program. *)
THEOREM BandKept == Spec => BandLeftOnlyByDeposit
<1>1. ASSUME IInv, [Next]_vars, InBand PROVE InBand' \/ DirectDeposit
  <2>1. ASSUME NEW taker \in Keys, NEW amountIn \in Amounts,
               NEW minimumOut \in MinimumOuts, NEW expected \in Sequences,
               NEW baseToQuote \in BOOLEAN,
               SwapExactIn(taker, amountIn, minimumOut, expected, baseToQuote)
        PROVE  InBand'
    BY <1>1, <2>1, SwapEndsInBand
  <2>2. ASSUME NEW signer \in Keys, NEW base \in Amounts, NEW quote \in Amounts,
               FundPool(signer, base, quote)
        PROVE  InBand'
    BY <1>1, <2>2, FundingKeepsBand
  <2>3. ASSUME NEW key \in Keys, NEW amount \in DepositAmounts,
               DepositBase(key, amount) \/ DepositQuote(key, amount)
        PROVE  DirectDeposit
    <3>1. BaseVault \in Nat /\ QuoteVault \in Nat /\ amount \in Nat
      BY <1>1, ArgsAssumption
         DEF IInv, TypeOK, BaseVault, QuoteVault, Holders
    <3>2. CASE DepositBase(key, amount)
      BY <1>1, <3>1, <3>2, DepositMoves DEF DirectDeposit, DepositBase
    <3>3. CASE DepositQuote(key, amount)
      BY <1>1, <3>1, <3>3, DepositMoves DEF DirectDeposit, DepositQuote
    <3>. QED
      BY <2>3, <3>2, <3>3
  <2>4. ASSUME UNCHANGED <<baseTokens, quoteTokens>>,
               \/ UNCHANGED vaultState
               \/ vaultState = NoAccount /\ vaultState'.target_base_inventory = 0,
               \/ vaultState = NoAccount
               \/ poolConfig'.params = poolConfig.params
        PROVE  InBand'
    BY <1>1, <2>4 DEF InBand, BaseVault
  <2>. QED
    BY <1>1, <2>1, <2>2, <2>3, <2>4, VaultSteps
<1>. QED
  BY <1>1, Inductive, PTL DEF Spec, BandLeftOnlyByDeposit

(* No instruction empties a vault that holds something. *)
THEOREM VaultsFunded == Spec => VaultsStayFunded
<1>. DEFINE Funded == /\ BaseVault > 0 => BaseVault' > 0
                      /\ QuoteVault > 0 => QuoteVault' > 0
<1>1. ASSUME IInv, [Next]_vars PROVE Funded
  <2>1. BaseVault \in Nat /\ QuoteVault \in Nat
    BY <1>1 DEF IInv, TypeOK, BaseVault, QuoteVault, Holders
  <2>2. ASSUME NEW taker \in Keys, NEW amountIn \in Amounts,
               NEW minimumOut \in MinimumOuts, NEW expected \in Sequences,
               NEW baseToQuote \in BOOLEAN,
               SwapExactIn(taker, amountIn, minimumOut, expected, baseToQuote)
        PROVE  Funded
    <3>. DEFINE out == SwapQuote(amountIn, baseToQuote).value
    <3>1. /\ Live /\ SwapQuote(amountIn, baseToQuote).error = NoError
          /\ BaseVault' = IF baseToQuote THEN BaseVault + amountIn
                                         ELSE BaseVault - out
          /\ QuoteVault' = IF baseToQuote THEN QuoteVault - out
                                          ELSE QuoteVault + amountIn
      BY <1>1, <2>2, SwapMoves, SwapMovesVaults, ArgsAssumption
    <3>2. amountIn \in Nat
      BY ArgsAssumption
    <3>3. /\ out \in Nat
          /\ out < IF baseToQuote THEN QuoteVault ELSE BaseVault
      BY <1>1, <3>1, <3>2, SwapQuoteFacts
    <3>. HIDE DEF out
    <3>. QED
      BY <2>1, <3>1, <3>2, <3>3
  <2>3. ASSUME NEW signer \in Keys, NEW base \in Amounts, NEW quote \in Amounts,
               FundPool(signer, base, quote)
        PROVE  Funded
    BY <1>1, <2>1, <2>3, FundingMoves, ArgsAssumption
  <2>4. ASSUME NEW key \in Keys, NEW amount \in DepositAmounts,
               DepositBase(key, amount) \/ DepositQuote(key, amount)
        PROVE  Funded
    <3>1. amount \in Nat
      BY ArgsAssumption
    <3>2. CASE DepositBase(key, amount)
      BY <1>1, <2>1, <3>1, <3>2, DepositMoves DEF DepositBase, QuoteVault
    <3>3. CASE DepositQuote(key, amount)
      BY <1>1, <2>1, <3>1, <3>3, DepositMoves DEF DepositQuote, BaseVault
    <3>. QED
      BY <2>4, <3>2, <3>3
  <2>5. ASSUME UNCHANGED <<baseTokens, quoteTokens>>
        PROVE  Funded
    BY <2>5 DEF BaseVault, QuoteVault
  <2>. QED
    BY <1>1, <2>2, <2>3, <2>4, <2>5, VaultSteps
<1>. QED
  BY <1>1, Inductive, PTL DEF Spec, VaultsStayFunded

(* What a swap is paid, to the atom: the trade limit and the price bounds  *)
(* of the pricing function, on the accounts of the program.                *)
LEMMA SwapPriced ==
  ASSUME IInv, NEW taker \in Keys, NEW amountIn \in Nat,
         NEW minimumOut, NEW expected, NEW baseToQuote \in BOOLEAN,
         SwapExactIn(taker, amountIn, minimumOut, expected, baseToQuote)
  PROVE  LET out   == SwapQuote(amountIn, baseToQuote).value
             mid   == quoteState.mid_price
             half  == quoteState.base_half_spread_bps
             skew  == poolConfig.params.max_inventory_skew_bps
             limit == MaxBaseTradeForAge(QuotingState, SwapParams)
         IN  /\ out \in Nat \ {0} /\ amountIn \in Nat \ {0}
             /\ BaseVault \in Nat /\ QuoteVault \in Nat
             /\ BaseVault' = IF baseToQuote THEN BaseVault + amountIn
                                            ELSE BaseVault - out
             /\ QuoteVault' = IF baseToQuote THEN QuoteVault - out
                                             ELSE QuoteVault + amountIn
             /\ IF baseToQuote
                THEN /\ amountIn * mid < (limit + 1) * mid
                     /\ out * Q64 * BPS <= amountIn * mid * (BPS - half + skew)
                ELSE /\ amountIn * Q64 < (limit + 1) * mid
                     /\ out * (mid * (BPS + half - skew) - BPS)
                          <= amountIn * Q64 * BPS
<1>. DEFINE out == SwapQuote(amountIn, baseToQuote).value
<1>1. /\ Live /\ quoteState.mid_price > 0
      /\ SwapQuote(amountIn, baseToQuote).error = NoError /\ amountIn > 0
  BY SwapMoves DEF QuoteUsable
<1>2. out \in Nat \ {0}
  BY <1>1, SwapQuoteFacts
<1>3. /\ QuotingState \in QuotingStates /\ SwapParams \in QuoteParams
      /\ WorstSpread(SwapParams.base_half_spread_bps, SwapParams) < BPS
  BY <1>1, SwapInputs
<1>4. /\ SwapParams.base_half_spread_bps = quoteState.base_half_spread_bps
      /\ SwapParams.max_inventory_skew_bps
           = poolConfig.params.max_inventory_skew_bps
      /\ QuotingState.mid_price = quoteState.mid_price
  BY <1>1 DEF SwapParams, QuotingState, IInv, TypeOK, Live, PoolConfigs, Params
<1>5. IF baseToQuote
      THEN amountIn * quoteState.mid_price
             < (MaxBaseTradeForAge(QuotingState, SwapParams) + 1)
                 * quoteState.mid_price
      ELSE amountIn * Q64
             < (MaxBaseTradeForAge(QuotingState, SwapParams) + 1)
                 * quoteState.mid_price
  BY <1>1, <1>3, <1>4, QuoteSized DEF SwapQuote
<1>6. IF baseToQuote
      THEN out * Q64 * BPS
             <= amountIn * quoteState.mid_price
                  * (BPS - quoteState.base_half_spread_bps
                       + poolConfig.params.max_inventory_skew_bps)
      ELSE out * (quoteState.mid_price
                    * (BPS + quoteState.base_half_spread_bps
                         - poolConfig.params.max_inventory_skew_bps) - BPS)
             <= amountIn * Q64 * BPS
  BY <1>1, <1>3, <1>4, QuotePriced DEF SwapQuote
<1>7. BaseVault \in Nat /\ QuoteVault \in Nat
  BY DEF IInv, TypeOK, BaseVault, QuoteVault, Holders
<1>. QED
  BY <1>1, <1>2, <1>5, <1>6, <1>7, SwapMovesVaults

(* A step in which a vault pays is a swap.                                 *)
LEMMA OutflowIsSwap ==
  ASSUME IInv, [Next]_vars,
         BaseVault' - BaseVault < 0 \/ QuoteVault' - QuoteVault < 0
  PROVE  \E taker \in Keys, amountIn \in Amounts, minimumOut \in MinimumOuts,
            expected \in Sequences, baseToQuote \in BOOLEAN :
           SwapExactIn(taker, amountIn, minimumOut, expected, baseToQuote)
<1>1. BaseVault \in Nat /\ QuoteVault \in Nat
  BY DEF IInv, TypeOK, BaseVault, QuoteVault, Holders
<1>2. ASSUME NEW signer \in Keys, NEW base \in Amounts, NEW quote \in Amounts,
             FundPool(signer, base, quote)
      PROVE  FALSE
  BY <1>1, <1>2, FundingMoves, ArgsAssumption
<1>3. ASSUME NEW key \in Keys, NEW amount \in DepositAmounts,
             DepositBase(key, amount) \/ DepositQuote(key, amount)
      PROVE  FALSE
  <2>1. amount \in Nat
    BY ArgsAssumption
  <2>2. CASE DepositBase(key, amount)
    BY <1>1, <2>1, <2>2, DepositMoves DEF DepositBase, QuoteVault
  <2>3. CASE DepositQuote(key, amount)
    BY <1>1, <2>1, <2>3, DepositMoves DEF DepositQuote, BaseVault
  <2>. QED
    BY <1>3, <2>2, <2>3
<1>4. ASSUME UNCHANGED <<baseTokens, quoteTokens>>
      PROVE  FALSE
  BY <1>1, <1>4 DEF BaseVault, QuoteVault
<1>. QED
  BY <1>2, <1>3, <1>4, VaultSteps

(* While nobody updates it, a quote only gets worse to trade against,      *)
(* through all the age states and whatever the surcharge and the decay of  *)
(* the limit are.                                                          *)
THEOREM AgingTightens == Spec => AgingOnlyTightens
<1>. DEFINE Tighter == Live /\ quoteState' = quoteState /\ slot' > slot =>
              /\ AppliedSpreadBps(QuotingState, SwapParams)'
                   >= AppliedSpreadBps(QuotingState, SwapParams)
              /\ MaxBaseTradeForAge(QuotingState, SwapParams)'
                   <= MaxBaseTradeForAge(QuotingState, SwapParams)
<1>1. ASSUME IInv, IInv', [Next]_vars PROVE Tighter
  <2>. SUFFICES ASSUME Live, quoteState' = quoteState, slot' > slot
                PROVE  Tighter
    OBVIOUS
  <2>1. slot \in Nat
    BY <1>1 DEF IInv, TypeOK
  <2>2. UNCHANGED <<poolConfig, quoteState, vaultState, baseTokens, quoteTokens>>
    BY <1>1, <2>1 DEF Next, vars, InitializeReferenceQuotePool,
       InitializeReferenceQuoteState, UpdateReferenceQuote,
       UpdateReferenceQuoteV2, PausePool, InitializeMakerVaults, FundPool,
       SwapExactIn, Tick, DepositBase, DepositQuote
  <2>3. SwapParams' = SwapParams /\ Live'
    BY <2>2 DEF SwapParams, Live
  <2>4. /\ QuotingState \in QuotingStates /\ SwapParams \in QuoteParams
        /\ MathParamsValid(SwapParams)
    BY <1>1, SwapInputs
  <2>. DEFINE stop  == \/ poolConfig.paused
                       \/ quoteState.paused
                       \/ vaultState.paused
              At(t) == [base_inventory |-> baseTokens[Vault],
                        quote_inventory |-> quoteTokens[Vault],
                        target_base_inventory |->
                          vaultState.target_base_inventory,
                        mid_price |-> quoteState.mid_price,
                        mid_publish_slot |-> quoteState.publish_slot,
                        now_slot |-> t,
                        paused |-> stop]
  <2>5. QuotingState = At(slot) /\ QuotingState' = At(slot')
    BY <2>2, Zenon DEF QuotingState
  <2>. HIDE DEF stop
  <2>6. /\ QuotingState' \in QuotingStates
        /\ QuotingState'.paused = QuotingState.paused
        /\ QuotingState'.mid_publish_slot = QuotingState.mid_publish_slot
        /\ QuotingState.now_slot <= QuotingState'.now_slot
    <3>1. slot \in Nat /\ slot' \in Nat
      BY <1>1 DEF IInv, TypeOK
    <3>. QED
      BY <2>4, <2>5, <3>1 DEF QuotingStates
  <2>7. /\ AppliedSpreadBps(QuotingState, SwapParams)
             <= AppliedSpreadBps(QuotingState', SwapParams)
        /\ MaxBaseTradeForAge(QuotingState', SwapParams)
             <= MaxBaseTradeForAge(QuotingState, SwapParams)
    BY <2>4, <2>6, Tightens
  <2>8. /\ AppliedSpreadBps(QuotingState, SwapParams)'
             = AppliedSpreadBps(QuotingState', SwapParams)
        /\ MaxBaseTradeForAge(QuotingState, SwapParams)'
             = MaxBaseTradeForAge(QuotingState', SwapParams)
    BY <2>3
  <2>9. /\ AppliedSpreadBps(QuotingState, SwapParams) \in Nat
        /\ AppliedSpreadBps(QuotingState', SwapParams) \in Nat
        /\ MaxBaseTradeForAge(QuotingState, SwapParams) \in Nat
        /\ MaxBaseTradeForAge(QuotingState', SwapParams) \in Nat
    BY <2>4, <2>6, SpreadAndSkew, LimitType
  <2>. QED
    BY <2>7, <2>8, <2>9
<1>. QED
  BY <1>1, Inductive, PTL DEF Spec, AgingOnlyTightens

(* Tokens leave a vault only in a swap on a live, unexpired quote of an    *)
(* open pool, and only up to the trade limit of its age.                   *)
THEOREM OutflowUsable == Spec => OutflowOnlyOnUsableQuote
<1>. DEFINE baseIn  == BaseVault' - BaseVault
            quoteIn == QuoteVault' - QuoteVault
            Usable  == baseIn < 0 \/ quoteIn < 0 =>
              /\ Live /\ ~poolConfig.paused
              /\ quoteState.sequence > 0
              /\ slot - quoteState.publish_slot < poolConfig.params.expire_slots
              /\ (IF quoteIn < 0 THEN baseIn * quoteState.mid_price
                                 ELSE quoteIn * Q64)
                   < (MaxBaseTradeForAge(QuotingState, SwapParams) + 1)
                        * quoteState.mid_price
<1>1. ASSUME IInv, [Next]_vars PROVE Usable
  <2>. SUFFICES ASSUME baseIn < 0 \/ quoteIn < 0
                PROVE  Usable
    OBVIOUS
  <2>1. PICK taker \in Keys, amountIn \in Amounts, minimumOut \in MinimumOuts,
             expected \in Sequences, baseToQuote \in BOOLEAN :
               SwapExactIn(taker, amountIn, minimumOut, expected, baseToQuote)
    BY <1>1, OutflowIsSwap
  <2>2. amountIn \in Nat
    BY ArgsAssumption
  <2>3. /\ Live /\ ~poolConfig.paused /\ quoteState.sequence > 0
        /\ quoteState.publish_slot <= slot
        /\ SwapQuote(amountIn, baseToQuote).error = NoError
    BY <1>1, <2>1, <2>2, SwapMoves DEF QuoteUsable, PoolOpen
  <2>4. slot - quoteState.publish_slot < poolConfig.params.expire_slots
    <3>1. QuoteAgeState(QuotingState, SwapParams) \notin {"Paused", "Expired"}
      BY <1>1, <2>2, <2>3, SwapInputs, QuoteAccepted DEF SwapQuote
    <3>2. /\ SwapParams.expire_slots = poolConfig.params.expire_slots
          /\ poolConfig.params.expire_slots \in Nat
          /\ slot \in Nat /\ quoteState.publish_slot \in Nat
      BY <1>1, <2>3
         DEF SwapParams, IInv, TypeOK, Live, PoolConfigs, Params, QuoteStates
    <3>3. QuoteAge(QuotingState) = slot - quoteState.publish_slot
      BY <2>3, <3>2 DEF QuoteAge, QuotingState, SaturatingSub
    <3>. QED
      BY <3>1, <3>2, <3>3 DEF QuoteAgeState
  <2>. DEFINE out   == SwapQuote(amountIn, baseToQuote).value
              mid   == quoteState.mid_price
              limit == MaxBaseTradeForAge(QuotingState, SwapParams)
  <2>5. /\ out \in Nat \ {0} /\ amountIn \in Nat \ {0}
        /\ BaseVault \in Nat /\ QuoteVault \in Nat
        /\ BaseVault' = IF baseToQuote THEN BaseVault + amountIn
                                       ELSE BaseVault - out
        /\ QuoteVault' = IF baseToQuote THEN QuoteVault - out
                                        ELSE QuoteVault + amountIn
        /\ IF baseToQuote THEN amountIn * mid < (limit + 1) * mid
                          ELSE amountIn * Q64 < (limit + 1) * mid
    BY <1>1, <2>1, <2>2, SwapPriced
  <2>. HIDE DEF out, mid, limit
  <2>6. IF baseToQuote THEN baseIn = amountIn /\ quoteIn < 0
                       ELSE quoteIn = amountIn /\ ~(quoteIn < 0)
    BY <2>5
  <2>7. (IF quoteIn < 0 THEN baseIn * mid ELSE quoteIn * Q64) < (limit + 1) * mid
    <3>. HIDE DEF baseIn, quoteIn
    <3>. QED
      BY <2>5, <2>6
  <2>. QED
    BY <2>3, <2>4, <2>7 DEF mid, limit
<1>. QED
  BY <1>1, Inductive, PTL DEF Spec, OutflowOnlyOnUsableQuote

(* The vault never trades past the maker's price, in either direction,     *)
(* whatever the fee, the age surcharge, the inventory and the roundings.   *)
THEOREM OutflowAtPrice == Spec => OutflowPriced
<1>. DEFINE mid  == quoteState.mid_price
            half == quoteState.base_half_spread_bps
            skew == poolConfig.params.max_inventory_skew_bps
            baseIn  == BaseVault' - BaseVault
            quoteIn == QuoteVault' - QuoteVault
            Priced  == /\ quoteIn < 0 =>
                            -quoteIn * Q64 * BPS <= baseIn * mid * (BPS - half + skew)
                       /\ baseIn < 0 =>
                            -baseIn * (mid * (BPS + half - skew) - BPS)
                              <= quoteIn * Q64 * BPS
<1>1. ASSUME IInv, [Next]_vars PROVE Priced
  <2>. SUFFICES ASSUME baseIn < 0 \/ quoteIn < 0
                PROVE  Priced
    OBVIOUS
  <2>1. PICK taker \in Keys, amountIn \in Amounts, minimumOut \in MinimumOuts,
             expected \in Sequences, baseToQuote \in BOOLEAN :
               SwapExactIn(taker, amountIn, minimumOut, expected, baseToQuote)
    BY <1>1, OutflowIsSwap
  <2>. DEFINE out == SwapQuote(amountIn, baseToQuote).value
  <2>2. /\ out \in Nat \ {0} /\ amountIn \in Nat \ {0}
        /\ BaseVault \in Nat /\ QuoteVault \in Nat
        /\ BaseVault' = IF baseToQuote THEN BaseVault + amountIn
                                       ELSE BaseVault - out
        /\ QuoteVault' = IF baseToQuote THEN QuoteVault - out
                                        ELSE QuoteVault + amountIn
        /\ IF baseToQuote
           THEN out * Q64 * BPS <= amountIn * mid * (BPS - half + skew)
           ELSE out * (mid * (BPS + half - skew) - BPS) <= amountIn * Q64 * BPS
    BY <1>1, <2>1, ArgsAssumption, SwapPriced
  <2>. HIDE DEF out, mid, half, skew
  <2>3. IF baseToQuote THEN baseIn = amountIn /\ -quoteIn = out /\ ~(baseIn < 0)
                       ELSE quoteIn = amountIn /\ -baseIn = out /\ ~(quoteIn < 0)
    BY <2>2
  <2>4. /\ mid \in Int /\ half \in Int /\ skew \in Int /\ BPS \in Int /\ Q64 \in Int
        /\ mid * (BPS + half - skew) - BPS \in Int
        /\ baseIn \in Int /\ quoteIn \in Int
    <3>1. Live
      BY <1>1, <2>1, ArgsAssumption, SwapMoves
    <3>2. mid \in Int /\ half \in Int /\ skew \in Int
      BY <1>1, <3>1
         DEF mid, half, skew, IInv, TypeOK, Live, PoolConfigs, Params, QuoteStates
    <3>. QED
      BY <2>2, <3>2, BPSAssumption, Q64Positive
  <2>. DEFINE least == mid * (BPS + half - skew) - BPS
  <2>5. /\ -quoteIn * Q64 * BPS = (-quoteIn) * Q64 * BPS
        /\ -baseIn * least = (-baseIn) * least
    <3>. HIDE DEF baseIn, quoteIn, least
    <3>. QED
      BY <2>4 DEF least
  <2>. HIDE DEF baseIn, quoteIn, least
  <2>6. CASE baseToQuote
    BY <2>2, <2>3, <2>5, <2>6
  <2>7. CASE ~baseToQuote
    BY <2>2, <2>3, <2>5, <2>7 DEF least
  <2>. QED
    BY <2>6, <2>7
<1>. QED
  BY <1>1, Inductive, PTL DEF Spec, OutflowPriced

(* A swap settles to the atom, between the taker and the vaults alone.     *)
THEOREM SwapSettles == Spec => SwapSettlesExactly
<1>1. ASSUME IInv, NEW taker \in Keys, NEW amountIn \in Amounts,
             NEW minimumOut \in MinimumOuts, NEW expected \in Sequences,
             NEW baseToQuote \in BOOLEAN,
             SwapExactIn(taker, amountIn, minimumOut, expected, baseToQuote)
      PROVE  LET paid(h) == IF baseToQuote THEN baseTokens[h] - baseTokens'[h]
                                           ELSE quoteTokens[h] - quoteTokens'[h]
                 got(h)  == IF baseToQuote THEN quoteTokens'[h] - quoteTokens[h]
                                           ELSE baseTokens'[h] - baseTokens[h]
             IN  /\ paid(taker) = amountIn /\ paid(Vault) = -amountIn
                 /\ got(taker) >= minimumOut /\ got(Vault) = -got(taker)
                 /\ \A h \in Keys \ {taker} : paid(h) = 0 /\ got(h) = 0
  <2>. DEFINE out == SwapQuote(amountIn, baseToQuote).value
  <2>1. /\ amountIn \in Nat /\ minimumOut \in Nat
        /\ taker \in Holders /\ Vault \in Holders /\ Vault \notin Keys
        /\ \A h \in Keys \ {taker} : h \in Holders \ {taker, Vault}
    BY ArgsAssumption, KeysAssumption DEF Holders
  <2>2. /\ out >= minimumOut
        /\ IF baseToQuote
           THEN /\ Moved(baseTokens, baseTokens', taker, Vault, amountIn)
                /\ Moved(quoteTokens, quoteTokens', Vault, taker, out)
           ELSE /\ Moved(quoteTokens, quoteTokens', taker, Vault, amountIn)
                /\ Moved(baseTokens, baseTokens', Vault, taker, out)
    BY <1>1, <2>1, SwapMoves
  <2>. HIDE DEF out
  <2>3. CASE baseToQuote
    BY <2>1, <2>2, <2>3 DEF Moved
  <2>4. CASE ~baseToQuote
    BY <2>1, <2>2, <2>4 DEF Moved
  <2>. QED
    BY <2>3, <2>4
<1>2. IInv =>
        [\A taker \in Keys, amountIn \in Amounts, minimumOut \in MinimumOuts,
            expected \in Sequences, baseToQuote \in BOOLEAN :
           SwapExactIn(taker, amountIn, minimumOut, expected, baseToQuote) =>
             LET paid(h) == IF baseToQuote THEN baseTokens[h] - baseTokens'[h]
                                           ELSE quoteTokens[h] - quoteTokens'[h]
                 got(h)  == IF baseToQuote THEN quoteTokens'[h] - quoteTokens[h]
                                           ELSE baseTokens'[h] - baseTokens[h]
             IN  /\ paid(taker) = amountIn /\ paid(Vault) = -amountIn
                 /\ got(taker) >= minimumOut /\ got(Vault) = -got(taker)
                 /\ \A h \in Keys \ {taker} : paid(h) = 0 /\ got(h) = 0]_vars
  BY <1>1
<1>. QED
  BY <1>2, Inductive, PTL DEF SwapSettlesExactly

-----------------------------------------------------------------------------
(* Conservation.  The sum over all holders is the fold the property states *)
(* (TotalOf of ArithmeticProofs).                                          *)

(* There are finitely many holders, and the vault is none of the keys.     *)
LEMMA HoldersFinite ==
  IsFiniteSet(Keys) /\ IsFiniteSet(Holders) /\ Vault \notin Keys
  BY KeysAssumption, FS_AddElement DEF Holders

(* A transfer that arrives in full keeps the sum of all balances.          *)
LEMMA MovedKeepsTotal ==
  ASSUME NEW before, NEW after, NEW from, NEW to, NEW amount,
         Moved(before, after, from, to, amount)
  PROVE  TotalOf(after) = TotalOf(before)
<1>1. /\ before \in [Holders -> Nat] /\ after \in [Holders -> Nat]
      /\ from \in Holders /\ to \in Holders /\ from # to /\ amount \in Nat
      /\ after[from] = before[from] - amount
      /\ after[to] = before[to] + amount
      /\ \A h \in Holders \ {from, to} : after[h] = before[h]
  BY DEF Moved
<1>. QED
  BY <1>1, HoldersFinite, TransferKeepsSum

(* A swap keeps both sums. *)
LEMMA SwapKeepsTotals ==
  ASSUME IInv, NEW taker \in Keys, NEW amountIn \in Nat,
         NEW minimumOut, NEW expected, NEW baseToQuote \in BOOLEAN,
         SwapExactIn(taker, amountIn, minimumOut, expected, baseToQuote)
  PROVE  /\ TotalOf(baseTokens') = TotalOf(baseTokens)
         /\ TotalOf(quoteTokens') = TotalOf(quoteTokens)
<1>. DEFINE out == SwapQuote(amountIn, baseToQuote).value
<1>1. IF baseToQuote
      THEN /\ Moved(baseTokens, baseTokens', taker, Vault, amountIn)
           /\ Moved(quoteTokens, quoteTokens', Vault, taker, out)
      ELSE /\ Moved(quoteTokens, quoteTokens', taker, Vault, amountIn)
           /\ Moved(baseTokens, baseTokens', Vault, taker, out)
  BY SwapMoves
<1>. QED
  BY <1>1, MovedKeepsTotal

(* So does every other step. *)
LEMMA TotalsKept ==
  ASSUME IInv, [Next]_vars
  PROVE  /\ TotalOf(baseTokens') = TotalOf(baseTokens)
         /\ TotalOf(quoteTokens') = TotalOf(quoteTokens)
<1>1. ASSUME NEW taker \in Keys, NEW amountIn \in Amounts,
             NEW minimumOut \in MinimumOuts, NEW expected \in Sequences,
             NEW baseToQuote \in BOOLEAN,
             SwapExactIn(taker, amountIn, minimumOut, expected, baseToQuote)
      PROVE  /\ TotalOf(baseTokens') = TotalOf(baseTokens)
             /\ TotalOf(quoteTokens') = TotalOf(quoteTokens)
  BY <1>1, ArgsAssumption, SwapKeepsTotals
<1>2. ASSUME NEW signer \in Keys, NEW base \in Amounts, NEW quote \in Amounts,
             FundPool(signer, base, quote)
      PROVE  /\ TotalOf(baseTokens') = TotalOf(baseTokens)
             /\ TotalOf(quoteTokens') = TotalOf(quoteTokens)
  BY <1>2, ArgsAssumption, FundingMoves, MovedKeepsTotal
<1>3. ASSUME NEW key \in Keys, NEW amount \in DepositAmounts,
             DepositBase(key, amount) \/ DepositQuote(key, amount)
      PROVE  /\ TotalOf(baseTokens') = TotalOf(baseTokens)
             /\ TotalOf(quoteTokens') = TotalOf(quoteTokens)
  <2>1. amount \in Nat
    BY ArgsAssumption
  <2>2. CASE DepositBase(key, amount)
    BY <2>1, <2>2, DepositMoves, MovedKeepsTotal DEF DepositBase
  <2>3. CASE DepositQuote(key, amount)
    BY <2>1, <2>3, DepositMoves, MovedKeepsTotal DEF DepositQuote
  <2>. QED
    BY <1>3, <2>2, <2>3
<1>. QED
  BY <1>1, <1>2, <1>3, VaultSteps

(* At the start the vaults are empty and the keys hold everything.         *)
LEMMA InitialTotals ==
  ASSUME Init
  PROVE  /\ TotalOf(baseTokens) = TotalOf(InitialBase)
         /\ TotalOf(quoteTokens) = TotalOf(InitialQuote)
<1>1. /\ InitialBase \in [Keys -> Nat] /\ InitialQuote \in [Keys -> Nat]
      /\ Vault \notin Keys
  BY ArgsAssumption, KeysAssumption
<1>2. /\ baseTokens \in [Keys \cup {Vault} -> Nat]
      /\ quoteTokens \in [Keys \cup {Vault} -> Nat]
      /\ baseTokens[Vault] = 0 /\ quoteTokens[Vault] = 0
      /\ \A k \in Keys : /\ baseTokens[k] = InitialBase[k]
                          /\ quoteTokens[k] = InitialQuote[k]
  BY <1>1 DEF Init, Holders
<1>. QED
  BY <1>1, <1>2, HoldersFinite, SumWithoutZero

(* No step creates or loses tokens, whatever the number of keys: this is   *)
(* what refusing transfer-fee mints when the pool is opened is for.        *)
THEOREM Conserved == Spec => []TokensConserved
<1>. DEFINE Kept == /\ TotalOf(baseTokens) = TotalOf(InitialBase)
                    /\ TotalOf(quoteTokens) = TotalOf(InitialQuote)
<1>1. Init => Kept
  BY InitialTotals
<1>2. ASSUME IInv, Kept, [Next]_vars PROVE Kept'
  BY <1>2, TotalsKept
<1>3. Kept => TokensConserved
  BY DEF TokensConserved, TotalOf
<1>. HIDE DEF Kept
<1>. QED
  BY <1>1, <1>2, <1>3, Inductive, PTL DEF Spec

-----------------------------------------------------------------------------
(***************************************************************************)
(* The taker's side: the SDK's quoting function against the program's, and *)
(* a route from quote to execution.                                        *)
(***************************************************************************)

(* The two quoting functions. *)

(* The parts of the SDK's quote that take no width are those of the        *)
(* program, differently written.                                           *)
LEMMA SdkParams ==
  ASSUME NEW p \in QuoteParams
  PROVE  SdkParamsValid(p) <=> MathParamsValid(p)
<1>. DEFINE rates == {p.fee_bps, p.base_half_spread_bps,
                      p.max_aging_surcharge_bps,
                      p.inventory_skew_bps_per_10k_imbalance,
                      p.max_inventory_skew_bps}
<1>1. /\ \A bps \in rates : bps \in Nat
      /\ p.aging_start_slots \in Nat /\ p.protected_start_slots \in Nat
      /\ p.expire_slots \in Nat /\ p.max_trade_base_atoms \in Nat
      /\ p.protected_max_trade_base_atoms \in Nat
  BY DEF QuoteParams
<1>2. (\A bps \in rates : bps \in 0 .. BPS - 1) <=> (\A bps \in rates : bps < BPS)
  BY <1>1, BPSAssumption
<1>. QED
  BY <1>1, <1>2 DEF SdkParamsValid, MathParamsValid

(* The SDK's age state, trade limit and surcharge are the program's.       *)
LEMMA SdkAging ==
  ASSUME NEW st \in QuotingStates, NEW p \in QuoteParams
  PROVE  /\ SdkQuoteAgeState(st, p) = QuoteAgeState(st, p)
         /\ SdkMaxBaseTrade(st, p) = MaxBaseTradeForAge(st, p)
         /\ SdkSurchargeBps(st, p) = AgingSurchargeBps(st, p)
<1>1. /\ st.now_slot \in Nat /\ st.mid_publish_slot \in Nat
      /\ p.aging_start_slots \in Nat
  BY DEF QuotingStates, QuoteParams
<1>2. SdkAge(st) = QuoteAge(st) /\ QuoteAge(st) \in Nat
  BY <1>1 DEF SdkAge, QuoteAge, SaturatingSub, Greatest
<1>3. Greatest(QuoteAge(st) - p.aging_start_slots, 0)
        = SaturatingSub(QuoteAge(st), p.aging_start_slots)
  BY <1>1, <1>2 DEF SaturatingSub, Greatest
<1>4. SdkQuoteAgeState(st, p) = QuoteAgeState(st, p)
  BY <1>2 DEF SdkQuoteAgeState, QuoteAgeState
<1>5. SdkSurchargeBps(st, p) = AgingSurchargeBps(st, p)
  BY <1>2, <1>3 DEF SdkSurchargeBps, AgingSurchargeBps
<1>6. SdkMaxBaseTrade(st, p) = MaxBaseTradeForAge(st, p)
  <2>1. QuoteAgeState(st, p)
          \in {"Paused", "Expired", "Protected", "Aging", "Fresh"}
    BY DEF QuoteAgeState
  <2>. QED
    BY <1>2, <1>3, <1>4, <2>1 DEF SdkMaxBaseTrade, MaxBaseTradeForAge, AgingMaxTrade
<1>. QED
  BY <1>4, <1>5, <1>6

(* So is its imbalance.                                                    *)
LEMMA SdkImbalance ==
  ASSUME NEW base \in Nat, NEW target \in Nat
  PROVE  SdkImbalanceBps(base, target) = InventoryImbalanceBps(base, target)
<1>1. CASE target = 0
  BY <1>1 DEF SdkImbalanceBps, InventoryImbalanceBps
<1>2. CASE target # 0
  <2>. DEFINE n == TruncDiv((base - target) * BPS, target)
  <2>1. n \in Int
    BY <1>2, BPSAssumption, TruncDivType
  <2>2. /\ SdkImbalanceBps(base, target)
             = Greatest(-MaxI32 - 1, Least(MaxI32, n))
        /\ InventoryImbalanceBps(base, target) = Clamp(n, -MaxI32 - 1, MaxI32)
    BY <1>2 DEF SdkImbalanceBps, InventoryImbalanceBps
  <2>. HIDE DEF n
  <2>. QED
    BY <2>1, <2>2, BPSAssumption DEF Clamp, Greatest, Least
<1>. QED
  BY <1>1, <1>2

(* So is its skew.                                                         *)
LEMMA SdkSkew ==
  ASSUME NEW imbalance \in Int, NEW p \in QuoteParams
  PROVE  SdkSkewBps(imbalance, p) = InventorySkewBps(imbalance, p)
<1>. DEFINE n == TruncDiv(imbalance * p.inventory_skew_bps_per_10k_imbalance, BPS)
<1>1. /\ p.max_inventory_skew_bps \in Nat
      /\ imbalance * p.inventory_skew_bps_per_10k_imbalance \in Int
  BY DEF QuoteParams
<1>2. n \in Int
  BY <1>1, BPSAssumption, TruncDivType
<1>3. /\ SdkSkewBps(imbalance, p)
           = Least(Greatest(n, -p.max_inventory_skew_bps),
                   p.max_inventory_skew_bps)
      /\ InventorySkewBps(imbalance, p)
           = Clamp(n, -p.max_inventory_skew_bps, p.max_inventory_skew_bps)
  BY DEF SdkSkewBps, InventorySkewBps
<1>. HIDE DEF n
<1>. QED
  BY <1>1, <1>2, <1>3 DEF Clamp, Greatest, Least

(* The price factor of the SDK is that of the program. *)
LEMMA SdkFactor ==
  ASSUME NEW st \in QuotingStates, NEW p \in QuoteParams,
         NEW baseToQuote \in BOOLEAN,
         WorstSpread(p.base_half_spread_bps, p) < BPS
  PROVE  LET factor == SdkFactorBps(st, p, baseToQuote)
         IN  /\ factor \in Nat \ {0}
             /\ QuotedPrice(st, p, baseToQuote)
                  = MulDivFloor(st.mid_price, factor, BPS)
<1>. DEFINE imbalance == InventoryImbalanceBps(st.base_inventory,
                                               st.target_base_inventory)
            skew   == InventorySkewBps(imbalance, p)
            spread == AppliedSpreadBps(st, p)
            factor == SdkFactorBps(st, p, baseToQuote)
<1>1. /\ st.base_inventory \in Nat /\ st.target_base_inventory \in Nat
      /\ p.base_half_spread_bps \in Nat /\ p.max_inventory_skew_bps \in Nat
      /\ p.max_aging_surcharge_bps \in Nat
  BY DEF QuotingStates, QuoteParams
<1>2. /\ SdkImbalanceBps(st.base_inventory, st.target_base_inventory) = imbalance
      /\ imbalance \in Int
  BY <1>1, SdkImbalance, ImbalanceType
<1>3. SdkSkewBps(imbalance, p) = skew
  BY <1>2, SdkSkew
<1>4. p.base_half_spread_bps + SdkSurchargeBps(st, p) = spread
  BY SdkAging DEF AppliedSpreadBps
<1>5. factor = (IF baseToQuote THEN BPS - spread ELSE BPS + spread) - skew
  BY <1>2, <1>3, <1>4 DEF SdkFactorBps
<1>6. /\ spread \in Nat
      /\ spread <= p.base_half_spread_bps + p.max_aging_surcharge_bps
      /\ skew \in -p.max_inventory_skew_bps .. p.max_inventory_skew_bps
  BY SpreadAndSkew
<1>7. QuotedPrice(st, p, baseToQuote)
        = EffectivePrice(st.mid_price, spread, skew, baseToQuote)
  BY DEF QuotedPrice
<1>. HIDE DEF factor, spread, skew
<1>8. factor = PriceFactorBps(spread, skew, baseToQuote) /\ factor \in Nat \ {0}
  BY <1>1, <1>5, <1>6, BPSAssumption DEF PriceFactorBps, WorstSpread
<1>9. ~(PriceFactorBps(spread, skew, baseToQuote) <= 0)
  BY <1>8
<1>10. QuotedPrice(st, p, baseToQuote) = MulDivFloor(st.mid_price, factor, BPS)
  BY <1>7, <1>8, <1>9 DEF EffectivePrice
<1>. QED
  BY <1>8, <1>10 DEF factor

(* A word fits two words. *)
LEMMA WordFits ==
  /\ MaxU64 \in Nat \ {0} /\ Q64 = MaxU64 + 1 /\ Q64 \in Nat
  /\ MaxU128 = Q64 * Q64 - 1 /\ MaxU128 \in Nat /\ MaxU64 <= MaxU128
<1>1. Q64 \in Nat \ {0} /\ Q64 = MaxU64 + 1 /\ MaxU64 \in Nat \ {0}
  BY MaxU64Assumption DEF Q64
<1>2. 1 * Q64 <= Q64 * Q64 /\ Q64 * Q64 \in Nat
  BY <1>1, ProductMonotone, ProductNat
<1>. QED
  BY <1>1, <1>2 DEF MaxU128

(* A checked multiply-divide ended by u64::try_from is the exact quotient, *)
(* or fails because the quotient is no word.                               *)
LEMMA CheckedQuotient ==
  ASSUME NEW a \in Nat, NEW b \in Nat, NEW d \in Nat \ {0}
  PROVE  LET q == (a * b) \div d
             r == ToU64(MulDivFloor(a, b, d))
         IN  /\ q \in Nat
             /\ \/ q <= MaxU64 /\ r = Ok(q)
                \/ q > MaxU64 /\ r.error # NoError
<1>. DEFINE q == (a * b) \div d
<1>1. q \in Nat
  BY ProductNat, DivBounds
<1>2. MulDivFloor(a, b, d) = IF q > MaxU128 THEN Err("Overflow") ELSE Ok(q)
  BY DEF MulDivFloor
<1>. HIDE DEF q
<1>3. \/ q <= MaxU64 /\ ToU64(MulDivFloor(a, b, d)) = Ok(q)
      \/ q > MaxU64 /\ ToU64(MulDivFloor(a, b, d)).error # NoError
  BY <1>1, <1>2, WordFits DEF ToU64, Ok, Err, NoError
<1>. QED
  BY <1>1, <1>3 DEF q

(* The size of a trade at mid: the program fails where the SDK computes a  *)
(* size that is no word.                                                   *)
LEMMA SdkEquivalentAgrees ==
  ASSUME NEW mid \in Nat \ {0}, NEW amountIn \in Nat,
         NEW baseToQuote \in BOOLEAN
  PROVE  LET sdk     == SdkBaseEquivalent(mid, amountIn, baseToQuote)
             program == BaseEquivalentAmount(mid, amountIn, baseToQuote)
         IN  /\ sdk \in Nat
             /\ \/ program = Ok(sdk)
                \/ program.error # NoError /\ sdk > MaxU64
<1>1. CASE baseToQuote
  BY <1>1 DEF SdkBaseEquivalent, BaseEquivalentAmount
<1>2. CASE ~baseToQuote
  <2>1. SdkBaseEquivalent(mid, amountIn, baseToQuote) = (amountIn * Q64) \div mid
    BY <1>2 DEF SdkBaseEquivalent, SdkDivAmountFloor, Ok
  <2>2. BaseEquivalentAmount(mid, amountIn, baseToQuote)
          = ToU64(MulDivFloor(amountIn, Q64, mid))
    BY <1>2 DEF BaseEquivalentAmount, DivAmountFloor
  <2>. QED
    BY <2>1, <2>2, CheckedQuotient, WordFits
<1>. QED
  BY <1>1, <1>2

(* The output before settlement: program and SDK agree on it, or both are  *)
(* about to refuse, the program for a width and the SDK for an output that *)
(* is nothing or more than a vault can hold.                               *)
LEMMA SdkOutAgrees ==
  ASSUME NEW st \in QuotingStates, NEW p \in QuoteParams,
         NEW amount \in Nat \ {0}, amount <= MaxU64,
         NEW baseToQuote \in BOOLEAN,
         WorstSpread(p.base_half_spread_bps, p) < BPS
  PROVE  LET sdk     == SdkOut(st, p, amount, baseToQuote)
             program == QuotedOut(st, p, amount, baseToQuote)
         IN  \/ sdk = program
             \/ /\ program.error # NoError
                /\ sdk.value \in Nat
                /\ sdk.value = 0 \/ sdk.value > MaxU64
<1>. DEFINE factor  == SdkFactorBps(st, p, baseToQuote)
            price   == (st.mid_price * factor) \div BPS
            sdk     == SdkOut(st, p, amount, baseToQuote)
            program == QuotedOut(st, p, amount, baseToQuote)
<1>1. /\ factor \in Nat \ {0} /\ st.mid_price \in Nat
      /\ QuotedPrice(st, p, baseToQuote) = MulDivFloor(st.mid_price, factor, BPS)
  BY SdkFactor DEF QuotingStates
<1>2. price \in Nat
  BY <1>1, ProductNat, DivBounds, BPSAssumption
<1>3. sdk = IF baseToQuote THEN SdkMulAmountFloor(price, amount)
                           ELSE SdkDivAmountFloor(price, amount)
  <2>1. ~(factor <= 0)
    BY <1>1
  <2>. QED
    BY <2>1 DEF SdkOut, SdkPrice
<1>4. QuotedPrice(st, p, baseToQuote)
        = IF price > MaxU128 THEN Err("Overflow") ELSE Ok(price)
  BY <1>1, BPSAssumption DEF MulDivFloor
<1>5. program = IF price > MaxU128 THEN Err("Overflow")
                ELSE IF baseToQuote THEN MulAmountFloor(price, amount)
                ELSE DivAmountFloor(price, amount)
  BY <1>4 DEF QuotedOut, Ok, Err, NoError
<1>. HIDE DEF price, sdk, program
<1>6. CASE price > MaxU128 /\ baseToQuote
  <2>. DEFINE q == (amount * price) \div Q64
  <2>1. sdk = Ok(q) /\ program.error # NoError
    BY <1>3, <1>5, <1>6 DEF SdkMulAmountFloor, Err, NoError
  <2>2. Q64 * Q64 <= price /\ Q64 * Q64 \in Nat
    BY <1>2, <1>6, WordFits, ProductNat
  <2>3. /\ 1 * price <= amount * price
        /\ amount * price \in Nat
    BY <1>2, ProductMonotone, ProductNat
  <2>4. Q64 * Q64 <= amount * price
    BY <1>2, <2>2, <2>3
  <2>5. /\ (Q64 * Q64) \div Q64 <= q
        /\ q \in Nat
    BY <2>2, <2>3, <2>4, DivMonotone, DivBounds, Q64Positive
  <2>6. (Q64 * Q64) \div Q64 = Q64
    BY Q64Positive
  <2>7. q > MaxU64 /\ q \in Nat
    <3>. HIDE DEF q
    <3>. QED
      BY <2>5, <2>6, WordFits
  <2>. QED
    BY <2>1, <2>7 DEF Ok, sdk, program
<1>7. CASE price > MaxU128 /\ ~baseToQuote
  <2>. DEFINE q == (amount * Q64) \div price
  <2>1. price # 0
    BY <1>2, <1>7, WordFits
  <2>2. sdk = Ok(q) /\ program.error # NoError
    BY <1>3, <1>5, <1>7, <2>1 DEF SdkDivAmountFloor, Err, NoError
  <2>3. /\ amount * Q64 <= MaxU64 * Q64 /\ MaxU64 * Q64 \in Nat
        /\ amount * Q64 \in Nat
    BY WordFits, ProductMonotone, ProductNat
  <2>4. Q64 * Q64 = MaxU64 * Q64 + Q64
    BY WordFits
  <2>5. amount * Q64 < price
    BY <1>2, <1>7, <2>3, <2>4, WordFits
  <2>6. q \in Nat /\ price * q <= amount * Q64
    BY <1>2, <2>1, <2>3, DivBounds
  <2>7. q = 0
    <3>1. CASE q # 0
      <4>1. 1 * price <= q * price
        BY <1>2, <2>6, <3>1, ProductMonotone
      <4>. HIDE DEF q
      <4>. QED
        BY <1>2, <2>3, <2>5, <2>6, <4>1
    <3>. QED
      BY <3>1
  <2>. QED
    BY <2>2, <2>7 DEF Ok, sdk, program
<1>8. CASE price <= MaxU128 /\ baseToQuote
  <2>. DEFINE q == (amount * price) \div Q64
  <2>1. ~(price > MaxU128)
    BY <1>2, <1>8, WordFits
  <2>2. sdk = Ok(q) /\ program = ToU64(MulDivFloor(amount, price, Q64))
    BY <1>3, <1>5, <1>8, <2>1 DEF SdkMulAmountFloor, MulAmountFloor
  <2>3. /\ q \in Nat
        /\ \/ q <= MaxU64 /\ program = Ok(q)
           \/ q > MaxU64 /\ program.error # NoError
    BY <1>2, <2>2, Q64Positive, CheckedQuotient
  <2>. HIDE DEF q
  <2>. QED
    BY <2>2, <2>3 DEF Ok, sdk, program
<1>9. CASE price <= MaxU128 /\ ~baseToQuote /\ price # 0
  <2>. DEFINE q == (amount * Q64) \div price
  <2>1. ~(price > MaxU128)
    BY <1>2, <1>9, WordFits
  <2>2. sdk = Ok(q) /\ program = ToU64(MulDivFloor(amount, Q64, price))
    BY <1>3, <1>5, <1>9, <2>1 DEF SdkDivAmountFloor, DivAmountFloor
  <2>3. /\ q \in Nat
        /\ \/ q <= MaxU64 /\ program = Ok(q)
           \/ q > MaxU64 /\ program.error # NoError
    BY <1>2, <1>9, <2>2, Q64Positive, CheckedQuotient
  <2>. HIDE DEF q
  <2>. QED
    BY <2>2, <2>3 DEF Ok, sdk, program
<1>10. CASE ~baseToQuote /\ price = 0
  <2>1. ~(price > MaxU128)
    BY <1>10, WordFits
  <2>2. sdk = Err("DivByZero") /\ program = Err("DivByZero")
    BY <1>3, <1>5, <1>10, <2>1
       DEF SdkDivAmountFloor, DivAmountFloor, MulDivFloor, ToU64, Err, NoError
  <2>. QED
    BY <2>2 DEF sdk, program
<1>. QED
  BY <1>2, <1>6, <1>7, <1>8, <1>9, <1>10, WordFits DEF sdk, program

(* Settlement: with an input that fits beside the taking vault there is    *)
(* no overflow left for the program to meet.                               *)
LEMMA SdkSettleAgrees ==
  ASSUME NEW st \in QuotingStates, NEW p \in QuoteParams,
         NEW amountIn \in Nat, NEW amountOut \in Nat,
         NEW baseToQuote \in BOOLEAN,
         (IF baseToQuote THEN st.base_inventory ELSE st.quote_inventory)
           + amountIn <= MaxU64
  PROVE  SdkSettle(st, p, amountIn, amountOut, baseToQuote)
           = SettleQuote(st, p, amountIn, amountOut, baseToQuote)
<1>. DEFINE pays    == IF baseToQuote THEN st.quote_inventory
                                      ELSE st.base_inventory
            takes   == IF baseToQuote THEN st.base_inventory
                                      ELSE st.quote_inventory
            newBase == IF baseToQuote THEN st.base_inventory + amountIn
                                      ELSE st.base_inventory - amountOut
            target  == st.target_base_inventory
<1>1. /\ st.base_inventory \in Nat /\ st.quote_inventory \in Nat /\ target \in Nat
      /\ pays \in Nat /\ takes \in Nat
  BY DEF QuotingStates
<1>2. ~(takes + amountIn > MaxU64)
  BY <1>1, WordFits
<1>3. ASSUME ~(amountOut >= pays)
      PROVE  SdkImbalanceBps(newBase, target)
               = InventoryImbalanceBps(newBase, target)
  <2>1. newBase \in Nat
    BY <1>1, <1>3
  <2>. QED
    BY <1>1, <2>1, SdkImbalance
<1>4. SdkSettle(st, p, amountIn, amountOut, baseToQuote)
        = IF amountOut = 0 \/ amountOut >= pays THEN Err("InvalidAmount")
          ELSE IF AbsInt(SdkImbalanceBps(newBase, target))
                    > p.hard_inventory_band_bps
            THEN Err("InventoryBand")
          ELSE Ok(amountOut)
  BY DEF SdkSettle
<1>5. SettleQuote(st, p, amountIn, amountOut, baseToQuote)
        = IF amountOut = 0 \/ amountOut >= pays THEN Err("InvalidAmount")
          ELSE IF takes + amountIn > MaxU64 THEN Err("Overflow")
          ELSE IF AbsInt(InventoryImbalanceBps(newBase, target))
                    > p.hard_inventory_band_bps
            THEN Err("InventoryBand")
          ELSE Ok(amountOut)
  BY DEF SettleQuote
<1>. HIDE DEF pays, takes, newBase, target
<1>. QED
  BY <1>2, <1>3, <1>4, <1>5

(* What it means for the SDK and the program to agree on a trade.          *)
Agree(sdk, program) ==
  /\ sdk.error = NoError <=> program.error = NoError
  /\ program.error = NoError => sdk.value = program.value

(* The SDK and the math crate agree on every trade of accounts that hold   *)
(* no more than a word, with a trade limit that is a word, for an input    *)
(* that fits beside the vault it goes to.                                  *)
LEMMA SdkPriceTradeAgrees ==
  ASSUME NEW st \in QuotingStates, NEW p \in QuoteParams,
         NEW amountIn \in Nat, NEW baseToQuote \in BOOLEAN,
         MathParamsValid(p), WorstSpread(p.base_half_spread_bps, p) < BPS,
         p.max_trade_base_atoms <= MaxU64, st.mid_price # 0,
         st.base_inventory <= MaxU64, st.quote_inventory <= MaxU64,
         (IF baseToQuote THEN st.base_inventory ELSE st.quote_inventory)
           + amountIn <= MaxU64
  PROVE  Agree(SdkPriceTrade(st, p, amountIn, baseToQuote),
               PriceTrade(st, p, amountIn, baseToQuote))
<1>. DEFINE sdkSize == SdkBaseEquivalent(st.mid_price, amountIn, baseToQuote)
            size    == BaseEquivalentAmount(st.mid_price, amountIn, baseToQuote)
            limit   == MaxBaseTradeForAge(st, p)
            refused == Err(IF QuoteAgeState(st, p) = "Protected"
                             THEN "QuoteProtected" ELSE "InvalidAmount")
            lessFee == AmountLessFee(amountIn, p.fee_bps)
            sdkOut  == SdkOut(st, p, lessFee.value, baseToQuote)
            out     == QuotedOut(st, p, lessFee.value, baseToQuote)
            sdkEnd(o) == SdkSettle(st, p, amountIn, o, baseToQuote)
            end(o)    == SettleQuote(st, p, amountIn, o, baseToQuote)
            sdk     == SdkPriceTrade(st, p, amountIn, baseToQuote)
            program == PriceTrade(st, p, amountIn, baseToQuote)
<1>1. /\ st.mid_price \in Nat \ {0} /\ p.fee_bps \in Nat /\ p.fee_bps < BPS
      /\ st.base_inventory \in Nat /\ st.quote_inventory \in Nat
      /\ p.max_trade_base_atoms \in Nat
  BY DEF QuotingStates, QuoteParams, MathParamsValid
<1>2. /\ sdkSize \in Nat
      /\ \/ size = Ok(sdkSize)
         \/ size.error # NoError /\ sdkSize > MaxU64
  BY <1>1, SdkEquivalentAgrees
<1>3. limit \in Nat /\ limit <= MaxU64
  BY <1>1, LimitType, WordFits
<1>4. SdkAmountLessFee(amountIn, p.fee_bps) = lessFee
  BY <1>1, BPSAssumption DEF SdkAmountLessFee, AmountLessFee
<1>5. /\ lessFee.value \in Nat /\ lessFee.value <= MaxU64
      /\ lessFee.error = NoError => lessFee.value # 0
  <2>1. lessFee.value \in Nat /\ lessFee.value <= amountIn
    BY <1>1, LessFeeBounds
  <2>2. lessFee.error = NoError => lessFee.value # 0
    BY DEF AmountLessFee, Ok, Err, NoError
  <2>. HIDE DEF lessFee
  <2>. QED
    BY <1>1, <2>1, <2>2, WordFits
<1>6. sdk = IF sdkSize = 0 \/ sdkSize > limit THEN refused
            ELSE IF lessFee.error # NoError THEN lessFee
            ELSE IF sdkOut.error # NoError THEN sdkOut
            ELSE sdkEnd(sdkOut.value)
  <2>1. /\ SdkMaxBaseTrade(st, p) = limit
        /\ SdkQuoteAgeState(st, p) = QuoteAgeState(st, p)
    BY SdkAging
  <2>. QED
    BY <1>4, <2>1 DEF SdkPriceTrade
<1>7. program = IF size.error # NoError THEN size
                ELSE IF size.value = 0 \/ size.value > limit THEN refused
                ELSE IF lessFee.error # NoError THEN lessFee
                ELSE IF out.error # NoError THEN out
                ELSE end(out.value)
  BY DEF PriceTrade
<1>8. \A o \in Nat : sdkEnd(o) = end(o)
  BY SdkSettleAgrees
<1>9. \A o \in Nat : o = 0 \/ o > MaxU64 => sdkEnd(o).error # NoError
  BY <1>1, WordFits DEF SdkSettle, Err, NoError
<1>10. lessFee.error = NoError =>
         /\ out.value \in Nat
         /\ \/ sdkOut = out
            \/ /\ out.error # NoError /\ sdkOut.value \in Nat
               /\ sdkOut.value = 0 \/ sdkOut.value > MaxU64
  BY <1>5, SdkOutAgrees, QuotedOutType
<1>11. refused.error # NoError
  BY DEF Err, NoError
<1>. HIDE DEF sdkSize, size, limit, refused, lessFee, sdkOut, out, sdkEnd, end,
              sdk, program
<1>12. CASE size.error # NoError
  <2>1. sdkSize > limit
    BY <1>2, <1>3, <1>12, WordFits DEF Ok
  <2>. QED
    BY <1>6, <1>7, <1>11, <1>12, <2>1 DEF Agree, sdk, program
<1>13. CASE size = Ok(sdkSize)
  <2>1. size.error = NoError /\ size.value = sdkSize
    BY <1>13 DEF Ok
  <2>2. CASE sdkSize = 0 \/ sdkSize > limit
    BY <1>6, <1>7, <1>11, <2>1, <2>2 DEF Agree, sdk, program
  <2>3. CASE ~(sdkSize = 0 \/ sdkSize > limit) /\ lessFee.error # NoError
    BY <1>6, <1>7, <2>1, <2>3 DEF Agree, sdk, program
  <2>4. CASE ~(sdkSize = 0 \/ sdkSize > limit) /\ lessFee.error = NoError
    <3>1. CASE sdkOut = out
      BY <1>6, <1>7, <1>8, <1>10, <2>1, <2>4, <3>1 DEF Agree, sdk, program
    <3>2. CASE /\ out.error # NoError /\ sdkOut.value \in Nat
               /\ sdkOut.value = 0 \/ sdkOut.value > MaxU64
      BY <1>6, <1>7, <1>9, <2>1, <2>4, <3>2 DEF Agree, sdk, program
    <3>. QED
      BY <1>10, <2>4, <3>1, <3>2
  <2>. QED
    BY <2>2, <2>3, <2>4
<1>. QED
  BY <1>2, <1>12, <1>13

(* And so is its quote.                                                    *)
LEMMA SdkQuoteAgrees ==
  ASSUME NEW st \in QuotingStates, NEW p \in QuoteParams,
         NEW amountIn \in Nat, NEW baseToQuote \in BOOLEAN,
         MathParamsValid(p), WorstSpread(p.base_half_spread_bps, p) < BPS,
         p.max_trade_base_atoms <= MaxU64, st.mid_price # 0,
         st.base_inventory <= MaxU64, st.quote_inventory <= MaxU64,
         (IF baseToQuote THEN st.base_inventory ELSE st.quote_inventory)
           + amountIn <= MaxU64
  PROVE  Agree(SdkQuoteExactIn(st, p, amountIn, baseToQuote),
               QuoteExactIn(st, p, amountIn, baseToQuote))
<1>. DEFINE sdk     == SdkPriceTrade(st, p, amountIn, baseToQuote)
            program == PriceTrade(st, p, amountIn, baseToQuote)
<1>1. SdkParamsValid(p) /\ SdkQuoteAgeState(st, p) = QuoteAgeState(st, p)
  BY SdkParams, SdkAging
<1>2. Agree(sdk, program)
  BY SdkPriceTradeAgrees
<1>. HIDE DEF sdk, program
<1>3. SdkQuoteExactIn(st, p, amountIn, baseToQuote)
        = IF amountIn = 0 THEN Err("InvalidAmount")
          ELSE IF st.base_inventory = 0 \/ st.quote_inventory = 0
            THEN Err("EmptyLiquidity")
          ELSE IF st.target_base_inventory = 0 THEN Err("InvalidConfig")
          ELSE IF QuoteAgeState(st, p) = "Paused" THEN Err("PoolPaused")
          ELSE IF QuoteAgeState(st, p) = "Expired" THEN Err("StaleQuote")
          ELSE sdk
  BY <1>1 DEF SdkQuoteExactIn, sdk
<1>4. QuoteExactIn(st, p, amountIn, baseToQuote)
        = IF amountIn = 0 THEN Err("InvalidAmount")
          ELSE IF st.base_inventory = 0 \/ st.quote_inventory = 0
            THEN Err("EmptyLiquidity")
          ELSE IF st.target_base_inventory = 0 THEN Err("InvalidConfig")
          ELSE IF QuoteAgeState(st, p) = "Paused" THEN Err("PoolPaused")
          ELSE IF QuoteAgeState(st, p) = "Expired" THEN Err("StaleQuote")
          ELSE program
  BY DEF QuoteExactIn, program
<1>. QED
  BY <1>2, <1>3, <1>4 DEF Agree

-----------------------------------------------------------------------------
(* The inductive invariant.                                                *)

(* The quote account was opened in the order of its pool, and the trade    *)
(* limit of the pool is a word.                                            *)
PoolMatches ==
  /\ quoteState # NoAccount =>
       quoteState.same_slot_order = poolConfig.same_slot_order
  /\ poolConfig # NoAccount =>
       poolConfig.params.max_trade_base_atoms <= MaxU64

(* No account holds more than the supply. *)
SupplyKept ==
  /\ TotalOf(baseTokens) = TotalOf(InitialBase)
  /\ TotalOf(quoteTokens) = TotalOf(InitialQuote)

(* The quote a route was made from is the one in force, unless the         *)
(* sequence has moved on.                                                  *)
TicketOfQuote ==
  ticket # NoAccount =>
    /\ ticket.amount_in \in Nat /\ ticket.base_to_quote \in BOOLEAN
    /\ ticket.quote \in QuoteStates
    /\ quoteState # NoAccount
    /\ quoteState.sequence >= ticket.quote.sequence
    /\ quoteState.sequence = ticket.quote.sequence => quoteState = ticket.quote

RouterInv == IInv /\ PoolMatches /\ SupplyKept /\ TicketOfQuote

(* The invariant holds initially.                                          *)
LEMMA InitRouterInv == ASSUME RouterInit PROVE RouterInv
  BY InitIInv, InitialTotals
     DEF RouterInit, RouterInv, PoolMatches, SupplyKept, TicketOfQuote, Init

(* The program's own steps, whoever takes them. *)
LEMMA ProgramKeepsPool == ASSUME IInv, PoolMatches, Next PROVE PoolMatches'
<1>1. ASSUME NEW args \in PoolArgs, InitializeReferenceQuotePool(args)
      PROVE  PoolMatches'
  BY <1>1, WordAssumption
     DEF InitializeReferenceQuotePool, PoolMatches, IInv, SpreadWithinPool
<1>2. ASSUME NEW signer \in Keys, NEW authority \in QuoteAuthorities,
             InitializeReferenceQuoteState(signer, authority)
      PROVE  PoolMatches'
  BY <1>2 DEF InitializeReferenceQuoteState, PoolMatches
<1>3. ASSUME NEW signer \in Keys, NEW mid \in MidPrices, NEW publish \in Slots,
             NEW sequence \in Sequences,
             UpdateReferenceQuote(signer, mid, publish, sequence)
      PROVE  PoolMatches'
  BY <1>3
     DEF UpdateReferenceQuote, UpdateQuoteAccounts, ApplyUpdate, PoolMatches,
         IInv, TypeOK, QuoteStates
<1>4. ASSUME NEW signer \in Keys, NEW mid \in MidPrices, NEW spread \in Spreads,
             NEW publish \in Slots, NEW sequence \in Sequences,
             UpdateReferenceQuoteV2(signer, mid, spread, publish, sequence)
      PROVE  PoolMatches'
  BY <1>4
     DEF UpdateReferenceQuoteV2, UpdateQuoteAccounts, ApplyUpdate, PoolMatches,
         IInv, TypeOK, QuoteStates
<1>5. ASSUME NEW signer \in Keys, NEW paused \in BOOLEAN,
             PausePool(signer, paused)
      PROVE  PoolMatches'
  <2>1. /\ poolConfig # NoAccount /\ quoteState' = quoteState
        /\ poolConfig' = [poolConfig EXCEPT !.paused = paused]
        /\ poolConfig \in PoolConfigs
    BY <1>5 DEF PausePool, PausePoolAccounts, IInv, TypeOK
  <2>2. /\ poolConfig'.params = poolConfig.params
        /\ poolConfig'.same_slot_order = poolConfig.same_slot_order
    BY <2>1 DEF PoolConfigs
  <2>. QED
    BY <2>1, <2>2 DEF PoolMatches
<1>6. ASSUME UNCHANGED <<poolConfig, quoteState>> PROVE PoolMatches'
  BY <1>6 DEF PoolMatches
<1>. QED
  BY <1>1, <1>2, <1>3, <1>4, <1>5, <1>6
     DEF Next, InitializeMakerVaults, FundPool, SwapExactIn, Tick,
         DepositBase, DepositQuote

(* What the program does leaves a route pinned to its quote.               *)
LEMMA ProgramKeepsTicket ==
  ASSUME IInv, TicketOfQuote, [Next]_vars, IInv', UNCHANGED ticket
  PROVE  TicketOfQuote'
<1>. SUFFICES ASSUME ticket # NoAccount
              PROVE  TicketOfQuote'
  BY DEF TicketOfQuote
<1>1. /\ ticket.amount_in \in Nat /\ ticket.base_to_quote \in BOOLEAN
      /\ ticket.quote \in QuoteStates /\ quoteState # NoAccount
      /\ quoteState.sequence >= ticket.quote.sequence
      /\ quoteState.sequence = ticket.quote.sequence => quoteState = ticket.quote
  BY DEF TicketOfQuote
<1>2. /\ quoteState' # NoAccount
      /\ quoteState'.sequence >= quoteState.sequence
      /\ quoteState'.sequence = quoteState.sequence => quoteState' = quoteState
  BY <1>1, StepPinned DEF Pinned
<1>3. /\ quoteState.sequence \in Nat /\ quoteState'.sequence \in Nat
      /\ ticket.quote.sequence \in Nat
  BY <1>1, <1>2 DEF IInv, TypeOK, QuoteStates
<1>. QED
  BY <1>1, <1>2, <1>3 DEF TicketOfQuote

(* The swap of a route, with whatever minimum was quoted. *)
LEMMA RouteSwaps ==
  ASSUME RouterInv, ExecuteRoute
  PROVE  /\ ticket # NoAccount /\ Taker \in Keys
         /\ ticket.amount_in \in Nat /\ ticket.base_to_quote \in BOOLEAN
         /\ SwapExactIn(Taker, ticket.amount_in, ticket.amount_out,
                        ticket.quote.sequence, ticket.base_to_quote)
         /\ UNCHANGED ticket
  BY RouterAssumption DEF RouterInv, TicketOfQuote, ExecuteRoute

(* Every step of router or program keeps the invariant.                    *)
LEMMA RouterKeeps ==
  ASSUME RouterInv, [RouterNext]_routerVars PROVE RouterInv'
<1>1. ASSUME NEW amountIn \in Amounts, NEW baseToQuote \in BOOLEAN,
             NEW maxAge \in RouteAges, QuoteRoute(amountIn, baseToQuote, maxAge)
      PROVE  RouterInv'
  <2>1. /\ UNCHANGED vars /\ quoteState # NoAccount /\ amountIn \in Nat
        /\ ticket'.amount_in = amountIn /\ ticket'.base_to_quote = baseToQuote
        /\ ticket'.quote = quoteState
    BY <1>1, ArgsAssumption DEF QuoteRoute, Exists
  <2>2. quoteState \in QuoteStates
    BY <2>1 DEF RouterInv, IInv, TypeOK
  <2>3. TicketOfQuote'
    BY <2>1, <2>2 DEF TicketOfQuote, vars, QuoteStates
  <2>4. IInv'
    BY <2>1, NextIInv DEF RouterInv
  <2>. QED
    BY <2>1, <2>3, <2>4 DEF RouterInv, PoolMatches, SupplyKept, vars
<1>2. ASSUME ExecuteRoute PROVE RouterInv'
  <2>1. /\ Taker \in Keys
        /\ ticket.amount_in \in Nat /\ ticket.base_to_quote \in BOOLEAN
        /\ SwapExactIn(Taker, ticket.amount_in, ticket.amount_out,
                       ticket.quote.sequence, ticket.base_to_quote)
        /\ UNCHANGED ticket
    BY <1>2, RouteSwaps
  <2>2. IInv'
    BY <2>1, Swapped DEF RouterInv
  <2>3. UNCHANGED <<poolConfig, quoteState>>
    BY <2>1 DEF SwapExactIn
  <2>4. SupplyKept'
    BY <2>1, SwapKeepsTotals DEF RouterInv, SupplyKept
  <2>. QED
    BY <2>1, <2>2, <2>3, <2>4 DEF RouterInv, PoolMatches, TicketOfQuote
<1>3. ASSUME Next, UNCHANGED ticket PROVE RouterInv'
  <2>1. IInv'
    BY <1>3, NextIInv DEF RouterInv
  <2>2. PoolMatches'
    BY <1>3, ProgramKeepsPool DEF RouterInv
  <2>3. SupplyKept'
    BY <1>3, TotalsKept DEF RouterInv, SupplyKept
  <2>4. TicketOfQuote'
    BY <1>3, <2>1, ProgramKeepsTicket DEF RouterInv
  <2>. QED
    BY <2>1, <2>2, <2>3, <2>4 DEF RouterInv
<1>4. ASSUME UNCHANGED routerVars PROVE RouterInv'
  <2>1. UNCHANGED vars /\ UNCHANGED ticket
    BY <1>4 DEF routerVars, vars
  <2>2. IInv'
    BY <2>1, NextIInv DEF RouterInv
  <2>. QED
    BY <2>1, <2>2 DEF RouterInv, PoolMatches, SupplyKept, TicketOfQuote, vars
<1>. QED
  BY <1>1, <1>2, <1>3, <1>4 DEF RouterNext

(* Taking routes through the SDK leads to no state outside the invariant.  *)
THEOREM RouterInductive == RouterSpec => []RouterInv
  BY InitRouterInv, RouterKeeps, PTL DEF RouterSpec

-----------------------------------------------------------------------------
(* Theorems. *)

(* Whatever landed between quoting and execution, a route executes on the  *)
(* quote it was made from, to the field, and pays what was quoted.         *)
THEOREM RouteAsQuoted == RouterSpec => RouteExecutesAsQuoted
<1>. DEFINE Exact ==
       ExecuteRoute =>
         /\ quoteState = ticket.quote
         /\ (IF ticket.base_to_quote
               THEN quoteTokens'[Taker] - quoteTokens[Taker]
               ELSE baseTokens'[Taker] - baseTokens[Taker])
              >= ticket.amount_out
<1>1. ASSUME RouterInv PROVE Exact
  <2>. SUFFICES ASSUME ExecuteRoute PROVE Exact
    OBVIOUS
  <2>. DEFINE out == SwapQuote(ticket.amount_in, ticket.base_to_quote).value
  <2>1. /\ QuoteUsable(ticket.quote.sequence)
        /\ out >= ticket.amount_out
        /\ ticket.base_to_quote \in BOOLEAN /\ ticket # NoAccount
        /\ IF ticket.base_to_quote
           THEN Moved(quoteTokens, quoteTokens', Vault, Taker, out)
           ELSE Moved(baseTokens, baseTokens', Vault, Taker, out)
    BY <1>1, RouteSwaps, SwapMoves DEF RouterInv
  <2>2. quoteState = ticket.quote
    BY <1>1, <2>1 DEF QuoteUsable, RouterInv, TicketOfQuote
  <2>. HIDE DEF out
  <2>3. IF ticket.base_to_quote
        THEN quoteTokens'[Taker] - quoteTokens[Taker] = out
        ELSE baseTokens'[Taker] - baseTokens[Taker] = out
    BY <2>1 DEF Moved
  <2>. QED
    BY <2>1, <2>2, <2>3
<1>. QED
  BY <1>1, RouterInductive, PTL DEF RouteExecutesAsQuoted

(* A vault and a key together hold no more than a word of a token.         *)
LEMMA HoldingsFit ==
  ASSUME RouterInv, NEW key \in Keys
  PROVE  /\ baseTokens[key] \in Nat /\ quoteTokens[key] \in Nat
         /\ baseTokens[Vault] \in Nat /\ quoteTokens[Vault] \in Nat
         /\ baseTokens[Vault] + baseTokens[key] <= MaxU64
         /\ quoteTokens[Vault] + quoteTokens[key] <= MaxU64
<1>1. /\ baseTokens \in [Holders -> Nat] /\ quoteTokens \in [Holders -> Nat]
      /\ key \in Holders /\ Vault \in Holders /\ key # Vault
      /\ IsFiniteSet(Holders)
  BY HoldersFinite DEF RouterInv, IInv, TypeOK, Holders
<1>2. /\ TotalOf(baseTokens) <= MaxU64 /\ TotalOf(quoteTokens) <= MaxU64
  BY WordAssumption DEF RouterInv, SupplyKept, TotalOf
<1>. DEFINE rest == (Holders \ {Vault}) \ {key}
            restBase  == PartialSums(baseTokens, Holders)[rest]
            restQuote == PartialSums(quoteTokens, Holders)[rest]
<1>3. /\ TotalOf(baseTokens) = baseTokens[Vault] + (baseTokens[key] + restBase)
      /\ restBase \in Nat
  BY <1>1, SumOfPair
<1>4. /\ TotalOf(quoteTokens) = quoteTokens[Vault] + (quoteTokens[key] + restQuote)
      /\ restQuote \in Nat
  BY <1>1, SumOfPair
<1>5. /\ baseTokens[key] \in Nat /\ quoteTokens[key] \in Nat
      /\ baseTokens[Vault] \in Nat /\ quoteTokens[Vault] \in Nat
  BY <1>1
<1>. HIDE DEF restBase, restQuote
<1>. QED
  BY <1>2, <1>3, <1>4, <1>5, WordFits

(* The SDK names an output exactly when the program would execute, and it  *)
(* is the program's: though the SDK computes without a width and checks    *)
(* less, what the program rejects for a width the SDK rejects for size.    *)
THEOREM SdkSound == RouterSpec => []SdkAgrees
<1>1. ASSUME RouterInv PROVE SdkAgrees
  <2>. SUFFICES ASSUME Exists, NEW amountIn \in Amounts,
                       NEW baseToQuote \in BOOLEAN, NEW key \in Keys,
                       CanPay(IF baseToQuote THEN baseTokens ELSE quoteTokens,
                              key, amountIn)
                PROVE  LET sdk == SdkQuoteExactIn(QuotingState, SwapParams,
                                                  amountIn, baseToQuote)
                           program == SwapQuote(amountIn, baseToQuote)
                           accepts == /\ QuoteUsable(quoteState.sequence)
                                      /\ PoolOpen
                                      /\ program.error = NoError
                       IN  /\ (sdk.error = NoError) <=> accepts
                           /\ accepts => sdk.value = program.value
    BY DEF SdkAgrees
  <2>. DEFINE st == QuotingState
              p  == SwapParams
              sdk == SdkQuoteExactIn(st, p, amountIn, baseToQuote)
              program == SwapQuote(amountIn, baseToQuote)
  <2>1. /\ Live /\ IInv /\ amountIn \in Nat
        /\ poolConfig \in PoolConfigs /\ quoteState \in QuoteStates
        /\ vaultState \in VaultStates /\ slot \in Nat
    BY <1>1, ArgsAssumption DEF Exists, Live, RouterInv, IInv, TypeOK
  <2>2. /\ st \in QuotingStates /\ p \in QuoteParams /\ MathParamsValid(p)
        /\ WorstSpread(p.base_half_spread_bps, p) < BPS
    BY <2>1, SwapInputs
  <2>3. p.max_trade_base_atoms <= MaxU64
    BY <1>1, <2>1 DEF RouterInv, PoolMatches, SwapParams, Live, PoolConfigs, Params
  <2>4. /\ st.base_inventory <= MaxU64 /\ st.quote_inventory <= MaxU64
        /\ (IF baseToQuote THEN st.base_inventory ELSE st.quote_inventory)
             + amountIn <= MaxU64
    <3>1. /\ st.base_inventory = baseTokens[Vault]
          /\ st.quote_inventory = quoteTokens[Vault]
      BY DEF QuotingState
    <3>2. IF baseToQuote THEN amountIn <= baseTokens[key]
                         ELSE amountIn <= quoteTokens[key]
      BY <1>1, <2>1, HoldingsFit DEF CanPay
    <3>. HIDE DEF st
    <3>. QED
      BY <1>1, <2>1, <3>1, <3>2, HoldingsFit, WordFits
  <2>5. CASE st.mid_price = 0
    <3>1. sdk.error # NoError
      BY <2>5 DEF SdkQuoteExactIn, Err, NoError
    <3>2. ~(quoteState.mid_price > 0)
      BY <2>1, <2>5 DEF QuotingState, QuoteStates
    <3>. QED
      BY <3>1, <3>2 DEF QuoteUsable
  <2>6. CASE st.mid_price # 0
    <3>1. Agree(sdk, program)
      BY <2>1, <2>2, <2>3, <2>4, <2>6, SdkQuoteAgrees DEF SwapQuote
    <3>2. ASSUME program.error = NoError
          PROVE  QuoteUsable(quoteState.sequence) /\ PoolOpen
      <4>1. /\ st.target_base_inventory # 0
            /\ QuoteAgeState(st, p) \notin {"Paused", "Expired"}
        BY <2>1, <2>2, <3>2, QuoteAccepted DEF SwapQuote
      <4>2. ~st.paused
        BY <4>1 DEF QuoteAgeState
      <4>3. ~poolConfig.paused /\ ~quoteState.paused /\ ~vaultState.paused
        BY <4>2 DEF QuotingState
      <4>4. vaultState.target_base_inventory > 0
        BY <2>1, <4>1, MaxU64Assumption DEF QuotingState, VaultStates, U64
      <4>5. /\ quoteState.mid_price > 0 /\ quoteState.sequence > 0
            /\ quoteState.publish_slot <= slot
        <5>1. /\ quoteState.publish_slot <= quoteState.last_update_slot
              /\ quoteState.last_update_slot <= slot
              /\ (quoteState.sequence = 0) <=> (quoteState.mid_price = 0)
          BY <2>1 DEF IInv, QuoteNotFromFuture, Live
        <5>2. quoteState.mid_price # 0
          BY <2>6 DEF QuotingState
        <5>. QED
          BY <2>1, <5>1, <5>2 DEF QuoteStates
      <4>6. quoteState.same_slot_order = poolConfig.same_slot_order
        BY <1>1, <2>1 DEF RouterInv, PoolMatches, Live
      <4>. QED
        BY <4>3, <4>4, <4>5, <4>6 DEF QuoteUsable, PoolOpen, VaultOpen
    <3>. HIDE DEF sdk, program
    <3>3. /\ sdk.error = NoError <=> program.error = NoError
          /\ program.error = NoError => sdk.value = program.value
      BY <3>1 DEF Agree
    <3>. QED
      BY <3>2, <3>3 DEF sdk, program
  <2>. QED
    BY <2>5, <2>6
<1>. QED
  BY <1>1, RouterInductive, PTL

-----------------------------------------------------------------------------
(* The stored bytes. *)

(* Each place of a number weighs a byte's values times the one below it.   *)
LEMMA WeightTurns ==
  /\ Weight \in [0 .. 8 -> Nat \ {0}]
  /\ \A n \in 0 .. 8 :
       Weight[n] = IF n = 0 THEN 1 ELSE ByteValues * Weight[n - 1]
<1>. DEFINE D == Nat \ {0}
            next == [x \in D |-> ByteValues * x]
            IsWeight(g) == g = [n \in 0 .. 8 |->
                                  IF n = 0 THEN 1 ELSE ByteValues * g[n - 1]]
<1>1. ByteValues \in Nat /\ ByteValues # 0
  BY ByteAssumption
<1>2. next \in [D -> D] /\ 1 \in D
  <2>1. ASSUME NEW x \in D PROVE ByteValues * x \in D
    <3>1. 1 * x <= ByteValues * x /\ ByteValues * x \in Nat
      BY <1>1, ProductMonotone, ProductNat
    <3>. QED
      BY <3>1
  <2>. QED
    BY <2>1
<1>3. PICK g \in [0 .. 8 -> D] : Iterates(g, 8, 1, next)
  <2>. HIDE DEF D, next
  <2>. QED
    BY <1>2, IterationExists
<1>4. IsWeight(g)
  <2>1. ASSUME NEW n \in 0 .. 8
        PROVE  g[n] = IF n = 0 THEN 1 ELSE ByteValues * g[n - 1]
    BY <1>3 DEF Iterates
  <2>. QED
    BY <2>1
<1>5. IsWeight(Weight)
  BY <1>4 DEF Weight
<1>. DEFINE p == Weight
<1>6. \A n \in 0 .. 8 : p[n] = IF n = 0 THEN 1 ELSE ByteValues * p[n - 1]
  BY <1>5
<1>7. p = [n \in 0 .. 8 |-> p[n]]
  BY <1>5
<1>. HIDE DEF p
<1>8. p[0] \in D
  BY <1>6
<1>9. \A n \in 0 .. 8 - 1 : p[n] \in D => p[n + 1] \in D
  <2>1. ASSUME NEW n \in 0 .. 7, p[n] \in D PROVE p[n + 1] \in D
    <3>1. p[n + 1] = ByteValues * p[n]
      BY <1>6
    <3>. QED
      BY <1>2, <2>1, <3>1
  <2>. QED
    BY <2>1
<1>10. \A n \in 0 .. 8 : p[n] \in D
  <2>. HIDE DEF D
  <2>. QED
    BY <1>8, <1>9, LoopStays
<1>. QED
  BY <1>6, <1>7, <1>10 DEF p

(* To divide twice is to divide by the product. *)
LEMMA DivTwice ==
  ASSUME NEW v \in Nat, NEW a \in Nat \ {0}, NEW b \in Nat \ {0}
  PROVE  v \div (a * b) = (v \div a) \div b
<1>. DEFINE q == v \div a
            r == q \div b
<1>1. q \in Nat /\ a * q <= v /\ v < a * (q + 1)
  BY DivBounds
<1>. HIDE DEF q
<1>2. r \in Nat /\ b * r <= q /\ q < b * (r + 1)
  BY <1>1, DivBounds
<1>. HIDE DEF r
<1>3. a * b \in Nat \ {0}
  <2>1. 1 * b <= a * b
    BY ProductMonotone
  <2>. QED
    BY <2>1, ProductNat
<1>4. (a * b) * r <= v
  <2>1. b * r \in Nat /\ (b * r) * a <= q * a
    BY <1>1, <1>2, ProductMonotone, ProductNat
  <2>. QED
    BY <1>1, <2>1, <1>2
<1>5. v < (a * b) * (r + 1)
  <2>1. b * (r + 1) \in Nat /\ q + 1 <= b * (r + 1)
    BY <1>1, <1>2, ProductNat
  <2>2. (q + 1) * a <= (b * (r + 1)) * a
    BY <1>1, <2>1, ProductMonotone
  <2>3. a * (b * (r + 1)) = (a * b) * (r + 1)
    BY <1>2
  <2>. QED
    BY <1>1, <1>2, <2>1, <2>2, <2>3
<1>6. v \div (a * b) = r
  BY <1>2, <1>3, <1>4, <1>5, DivUnique
<1>. QED
  BY <1>6 DEF q, r

(* A sum up to a number is its last term and the sum up to the one before. *)
LEMMA SumUpTo ==
  ASSUME NEW n \in Nat, NEW f \in [1 .. n + 1 -> Nat]
  PROVE  /\ TotalOf(f) = f[n + 1] + TotalOf([i \in 1 .. n |-> f[i]])
         /\ TotalOf([i \in 1 .. n |-> f[i]]) \in Nat
<1>. DEFINE T == 1 .. n + 1
            S == 1 .. n
            h == [i \in S |-> f[i]]
<1>1. IsFiniteSet(S) /\ IsFiniteSet(T) /\ n + 1 \in T /\ S = T \ {n + 1} /\ S \subseteq T
  <2>1. IsFiniteSet(1 .. n) /\ IsFiniteSet(1 .. n + 1)
    BY FS_Interval
  <2>. QED
    BY <2>1
<1>2. h \in [S -> Nat] /\ DOMAIN h = S /\ DOMAIN f = T
  OBVIOUS
<1>3. \A x \in S : f[x] = h[x]
  OBVIOUS
<1>. HIDE DEF S, T, h
<1>4. /\ TotalOf(f) = PartialSums(f, T)[T]
      /\ TotalOf(h) = PartialSums(h, S)[S]
  BY <1>2, FoldIsSum
<1>5. PartialSums(f, T)[T] = f[n + 1] + PartialSums(f, T)[S]
  <2>1. f \in [T -> Nat]
    BY DEF T
  <2>2. \A s \in SUBSET T : \A a \in s :
          PartialSums(f, T)[s] = f[a] + PartialSums(f, T)[s \ {a}]
    BY <1>1, <2>1, SumsTakeOut, Zenon
  <2>3. T \in SUBSET T
    OBVIOUS
  <2>. QED
    BY <1>1, <2>2, <2>3
<1>6. PartialSums(f, T)[S] = PartialSums(h, S)[S]
  <2>1. Sums(PartialSums(f, T), f, T) /\ Sums(PartialSums(h, S), h, S)
    BY <1>1, SumsExist
  <2>. QED
    BY <1>1, <1>3, <2>1, SumsAgree
<1>7. PartialSums(h, S)[S] \in Nat
  BY <1>1, <1>2, SumsNat
<1>. QED
  BY <1>4, <1>5, <1>6, <1>7 DEF h, S

LEMMA EmptySum == ASSUME NEW f, DOMAIN f = {} PROVE TotalOf(f) = 0
<1>1. IsFiniteSet({})
  BY FS_EmptySet
<1>2. Sums(PartialSums(f, {}), f, {})
  BY <1>1, SumsExist
<1>3. PartialSums(f, {})[{}] = 0
  BY <1>2 DEF Sums
<1>. QED
  BY <1>3, FoldIsSum

(* The bytes of a number, weighed, add up to it but for what lies beyond   *)
(* the last of them.                                                       *)
LEMMA DigitsAddUp ==
  ASSUME NEW v \in Nat, NEW w \in 0 .. 8
  PROVE  TotalOf([i \in 1 .. w |->
                    ((v \div Weight[i - 1]) % ByteValues) * Weight[i - 1]])
           + Weight[w] * (v \div Weight[w]) = v
<1>. DEFINE D(i) == ((v \div Weight[i - 1]) % ByteValues) * Weight[i - 1]
            Sum(n) == TotalOf([i \in 1 .. n |-> D(i)])
            Beyond(n) == Weight[n] * (v \div Weight[n])
            Good == {n \in Nat : n <= 8 =>
                       Sum(n) \in Nat /\ Sum(n) + Beyond(n) = v}
<1>1. \A i \in 1 .. 8 : D(i) \in Nat
  <2>. SUFFICES ASSUME NEW i \in 1 .. 8 PROVE D(i) \in Nat
    OBVIOUS
  <2>1. Weight[i - 1] \in Nat \ {0} /\ ByteValues \in Nat \ {0}
    BY WeightTurns, ByteAssumption
  <2>2. v \div Weight[i - 1] \in Nat
    BY <2>1, DivBounds
  <2>3. (v \div Weight[i - 1]) % ByteValues \in Nat
    BY <2>1, <2>2
  <2>. QED
    BY <2>1, <2>3, ProductNat
<1>2. 0 \in Good
  <2>1. Sum(0) = 0
    <3>1. DOMAIN [i \in 1 .. 0 |-> D(i)] = {}
      OBVIOUS
    <3>. HIDE DEF D
    <3>. QED
      BY <3>1, EmptySum
  <2>2. Weight[0] = 1
    BY WeightTurns
  <2>. HIDE DEF Sum
  <2>. QED
    BY <2>1, <2>2
<1>3. ASSUME NEW n \in Nat, n \in Good PROVE n + 1 \in Good
  <2>. SUFFICES ASSUME n + 1 <= 8
                PROVE  Sum(n + 1) \in Nat /\ Sum(n + 1) + Beyond(n + 1) = v
    OBVIOUS
  <2>. DEFINE a == Weight[n]
              q == v \div a
              r == q \div ByteValues
              d == q % ByteValues
  <2>1. a \in Nat \ {0} /\ ByteValues \in Nat \ {0} /\ Weight[n + 1] = ByteValues * a
    BY WeightTurns, ByteAssumption
  <2>2. q \in Nat
    BY <2>1, DivBounds
  <2>3. v \div Weight[n + 1] = r
    <3>1. ByteValues * a = a * ByteValues
      BY <2>1
    <3>. QED
      BY <2>1, <3>1, DivTwice
  <2>4. q = ByteValues * r + d /\ r \in Nat /\ d \in Nat
    <3>. HIDE DEF q
    <3>. QED
      BY <2>1, <2>2
  <2>5. Sum(n + 1) = D(n + 1) + Sum(n)
    <3>. DEFINE f == [i \in 1 .. n + 1 |-> D(i)]
    <3>1. f \in [1 .. n + 1 -> Nat]
      BY <1>1
    <3>2. [i \in 1 .. n |-> f[i]] = [i \in 1 .. n |-> D(i)]
      <4>. HIDE DEF D
      <4>. QED OBVIOUS
    <3>. HIDE DEF f
    <3>3. TotalOf(f) = f[n + 1] + TotalOf([i \in 1 .. n |-> f[i]])
      BY <3>1, SumUpTo
    <3>4. f[n + 1] = D(n + 1) /\ Sum(n + 1) = TotalOf(f)
      <4>. HIDE DEF D
      <4>. QED BY DEF f
    <3>. HIDE DEF D
    <3>. QED
      BY <3>2, <3>3, <3>4
  <2>6. D(n + 1) = d * a
    OBVIOUS
  <2>7. Sum(n) \in Nat /\ Sum(n) + a * q = v
    BY <1>3
  <2>. HIDE DEF D, Sum, a, q, r, d
  <2>8. a * q = (ByteValues * a) * r + d * a
    BY <2>1, <2>2, <2>4
  <2>9. d * a \in Nat /\ (ByteValues * a) * r \in Nat
    BY <2>1, <2>4, ProductNat
  <2>10. Beyond(n + 1) = (ByteValues * a) * r
    BY <2>1, <2>3
  <2>. HIDE DEF Beyond
  <2>. QED
    BY <2>5, <2>6, <2>7, <2>8, <2>9, <2>10
<1>4. Nat \subseteq Good
  <2>. HIDE DEF Good
  <2>. QED
    BY <1>2, <1>3, NumbersByInduction
<1>. QED
  BY <1>4

(* h lists what stands before the end of each sequence once all are put    *)
(* one after the other, as FlattenSeq computes it.                         *)
Concats(h, seqs) ==
  h = [i \in 1 .. Len(seqs) |-> IF i = 1 THEN seqs[i] ELSE h[i - 1] \o seqs[i]]

JoinedUpTo(seqs) == CHOOSE h : Concats(h, seqs)

LEMMA ConcatPlaces ==
  ASSUME NEW B, NEW s \in Seq(B), NEW t \in Seq(B)
  PROVE  /\ \A i \in 1 .. Len(s) : (s \o t)[i] = s[i]
         /\ \A i \in 1 .. Len(t) : (s \o t)[Len(s) + i] = t[i]
<1>1. Len(s) \in Nat /\ Len(t) \in Nat
  BY LenProperties
<1>2. \A i \in 1 .. Len(s) + Len(t) :
        (s \o t)[i] = IF i <= Len(s) THEN s[i] ELSE t[i - Len(s)]
  BY ConcatProperties
<1>. QED
  BY <1>1, <1>2

LEMMA FlattenIsPrefix ==
  ASSUME NEW seqs, Len(seqs) # 0
  PROVE  FlattenSeq(seqs) = JoinedUpTo(seqs)[Len(seqs)]
  BY DEF FlattenSeq, JoinedUpTo, Concats

LEMMA JoinedUpToTurns ==
  ASSUME NEW B, NEW seqs \in Seq(Seq(B)), seqs # <<>>
  PROVE  \A n \in 1 .. Len(seqs) :
           /\ JoinedUpTo(seqs)[n] \in Seq(B)
           /\ JoinedUpTo(seqs)[n] = IF n = 1 THEN seqs[1]
                                  ELSE JoinedUpTo(seqs)[n - 1] \o seqs[n]
<1>. DEFINE L == Len(seqs)
            D == Nat \X Seq(B)
            first == <<1, seqs[1]>>
            next == [x \in D |->
                       <<x[1] + 1, IF x[1] + 1 \in 1 .. L THEN x[2] \o seqs[x[1] + 1]
                                   ELSE x[2]>>]
<1>1. L \in Nat /\ L >= 1 /\ \A i \in 1 .. L : seqs[i] \in Seq(B)
  BY EmptySeq, LenProperties, ElementOfSeq
<1>2. first \in D
  BY <1>1
<1>3. next \in [D -> D]
  <2>1. ASSUME NEW x \in D
        PROVE  <<x[1] + 1, IF x[1] + 1 \in 1 .. L THEN x[2] \o seqs[x[1] + 1]
                           ELSE x[2]>> \in D
    <3>1. x[1] + 1 \in Nat /\ x[2] \in Seq(B)
      OBVIOUS
    <3>2. ASSUME x[1] + 1 \in 1 .. L PROVE x[2] \o seqs[x[1] + 1] \in Seq(B)
      BY <1>1, <3>1, <3>2, ConcatProperties
    <3>. QED
      BY <3>1, <3>2
  <2>. QED
    BY <2>1
<1>4. PICK g \in [0 .. L - 1 -> D] : Iterates(g, L - 1, first, next)
  <2>1. L - 1 \in Nat
    BY <1>1
  <2>. HIDE DEF D, first, next, L
  <2>. QED
    BY <1>2, <1>3, <2>1, IterationExists
<1>5. /\ g[0] = first
      /\ \A n \in 1 .. L - 1 : g[n] = next[g[n - 1]] /\ g[n - 1] \in D
  <2>. HIDE DEF D, first, next, L
  <2>. QED
    BY <1>1, <1>4 DEF Iterates
<1>. DEFINE Good == {n \in Nat : n <= L - 1 => g[n][1] = n + 1}
<1>6. Nat \subseteq Good
  <2>1. 0 \in Good
    BY <1>5
  <2>2. ASSUME NEW n \in Nat, n \in Good PROVE n + 1 \in Good
    <3>. SUFFICES ASSUME n + 1 <= L - 1 PROVE g[n + 1][1] = (n + 1) + 1
      OBVIOUS
    <3>1. g[n + 1] = next[g[n]] /\ g[n] \in D
      <4>1. n + 1 \in 1 .. L - 1 /\ (n + 1) - 1 = n
        BY <1>1
      <4>. HIDE DEF D, next, L
      <4>. QED
        BY <1>5, <4>1
    <3>2. next[g[n]][1] = g[n][1] + 1
      BY <3>1
    <3>3. g[n][1] = n + 1
      BY <1>1, <2>2
    <3>. HIDE DEF next
    <3>. QED
      BY <3>1, <3>2, <3>3
  <2>. HIDE DEF Good
  <2>. QED
    BY <2>1, <2>2, NumbersByInduction
<1>. DEFINE h == [i \in 1 .. L |-> g[i - 1][2]]
<1>7. ASSUME NEW i \in 1 .. L
      PROVE  /\ h[i] \in Seq(B)
             /\ h[i] = IF i = 1 THEN seqs[i] ELSE h[i - 1] \o seqs[i]
  <2>1. h[i] \in Seq(B)
    <3>1. i - 1 \in 0 .. L - 1
      BY <1>1
    <3>. QED
      BY <1>4, <3>1
  <2>2. CASE i = 1
    BY <1>1, <1>5, <2>1, <2>2
  <2>3. CASE i # 1
    <3>. DEFINE k == i - 1
    <3>1. k \in 1 .. L - 1 /\ k - 1 \in Nat /\ k - 1 <= L - 1 /\ k + 1 = i
      BY <1>1, <2>3
    <3>2. g[k] = next[g[k - 1]] /\ g[k - 1] \in D
      <4>. HIDE DEF D, next, L, k
      <4>. QED BY <1>5, <3>1
    <3>3. g[k - 1][1] = k
      <4>1. k - 1 \in Good /\ (k - 1) + 1 = k
        <5>. HIDE DEF Good, k
        <5>. QED BY <1>6, <3>1
      <4>. QED
        BY <3>1, <4>1
    <3>4. next[g[k - 1]][2] = g[k - 1][2] \o seqs[i]
      <4>1. g[k - 1][1] + 1 = i /\ i \in 1 .. L
        BY <3>1, <3>3
      <4>. HIDE DEF k
      <4>. QED
        BY <3>2, <4>1
    <3>5. h[i] = g[k][2] /\ h[i - 1] = g[k - 1][2]
      BY <1>1, <2>3
    <3>. HIDE DEF h, next, k
    <3>. QED
      BY <2>1, <2>3, <3>2, <3>4, <3>5
  <2>. QED
    BY <2>2, <2>3
<1>8. Concats(h, seqs)
  <2>1. h = [i \in 1 .. L |-> h[i]]
    OBVIOUS
  <2>. HIDE DEF h
  <2>. QED
    BY <1>7, <2>1 DEF Concats
<1>9. Concats(JoinedUpTo(seqs), seqs)
  <2>. HIDE DEF h
  <2>. QED
    BY <1>8 DEF JoinedUpTo
<1>. DEFINE p == JoinedUpTo(seqs)
            Typed == {n \in Nat : n + 1 <= L => p[n + 1] \in Seq(B)}
<1>10. \A n \in 1 .. L : p[n] = IF n = 1 THEN seqs[n] ELSE p[n - 1] \o seqs[n]
  BY <1>9 DEF Concats
<1>. HIDE DEF p
<1>11. Nat \subseteq Typed
  <2>1. 0 \in Typed
    BY <1>1, <1>10
  <2>2. ASSUME NEW n \in Nat, n \in Typed PROVE n + 1 \in Typed
    <3>. DEFINE m == (n + 1) + 1
    <3>. SUFFICES ASSUME m <= L PROVE p[m] \in Seq(B)
      OBVIOUS
    <3>1. m \in 1 .. L /\ m # 1 /\ m - 1 = n + 1 /\ n + 1 <= L
      BY <1>1
    <3>2. p[n + 1] \in Seq(B)
      BY <2>2, <3>1
    <3>. HIDE DEF m
    <3>3. p[m] = p[n + 1] \o seqs[m] /\ seqs[m] \in Seq(B)
      BY <1>1, <1>10, <3>1
    <3>. QED
      BY <3>2, <3>3, ConcatProperties
  <2>. HIDE DEF Typed
  <2>. QED
    BY <2>1, <2>2, NumbersByInduction
<1>12. ASSUME NEW n \in 1 .. L
       PROVE  /\ p[n] \in Seq(B)
              /\ p[n] = IF n = 1 THEN seqs[1] ELSE p[n - 1] \o seqs[n]
  <2>1. n - 1 \in Nat /\ (n - 1) + 1 = n /\ n <= L /\ 1 \in 1 .. L
    BY <1>1
  <2>2. n - 1 \in Typed
    <3>. HIDE DEF Typed
    <3>. QED BY <1>11, <2>1
  <2>3. p[n] \in Seq(B)
    BY <2>1, <2>2
  <2>. HIDE DEF Typed, L
  <2>. QED
    BY <1>10, <2>3
<1>. QED
  BY <1>12 DEF p

(* Where the n-th sequence ends. *)
EndOf(seqs, n) == IF n = 0 THEN 0 ELSE Len(JoinedUpTo(seqs)[n])

LEMMA EndsAdd ==
  ASSUME NEW B, NEW seqs \in Seq(Seq(B)), seqs # <<>>
  PROVE  /\ EndOf(seqs, 0) = 0
         /\ \A n \in 1 .. Len(seqs) :
              /\ EndOf(seqs, n - 1) \in Nat /\ EndOf(seqs, n) \in Nat
              /\ Len(seqs[n]) \in Nat
              /\ EndOf(seqs, n) = EndOf(seqs, n - 1) + Len(seqs[n])
<1>. DEFINE p == JoinedUpTo(seqs)
            L == Len(seqs)
<1>1. L \in Nat /\ \A n \in 1 .. L : seqs[n] \in Seq(B)
  BY LenProperties, ElementOfSeq
<1>2. \A n \in 1 .. L :
        /\ p[n] \in Seq(B)
        /\ p[n] = IF n = 1 THEN seqs[1] ELSE p[n - 1] \o seqs[n]
  BY JoinedUpToTurns
<1>. HIDE DEF p, L
<1>3. EndOf(seqs, 0) = 0 /\ \A n \in 1 .. L : EndOf(seqs, n) = Len(p[n])
  BY <1>1 DEF EndOf, p
<1>4. ASSUME NEW n \in 1 .. L
      PROVE  /\ EndOf(seqs, n - 1) \in Nat /\ EndOf(seqs, n) \in Nat
             /\ Len(seqs[n]) \in Nat
             /\ EndOf(seqs, n) = EndOf(seqs, n - 1) + Len(seqs[n])
  <2>1. Len(seqs[n]) \in Nat /\ Len(p[n]) \in Nat
    BY <1>1, <1>2, LenProperties
  <2>2. CASE n = 1
    BY <1>2, <1>3, <2>1, <2>2
  <2>3. CASE n # 1
    <3>1. n - 1 \in 1 .. L
      BY <1>1, <2>3
    <3>2. p[n - 1] \in Seq(B) /\ p[n] = p[n - 1] \o seqs[n]
      BY <1>2, <2>3, <3>1
    <3>3. Len(p[n - 1]) \in Nat /\ Len(p[n]) = Len(p[n - 1]) + Len(seqs[n])
      BY <1>1, <3>2, LenProperties, ConcatProperties
    <3>. QED
      BY <1>3, <2>1, <3>1, <3>3
  <2>. QED
    BY <2>2, <2>3
<1>. QED
  BY <1>3, <1>4 DEF L

(* What a sequence holds stands in the flattened one after the end of the  *)
(* sequence before it.                                                     *)
LEMMA FlattenPlaces ==
  ASSUME NEW B, NEW seqs \in Seq(Seq(B)), seqs # <<>>,
         NEW k \in 1 .. Len(seqs), NEW i \in 1 .. Len(seqs[k])
  PROVE  FlattenSeq(seqs)[EndOf(seqs, k - 1) + i] = seqs[k][i]
<1>. DEFINE p == JoinedUpTo(seqs)
            L == Len(seqs)
            at == EndOf(seqs, k - 1) + i
            Good == {n \in Nat : k + n <= L =>
                       at <= EndOf(seqs, k + n) /\ p[k + n][at] = seqs[k][i]}
<1>1. L \in Nat /\ \A n \in 1 .. L : seqs[n] \in Seq(B)
  BY LenProperties, ElementOfSeq
<1>2. \A n \in 1 .. L :
        /\ p[n] \in Seq(B)
        /\ p[n] = IF n = 1 THEN seqs[1] ELSE p[n - 1] \o seqs[n]
  BY JoinedUpToTurns
<1>3. /\ EndOf(seqs, 0) = 0
      /\ \A n \in 1 .. L :
           /\ EndOf(seqs, n - 1) \in Nat /\ EndOf(seqs, n) \in Nat
           /\ Len(seqs[n]) \in Nat
           /\ EndOf(seqs, n) = EndOf(seqs, n - 1) + Len(seqs[n])
  BY EndsAdd
<1>4. \A n \in 1 .. L : EndOf(seqs, n) = Len(p[n])
  BY <1>1 DEF EndOf
<1>. HIDE DEF p, L
<1>5. k \in 1 .. L /\ at \in Nat /\ at >= 1 /\ i \in 1 .. Len(seqs[k])
  BY <1>3 DEF L
<1>6. at <= EndOf(seqs, k)
  BY <1>3, <1>5
<1>7. p[k][at] = seqs[k][i]
  <2>1. CASE k = 1
    BY <1>2, <1>3, <1>5, <2>1
  <2>2. CASE k # 1
    <3>1. k - 1 \in 1 .. L
      BY <1>1, <1>5, <2>2
    <3>2. /\ p[k - 1] \in Seq(B) /\ seqs[k] \in Seq(B)
          /\ p[k] = p[k - 1] \o seqs[k] /\ Len(p[k - 1]) = EndOf(seqs, k - 1)
      BY <1>1, <1>2, <1>4, <1>5, <2>2, <3>1
    <3>3. at = Len(p[k - 1]) + i /\ Len(p[k - 1]) \in Nat
      BY <3>2, LenProperties
    <3>. HIDE DEF at
    <3>. QED
      <4>. DEFINE s == p[k - 1]
                  t == seqs[k]
      <4>1. s \in Seq(B) /\ t \in Seq(B) /\ p[k] = s \o t /\ i \in 1 .. Len(t)
            /\ at = Len(s) + i
        BY <1>5, <3>2, <3>3
      <4>. HIDE DEF s, t
      <4>2. (s \o t)[Len(s) + i] = t[i]
        BY <4>1, ConcatPlaces
      <4>. QED
        BY <4>1, <4>2 DEF t
  <2>. QED
    BY <2>1, <2>2
<1>. HIDE DEF at
<1>8. 0 \in Good
  BY <1>5, <1>6, <1>7
<1>9. ASSUME NEW n \in Nat, n \in Good PROVE n + 1 \in Good
  <2>. DEFINE m == k + n
  <2>. SUFFICES ASSUME m + 1 <= L
                PROVE  at <= EndOf(seqs, m + 1) /\ p[m + 1][at] = seqs[k][i]
    <3>1. k + (n + 1) = m + 1
      BY <1>5
    <3>. HIDE DEF m
    <3>. QED BY <3>1
  <2>1. m \in 1 .. L /\ m + 1 \in 1 .. L /\ m + 1 # 1 /\ (m + 1) - 1 = m
    BY <1>1, <1>5
  <2>2. at <= EndOf(seqs, m) /\ p[m][at] = seqs[k][i]
    BY <1>9, <2>1
  <2>. HIDE DEF m
  <2>3. /\ p[m] \in Seq(B) /\ seqs[m + 1] \in Seq(B)
        /\ p[m + 1] = p[m] \o seqs[m + 1] /\ EndOf(seqs, m) = Len(p[m])
    BY <1>1, <1>2, <1>4, <2>1
  <2>4. /\ EndOf(seqs, m) \in Nat /\ Len(seqs[m + 1]) \in Nat
        /\ EndOf(seqs, m + 1) = EndOf(seqs, m) + Len(seqs[m + 1])
    BY <1>3, <2>1
  <2>5. p[m + 1][at] = p[m][at]
    <3>1. at \in 1 .. Len(p[m])
      BY <1>5, <2>2, <2>3, <2>4
    <3>2. \A x \in 1 .. Len(p[m]) : (p[m] \o seqs[m + 1])[x] = p[m][x]
      BY <2>3, ConcatPlaces
    <3>. QED
      BY <2>3, <3>1, <3>2
  <2>. QED
    BY <1>5, <2>2, <2>4, <2>5
<1>10. Nat \subseteq Good
  <2>. HIDE DEF Good
  <2>. QED
    BY <1>8, <1>9, NumbersByInduction
<1>11. p[L][at] = seqs[k][i]
  <2>1. L - k \in Nat /\ k + (L - k) = L
    BY <1>1, <1>5
  <2>. QED
    BY <1>10, <2>1
<1>12. FlattenSeq(seqs) = p[L]
  <2>1. Len(seqs) # 0
    BY <1>1, <1>5 DEF L
  <2>. QED
    BY <2>1, FlattenIsPrefix DEF p, L
<1>. QED
  BY <1>11, <1>12 DEF at

-----------------------------------------------------------------------------
(* The fields, where the writer puts them. *)

FieldNames ==
  {"discriminator", "schema_version", "mode", "paused", "authority_bump",
   "header_padding", "aging_start_slots", "protected_start_slots",
   "expire_slots", "max_trade_base_atoms", "protected_max_trade_base_atoms",
   "fee_bps", "base_half_spread_bps", "aging_surcharge_bps_per_slot",
   "max_aging_surcharge_bps", "inventory_skew_bps_per_10k_imbalance",
   "max_inventory_skew_bps", "hard_inventory_band_bps", "params_padding",
   "max_maker_update_period_slots", "max_landing_latency_slots",
   "min_update_success_probability_bps", "same_slot_order", "envelope_padding",
   "required_swap_account_metas", "max_swap_account_metas",
   "decimal_scale_domain", "base_mint", "quote_mint", "base_token_program",
   "quote_token_program", "base_decimals", "quote_decimals", "price_domain",
   "reserved", "trailing_padding"}

FieldSet == [name : FieldNames, width : Nat]

LEMMA BlocksAre ==
  /\ HeaderFields \in Seq(FieldSet) /\ Len(HeaderFields) = 5
  /\ ParamsFields \in Seq(FieldSet) /\ Len(ParamsFields) = 13
  /\ EnvelopeFields \in Seq(FieldSet) /\ Len(EnvelopeFields) = 5
  /\ BudgetFields \in Seq(FieldSet)
  /\ PreimageFields \in Seq(FieldSet)
<1>0. \A name \in FieldNames, width \in Nat : Field(name, width) \in FieldSet
  BY DEF Field, FieldSet
<1>. HIDE DEF FieldSet
<1>1. HeaderFields \in Seq(FieldSet) /\ Len(HeaderFields) = 5
  BY <1>0 DEF HeaderFields, FieldNames
<1>2. ParamsFields \in Seq(FieldSet) /\ Len(ParamsFields) = 13
  BY <1>0 DEF ParamsFields, FieldNames
<1>3. EnvelopeFields \in Seq(FieldSet) /\ Len(EnvelopeFields) = 5
  BY <1>0 DEF EnvelopeFields, FieldNames
<1>4. BudgetFields \in Seq(FieldSet)
  BY <1>0 DEF BudgetFields, FieldNames
<1>5. PreimageFields \in Seq(FieldSet)
  BY <1>0 DEF PreimageFields, FieldNames
<1>. QED
  BY <1>1, <1>2, <1>3, <1>4, <1>5

(* u is s followed by t, of n and k fields. *)
Joined(u, s, t, n, k) ==
  /\ u \in Seq(FieldSet) /\ Len(u) = n + k
  /\ \A i \in 1 .. n : u[i] = s[i]
  /\ \A i \in 1 .. k : u[n + i] = t[i]

LEMMA ConcatJoins ==
  ASSUME NEW s \in Seq(FieldSet), NEW t \in Seq(FieldSet)
  PROVE  /\ Joined(s \o t, s, t, Len(s), Len(t))
         /\ Len(s) \in Nat /\ Len(t) \in Nat
<1>1. /\ \A i \in 1 .. Len(s) : (s \o t)[i] = s[i]
      /\ \A i \in 1 .. Len(t) : (s \o t)[Len(s) + i] = t[i]
  BY ConcatPlaces
<1>2. s \o t \in Seq(FieldSet) /\ Len(s \o t) = Len(s) + Len(t)
  BY ConcatProperties
<1>3. Len(s) \in Nat /\ Len(t) \in Nat
  BY LenProperties
<1>. QED
  BY <1>1, <1>2, <1>3 DEF Joined

(* The first 24 fields of s are those of t. *)
SameStart(s, t) ==
  s \in Seq(FieldSet) /\ Len(s) >= 24 /\ \A i \in 1 .. 24 : s[i] = t[i]

LEMMA StartStays ==
  ASSUME NEW r, NEW s, NEW t \in Seq(FieldSet), SameStart(s, r)
  PROVE  SameStart(s \o t, r)
<1>. DEFINE n == Len(s)
            k == Len(t)
            u == s \o t
<1>1. /\ s \in Seq(FieldSet) /\ n >= 24
      /\ \A i \in 1 .. 24 : s[i] = r[i]
  BY DEF SameStart
<1>2. Joined(u, s, t, n, k) /\ n \in Nat /\ k \in Nat
  BY <1>1, ConcatJoins
<1>. HIDE DEF n, k, u
<1>3. u \in Seq(FieldSet) /\ Len(u) = n + k /\ \A i \in 1 .. n : u[i] = s[i]
  BY <1>2 DEF Joined
<1>4. ASSUME NEW i \in 1 .. 24 PROVE u[i] = r[i]
  <2>1. n >= 24 /\ n \in Nat
    BY <1>1, <1>2
  <2>2. i \in 1 .. n
    BY <2>1
  <2>. QED
    BY <1>1, <1>3, <2>2
<1>. QED
  <2>1. SameStart(u, r)
    BY <1>1, <1>2, <1>3, <1>4 DEF SameStart
  <2>. QED
    BY <2>1 DEF u

(* The header, the parameters and the envelope stand after the             *)
(* discriminator in that order.                                            *)
LEMMA WriterOrder ==
  /\ WriterFields \in Seq(FieldSet) /\ Len(WriterFields) >= 24
  /\ WriterFields[1].width = 8
  /\ \A m \in 1 .. 5 : WriterFields[1 + m] = HeaderFields[m]
  /\ \A m \in 1 .. 13 : WriterFields[6 + m] = ParamsFields[m]
  /\ \A m \in 1 .. 5 : WriterFields[19 + m] = EnvelopeFields[m]
<1>. DEFINE start == << Field("discriminator", 8) >>
            keys == << Field("base_mint", 32), Field("quote_mint", 32),
                       Field("base_token_program", 32),
                       Field("quote_token_program", 32) >>
            end == << Field("reserved", 64), Field("trailing_padding", 2) >>
            s1 == start \o HeaderFields
            s2 == s1 \o ParamsFields
            s3 == s2 \o EnvelopeFields
            s4 == s3 \o BudgetFields
            s5 == s4 \o keys
            s6 == s5 \o PreimageFields
<1>0. \A name \in FieldNames, width \in Nat : Field(name, width) \in FieldSet
  BY DEF Field, FieldSet
<1>1. /\ start \in Seq(FieldSet) /\ Len(start) = 1 /\ start[1].width = 8
      /\ keys \in Seq(FieldSet) /\ end \in Seq(FieldSet)
  <2>. HIDE DEF FieldSet
  <2>1. start \in Seq(FieldSet) /\ Len(start) = 1 /\ start[1] = Field("discriminator", 8)
    BY <1>0 DEF FieldNames
  <2>2. keys \in Seq(FieldSet)
    BY <1>0 DEF FieldNames
  <2>3. end \in Seq(FieldSet)
    BY <1>0 DEF FieldNames
  <2>. QED
    BY <2>1, <2>2, <2>3 DEF Field
<1>2. WriterFields = s6 \o end
  BY DEF WriterFields
<1>. HIDE DEF start, keys, end
<1>3. /\ s1 \in Seq(FieldSet) /\ Len(s1) = 6 /\ s1[1] = start[1]
      /\ \A m \in 1 .. 5 : s1[1 + m] = HeaderFields[m]
  <2>1. Joined(s1, start, HeaderFields, 1, 5)
    BY <1>1, ConcatJoins, BlocksAre
  <2>. HIDE DEF s1
  <2>. QED
    BY <2>1 DEF Joined
<1>. HIDE DEF s1
<1>4. /\ s2 \in Seq(FieldSet) /\ Len(s2) = 19
      /\ \A i \in 1 .. 6 : s2[i] = s1[i]
      /\ \A m \in 1 .. 13 : s2[6 + m] = ParamsFields[m]
  <2>1. Joined(s2, s1, ParamsFields, 6, 13)
    BY <1>3, ConcatJoins, BlocksAre
  <2>. HIDE DEF s2
  <2>. QED
    BY <2>1 DEF Joined
<1>. HIDE DEF s2
<1>5. /\ s3 \in Seq(FieldSet) /\ Len(s3) = 24
      /\ \A i \in 1 .. 19 : s3[i] = s2[i]
      /\ \A m \in 1 .. 5 : s3[19 + m] = EnvelopeFields[m]
  <2>1. Joined(s3, s2, EnvelopeFields, 19, 5)
    BY <1>4, ConcatJoins, BlocksAre
  <2>. HIDE DEF s3
  <2>. QED
    BY <2>1 DEF Joined
<1>. HIDE DEF s3
<1>7. SameStart(s3, s3)
  BY <1>5 DEF SameStart
<1>8. WriterFields = (((s3 \o BudgetFields) \o keys) \o PreimageFields) \o end
  BY <1>2
<1>9. SameStart(WriterFields, s3)
  BY <1>1, <1>7, <1>8, BlocksAre, StartStays
<1>10. /\ WriterFields \in Seq(FieldSet) /\ Len(WriterFields) >= 24
       /\ \A i \in 1 .. 24 : WriterFields[i] = s3[i]
  BY <1>9 DEF SameStart
<1>11. \A i \in 1 .. 19 : WriterFields[i] = s2[i]
  <2>1. ASSUME NEW i \in 1 .. 19 PROVE WriterFields[i] = s2[i]
    <3>1. i \in 1 .. 24
      OBVIOUS
    <3>. QED
      BY <1>5, <1>10, <3>1
  <2>. QED
    BY <2>1
<1>12. \A i \in 1 .. 6 : WriterFields[i] = s1[i]
  BY <1>4, <1>11
<1>13. WriterFields[1].width = 8
  BY <1>1, <1>3, <1>12
<1>14. \A m \in 1 .. 5 : WriterFields[1 + m] = HeaderFields[m]
  BY <1>3, <1>12
<1>15. \A m \in 1 .. 13 : WriterFields[6 + m] = ParamsFields[m]
  BY <1>4, <1>11
<1>16. \A m \in 1 .. 5 : WriterFields[19 + m] = EnvelopeFields[m]
  <2>1. ASSUME NEW m \in 1 .. 5 PROVE WriterFields[19 + m] = EnvelopeFields[m]
    <3>1. 19 + m \in 1 .. 24
      OBVIOUS
    <3>. QED
      BY <1>5, <1>10, <3>1
  <2>. QED
    BY <2>1
<1>. QED
  BY <1>10, <1>13, <1>14, <1>15, <1>16

(* Where the fields of a list start. *)
LEMMA NextStart ==
  ASSUME NEW fields \in Seq(FieldSet)
  PROVE  /\ WidthBefore(fields, 1) = 0
         /\ \A k \in 1 .. Len(fields) :
              /\ WidthBefore(fields, k) \in Nat
              /\ fields[k].width \in Nat
              /\ WidthBefore(fields, k + 1) = WidthBefore(fields, k) + fields[k].width
<1>1. Len(fields) \in Nat /\ \A k \in 1 .. Len(fields) : fields[k] \in FieldSet
  BY LenProperties, ElementOfSeq
<1>2. \A k \in 1 .. Len(fields) : fields[k].width \in Nat
  BY <1>1 DEF FieldSet
<1>3. WidthBefore(fields, 1) = 0
  <2>. DEFINE f == [m \in 1 .. 1 - 1 |-> fields[m].width]
  <2>1. DOMAIN f = {}
    OBVIOUS
  <2>2. WidthBefore(fields, 1) = TotalOf(f)
    BY DEF WidthBefore, TotalOf
  <2>. HIDE DEF f
  <2>. QED
    BY <2>1, <2>2, EmptySum
<1>4. ASSUME NEW k \in 1 .. Len(fields)
      PROVE  /\ WidthBefore(fields, k) \in Nat
             /\ WidthBefore(fields, k + 1) = WidthBefore(fields, k) + fields[k].width
  <2>. DEFINE n == k - 1
              f == [m \in 1 .. n + 1 |-> fields[m].width]
              g == [m \in 1 .. n |-> fields[m].width]
  <2>1. n \in Nat /\ n + 1 = k /\ (k + 1) - 1 = n + 1 /\ n + 1 <= Len(fields)
    BY <1>1
  <2>2. WidthBefore(fields, k + 1) = TotalOf(f)
    <3>1. [m \in 1 .. (k + 1) - 1 |-> fields[m].width] = f
      BY <2>1
    <3>. QED
      BY <3>1 DEF WidthBefore, TotalOf
  <2>3. WidthBefore(fields, k) = TotalOf(g)
    BY DEF WidthBefore, TotalOf
  <2>4. f[n + 1] = fields[k].width
    BY <2>1
  <2>5. [m \in 1 .. n |-> f[m]] = g
    BY <2>1
  <2>6. f \in [1 .. n + 1 -> Nat]
    BY <1>1, <1>2, <2>1
  <2>. HIDE DEF n, f, g
  <2>7. TotalOf(f) = f[n + 1] + TotalOf(g) /\ TotalOf(g) \in Nat
    BY <2>1, <2>5, <2>6, SumUpTo
  <2>. QED
    BY <1>2, <2>2, <2>3, <2>4, <2>7
<1>. QED
  BY <1>2, <1>3, <1>4

LEMMA FunctionIsSeq ==
  ASSUME NEW S, NEW n \in Nat, NEW f \in [1 .. n -> S]
  PROVE  f \in Seq(S) /\ Len(f) = n
  OBVIOUS

(* What is written for one field. *)
LEMMA PutDomain ==
  ASSUME NEW config, NEW field \in FieldSet
  PROVE  /\ DOMAIN Put(config, field) = 1 .. field.width
         /\ Put(config, field) = [i \in 1 .. field.width |-> Put(config, field)[i]]
<1>1. CASE field.name \in DOMAIN config
  <2>1. Put(config, field) = PutNumber(config[field.name], field.width)
    BY <1>1 DEF Put
  <2>. QED
    BY <2>1 DEF PutNumber
<1>2. CASE field.name \notin DOMAIN config
  <2>1. Put(config, field) = [i \in 1 .. field.width |-> field.name]
    BY <1>2 DEF Put
  <2>. QED
    BY <2>1
<1>. QED
  BY <1>1, <1>2

(* The writer puts every field where the widths before it say. *)
LEMMA WrittenAt ==
  ASSUME NEW config, NEW k \in 1 .. Len(WriterFields),
         NEW i \in 1 .. WriterFields[k].width
  PROVE  ToBytes(config)[WidthBefore(WriterFields, k) + i]
           = Put(config, WriterFields[k])[i]
<1>. DEFINE L == Len(WriterFields)
            blocks == [m \in 1 .. L |-> Put(config, WriterFields[m])]
            B == UNION {{Put(config, WriterFields[m])[j] :
                           j \in 1 .. WriterFields[m].width} : m \in 1 .. L}
<1>1. /\ WriterFields \in Seq(FieldSet) /\ L \in Nat /\ L >= 24
      /\ \A m \in 1 .. L : WriterFields[m] \in FieldSet /\ WriterFields[m].width \in Nat
  <2>1. WriterFields \in Seq(FieldSet) /\ L \in Nat /\ L >= 24
    BY WriterOrder, LenProperties
  <2>2. \A m \in 1 .. L : WriterFields[m] \in FieldSet
    BY <2>1, ElementOfSeq
  <2>. QED
    BY <2>1, <2>2 DEF FieldSet
<1>. HIDE DEF L
<1>2. ASSUME NEW m \in 1 .. L
      PROVE  blocks[m] \in Seq(B) /\ Len(blocks[m]) = WriterFields[m].width
  <2>. DEFINE f == Put(config, WriterFields[m])
              w == WriterFields[m].width
  <2>1. f = [j \in 1 .. w |-> f[j]] /\ w \in Nat
    BY <1>1, PutDomain
  <2>2. \A j \in 1 .. w : f[j] \in B
    OBVIOUS
  <2>3. blocks[m] = f
    OBVIOUS
  <2>. HIDE DEF f, w, B, blocks
  <2>4. f \in [1 .. w -> B]
    BY <2>1, <2>2
  <2>. QED
    BY <2>1, <2>3, <2>4, FunctionIsSeq DEF w
<1>3. blocks \in Seq(Seq(B)) /\ Len(blocks) = L /\ blocks # <<>>
  <2>1. blocks \in [1 .. L -> Seq(B)]
    <3>1. blocks = [m \in 1 .. L |-> blocks[m]]
      OBVIOUS
    <3>. HIDE DEF blocks, B
    <3>. QED
      BY <1>2, <3>1
  <2>. HIDE DEF blocks, B
  <2>2. blocks \in Seq(Seq(B)) /\ Len(blocks) = L
    BY <1>1, <2>1, FunctionIsSeq
  <2>. QED
    BY <1>1, <2>2, EmptySeq
<1>4. ToBytes(config) = FlattenSeq(blocks)
  BY DEF ToBytes, L
<1>5. blocks[k] = Put(config, WriterFields[k]) /\ k \in 1 .. L
  BY DEF L
<1>. HIDE DEF blocks, B
<1>6. /\ EndOf(blocks, 0) = 0
      /\ \A n \in 1 .. L :
           EndOf(blocks, n) = EndOf(blocks, n - 1) + WriterFields[n].width
  BY <1>2, <1>3, EndsAdd
<1>7. /\ WidthBefore(WriterFields, 1) = 0
      /\ \A n \in 1 .. L :
           WidthBefore(WriterFields, n + 1)
             = WidthBefore(WriterFields, n) + WriterFields[n].width
  BY <1>1, NextStart DEF L
<1>. DEFINE Good == {n \in Nat : n <= L =>
                       EndOf(blocks, n) = WidthBefore(WriterFields, n + 1)}
<1>8. 0 \in Good
  BY <1>6, <1>7
<1>9. ASSUME NEW n \in Nat, n \in Good PROVE n + 1 \in Good
  <2>. SUFFICES ASSUME n + 1 <= L
                PROVE  EndOf(blocks, n + 1) = WidthBefore(WriterFields, (n + 1) + 1)
    OBVIOUS
  <2>1. /\ n + 1 \in 1 .. L /\ (n + 1) - 1 = n
        /\ EndOf(blocks, n) = WidthBefore(WriterFields, n + 1)
    BY <1>1, <1>9
  <2>. QED
    BY <1>6, <1>7, <2>1
<1>10. Nat \subseteq Good
  <2>. HIDE DEF Good
  <2>. QED
    BY <1>8, <1>9, NumbersByInduction
<1>11. EndOf(blocks, k - 1) = WidthBefore(WriterFields, k)
  <2>1. k - 1 \in Nat /\ k - 1 <= L /\ (k - 1) + 1 = k
    BY <1>1, <1>5
  <2>. QED
    BY <1>10, <2>1
<1>12. FlattenSeq(blocks)[EndOf(blocks, k - 1) + i] = blocks[k][i]
  <2>1. i \in 1 .. Len(blocks[k]) /\ k \in 1 .. Len(blocks)
    BY <1>2, <1>3, <1>5
  <2>. QED
    BY <1>3, <2>1, FlattenPlaces
<1>. QED
  BY <1>4, <1>5, <1>11, <1>12

ParamNames ==
  {"aging_start_slots", "protected_start_slots", "expire_slots",
   "max_trade_base_atoms", "protected_max_trade_base_atoms", "fee_bps",
   "base_half_spread_bps", "aging_surcharge_bps_per_slot",
   "max_aging_surcharge_bps", "inventory_skew_bps_per_10k_imbalance",
   "max_inventory_skew_bps", "hard_inventory_band_bps"}

(* The reader takes the parameters in the order they are written, each    *)
(* once and with the width of its field.                                   *)
LEMMA ReaderTakesParams ==
  /\ ReaderOrder \in Seq(FieldSet) /\ Len(ReaderOrder) = 12
  /\ DOMAIN ReaderOrder = 1 .. 12
  /\ \A m \in 1 .. 12 : ReaderOrder[m] = ParamsFields[m]
  /\ \A m \in 1 .. 12 : ReaderOrder[m].width \in {2, 8}
  /\ \A m, n \in 1 .. 12 : ReaderOrder[m].name = ReaderOrder[n].name => m = n
  /\ {ReaderOrder[n].name : n \in 1 .. 12} = ParamNames
<1>0. \A name \in FieldNames, width \in Nat : Field(name, width) \in FieldSet
  BY DEF Field, FieldSet
<1>. HIDE DEF FieldSet
<1>1. /\ ReaderOrder \in Seq(FieldSet) /\ Len(ReaderOrder) = 12
      /\ DOMAIN ReaderOrder = 1 .. 12
  BY <1>0 DEF ReaderOrder, FieldNames
<1>2. ASSUME NEW m \in 1 .. 12 PROVE ReaderOrder[m] = ParamsFields[m]
  BY DEF ReaderOrder, ParamsFields
<1>3. ASSUME NEW m \in 1 .. 12 PROVE ReaderOrder[m].width \in {2, 8}
  BY DEF ReaderOrder, Field
<1>4. ASSUME NEW m \in 1 .. 12, NEW n \in 1 .. 12,
             ReaderOrder[m].name = ReaderOrder[n].name
      PROVE  m = n
  BY <1>4 DEF ReaderOrder, Field
<1>5. {ReaderOrder[n].name : n \in 1 .. 12} = ParamNames
  BY DEF ReaderOrder, Field, ParamNames
<1>. QED
  BY <1>1, <1>2, <1>3, <1>4, <1>5

(* The parameters stand where the reader looks for them, and so does the   *)
(* same-slot order.                                                        *)
LEMMA OffsetsMatch ==
  /\ \A m \in 1 .. 12 :
       WidthBefore(WriterFields, 6 + m) = ParamsOffset + WidthBefore(ReaderOrder, m)
  /\ WidthBefore(WriterFields, 23) = SameSlotOrderOffset
  /\ WriterFields[23] = Field("same_slot_order", 1)
<1>. DEFINE W(k) == WidthBefore(WriterFields, k)
            R(m) == WidthBefore(ReaderOrder, m)
<1>1. /\ W(1) = 0
      /\ \A k \in 1 .. 24 :
           W(k) \in Nat /\ W(k + 1) = W(k) + WriterFields[k].width
  <2>1. WriterFields \in Seq(FieldSet) /\ Len(WriterFields) >= 24
    BY WriterOrder
  <2>2. Len(WriterFields) \in Nat
    BY <2>1, LenProperties
  <2>3. \A k \in 1 .. 24 : k \in 1 .. Len(WriterFields)
    BY <2>1, <2>2
  <2>. QED
    BY <2>1, <2>3, NextStart
<1>2. /\ R(1) = 0
      /\ \A m \in 1 .. 12 :
           R(m) \in Nat /\ R(m + 1) = R(m) + ReaderOrder[m].width
  BY ReaderTakesParams, NextStart
<1>. HIDE DEF W, R
<1>3. W(7) = 16
  <2>1. /\ W(2) = W(1) + WriterFields[1].width
        /\ W(3) = W(2) + WriterFields[2].width
        /\ W(4) = W(3) + WriterFields[3].width
        /\ W(5) = W(4) + WriterFields[4].width
        /\ W(6) = W(5) + WriterFields[5].width
        /\ W(7) = W(6) + WriterFields[6].width
    BY <1>1
  <2>2. /\ WriterFields[2] = HeaderFields[1] /\ WriterFields[3] = HeaderFields[2]
        /\ WriterFields[4] = HeaderFields[3] /\ WriterFields[5] = HeaderFields[4]
        /\ WriterFields[6] = HeaderFields[5]
    BY WriterOrder
  <2>3. /\ HeaderFields[1].width = 2 /\ HeaderFields[2].width = 1
        /\ HeaderFields[3].width = 1 /\ HeaderFields[4].width = 1
        /\ HeaderFields[5].width = 3
    BY DEF HeaderFields, Field
  <2>4. WriterFields[1].width = 8
    BY WriterOrder
  <2>. QED
    BY <1>1, <2>1, <2>2, <2>3, <2>4
<1>. DEFINE Good == {n \in Nat : n <= 12 => W(7 + n) = 16 + R(1 + n)}
<1>4. 0 \in Good
  BY <1>2, <1>3
<1>5. ASSUME NEW n \in Nat, n \in Good PROVE n + 1 \in Good
  <2>. SUFFICES ASSUME n + 1 <= 12
                PROVE  W(7 + (n + 1)) = 16 + R(1 + (n + 1))
    OBVIOUS
  <2>. DEFINE m == n + 1
  <2>1. m \in 1 .. 12 /\ 7 + (n + 1) = (6 + m) + 1 /\ 1 + (n + 1) = m + 1
        /\ 7 + n = 6 + m /\ 1 + n = m /\ 6 + m \in 1 .. 24
    OBVIOUS
  <2>2. W(6 + m) = 16 + R(m)
    BY <1>5, <2>1
  <2>3. WriterFields[6 + m].width = ReaderOrder[m].width
    <3>1. m \in 1 .. 13
      OBVIOUS
    <3>. QED
      BY <2>1, <3>1, WriterOrder, ReaderTakesParams
  <2>4. W((6 + m) + 1) = W(6 + m) + WriterFields[6 + m].width
    BY <1>1, <2>1
  <2>5. R(m + 1) = R(m) + ReaderOrder[m].width /\ R(m) \in Nat
    BY <1>2, <2>1
  <2>6. ReaderOrder[m].width \in Nat
    BY <2>1, ReaderTakesParams
  <2>. HIDE DEF m
  <2>. QED
    BY <2>1, <2>2, <2>3, <2>4, <2>5, <2>6
<1>6. Nat \subseteq Good
  <2>. HIDE DEF Good
  <2>. QED
    BY <1>4, <1>5, NumbersByInduction
<1>7. \A m \in 1 .. 13 : W(6 + m) = 16 + R(m)
  <2>1. ASSUME NEW m \in 1 .. 13 PROVE W(6 + m) = 16 + R(m)
    <3>1. m - 1 \in Nat /\ m - 1 <= 12 /\ 7 + (m - 1) = 6 + m /\ 1 + (m - 1) = m
      OBVIOUS
    <3>. QED
      BY <1>6, <3>1
  <2>. QED
    BY <2>1
<1>8. R(13) = 54
  <2>1. /\ R(2) = R(1) + ReaderOrder[1].width
        /\ R(3) = R(2) + ReaderOrder[2].width
        /\ R(4) = R(3) + ReaderOrder[3].width
        /\ R(5) = R(4) + ReaderOrder[4].width
        /\ R(6) = R(5) + ReaderOrder[5].width
        /\ R(7) = R(6) + ReaderOrder[6].width
        /\ R(8) = R(7) + ReaderOrder[7].width
        /\ R(9) = R(8) + ReaderOrder[8].width
        /\ R(10) = R(9) + ReaderOrder[9].width
        /\ R(11) = R(10) + ReaderOrder[10].width
        /\ R(12) = R(11) + ReaderOrder[11].width
        /\ R(13) = R(12) + ReaderOrder[12].width
    BY <1>2
  <2>2. /\ ReaderOrder[1].width = 8 /\ ReaderOrder[2].width = 8
        /\ ReaderOrder[3].width = 8 /\ ReaderOrder[4].width = 8
        /\ ReaderOrder[5].width = 8 /\ ReaderOrder[6].width = 2
        /\ ReaderOrder[7].width = 2 /\ ReaderOrder[8].width = 2
        /\ ReaderOrder[9].width = 2 /\ ReaderOrder[10].width = 2
        /\ ReaderOrder[11].width = 2 /\ ReaderOrder[12].width = 2
    BY DEF ReaderOrder, Field
  <2>. QED
    BY <1>2, <2>1, <2>2
<1>9. W(23) = 90
  <2>1. /\ W(20) = W(19) + WriterFields[19].width
        /\ W(21) = W(20) + WriterFields[20].width
        /\ W(22) = W(21) + WriterFields[21].width
        /\ W(23) = W(22) + WriterFields[22].width
    BY <1>1
  <2>2. /\ WriterFields[19] = ParamsFields[13] /\ WriterFields[20] = EnvelopeFields[1]
        /\ WriterFields[21] = EnvelopeFields[2] /\ WriterFields[22] = EnvelopeFields[3]
    BY WriterOrder
  <2>3. /\ ParamsFields[13].width = 2 /\ EnvelopeFields[1].width = 8
        /\ EnvelopeFields[2].width = 8 /\ EnvelopeFields[3].width = 2
    BY DEF ParamsFields, EnvelopeFields, Field
  <2>4. W(19) = 16 + R(13)
    BY <1>7
  <2>. QED
    BY <1>8, <2>1, <2>2, <2>3, <2>4
<1>10. WriterFields[23] = Field("same_slot_order", 1)
  <2>1. WriterFields[23] = EnvelopeFields[4]
    BY WriterOrder
  <2>. QED
    BY <2>1 DEF EnvelopeFields
<1>. QED
  BY <1>7, <1>9, <1>10 DEF W, R, ParamsOffset, SameSlotOrderOffset

(* A number is read back from the bytes it was put in. *)
LEMMA NumberReadBack ==
  ASSUME NEW bytes, NEW offset, NEW value \in Nat, NEW width \in 0 .. 8,
         value < Weight[width],
         \A i \in 1 .. width : bytes[offset + i] = PutNumber(value, width)[i]
  PROVE  ReadNumber(bytes, offset, width) = value
<1>. DEFINE f == [i \in 1 .. width |-> bytes[offset + i] * Weight[i - 1]]
            g == [i \in 1 .. width |->
                    ((value \div Weight[i - 1]) % ByteValues) * Weight[i - 1]]
<1>1. f = g
  <2>1. \A i \in 1 .. width :
          bytes[offset + i] = (value \div Weight[i - 1]) % ByteValues
    BY DEF PutNumber
  <2>. QED
    BY <2>1
<1>2. ReadNumber(bytes, offset, width) = TotalOf(f)
  BY DEF ReadNumber, TotalOf
<1>3. TotalOf(g) + Weight[width] * (value \div Weight[width]) = value
  BY DigitsAddUp
<1>4. value \div Weight[width] = 0 /\ Weight[width] \in Nat \ {0}
  <2>1. Weight[width] \in Nat \ {0}
    BY WeightTurns
  <2>2. Weight[width] * 0 <= value /\ value < Weight[width] * (0 + 1)
    BY <2>1
  <2>. QED
    BY <2>1, <2>2, DivUnique
<1>5. TotalOf(g) \in Int
  <2>1. IsFiniteSet(1 .. width)
    BY FS_Interval
  <2>2. g \in [1 .. width -> Int]
    <3>1. ASSUME NEW i \in 1 .. width
          PROVE  ((value \div Weight[i - 1]) % ByteValues) * Weight[i - 1] \in Int
      <4>1. Weight[i - 1] \in Nat \ {0} /\ ByteValues \in Nat \ {0}
        BY WeightTurns, ByteAssumption
      <4>2. value \div Weight[i - 1] \in Nat
        BY <4>1, DivBounds
      <4>3. (value \div Weight[i - 1]) % ByteValues \in Nat
        BY <4>1, <4>2
      <4>. QED
        BY <4>1, <4>3, ProductNat
    <3>. QED
      BY <3>1
  <2>. HIDE DEF g
  <2>. QED
    BY <2>1, <2>2, SumIsInt
<1>. HIDE DEF f, g
<1>. QED
  BY <1>1, <1>2, <1>3, <1>4, <1>5

(* The compiler's numbers are the parameters under their names, and the    *)
(* same-slot order of the envelope.                                        *)
LEMMA CompiledNumbers ==
  ASSUME NEW args \in PoolArgs
  PROVE  /\ DOMAIN args.params = ParamNames
         /\ \A name \in ParamNames :
              /\ name \in DOMAIN Compiled(args)
              /\ Compiled(args)[name] = args.params[name]
              /\ args.params[name] \in Nat
         /\ "same_slot_order" \in DOMAIN Compiled(args)
         /\ Compiled(args)["same_slot_order"] = args.envelope.same_slot_order
<1>. DEFINE p == args.params
            e == args.envelope
            b == args.budget
            h == [schema_version |-> 1, mode |-> 1, paused |-> 0,
                  base_decimals |-> args.base_mint.decimals,
                  quote_decimals |-> args.quote_mint.decimals]
<1>1. p \in Params /\ e \in Envelopes
  BY ArgsAssumption
<1>2. DOMAIN p = ParamNames /\ \A name \in ParamNames : p[name] \in Nat
  BY <1>1 DEF Params, ParamNames
<1>3. DOMAIN e = {"max_maker_update_period_slots", "max_landing_latency_slots",
                  "min_update_success_probability_bps", "same_slot_order"}
  BY <1>1 DEF Envelopes
<1>4. Compiled(args) = Beside(Beside(Beside(p, e), b), h)
  BY DEF Compiled
<1>5. "same_slot_order" \notin ParamNames
  BY DEF ParamNames
<1>6. e["same_slot_order"] = args.envelope.same_slot_order
  OBVIOUS
<1>. HIDE DEF p, e, b, h
<1>. DEFINE pe == Beside(p, e)
            peb == Beside(pe, b)
<1>8. /\ \A x \in DOMAIN p : x \in DOMAIN pe /\ pe[x] = p[x]
      /\ \A x \in DOMAIN e : x \notin DOMAIN p => x \in DOMAIN pe /\ pe[x] = e[x]
  BY DEF Beside
<1>. HIDE DEF pe
<1>9. \A x \in DOMAIN pe : x \in DOMAIN peb /\ peb[x] = pe[x]
  BY DEF Beside
<1>. HIDE DEF peb
<1>10. \A x \in DOMAIN peb :
         /\ x \in DOMAIN Beside(peb, h)
         /\ Beside(peb, h)[x] = peb[x]
  BY DEF Beside
<1>11. Compiled(args) = Beside(peb, h)
  BY <1>4 DEF pe, peb
<1>12. ASSUME NEW name \in ParamNames
       PROVE  name \in DOMAIN Compiled(args) /\ Compiled(args)[name] = p[name]
  BY <1>2, <1>8, <1>9, <1>10, <1>11
<1>13. /\ "same_slot_order" \in DOMAIN Compiled(args)
       /\ Compiled(args)["same_slot_order"] = e["same_slot_order"]
  <2>1. "same_slot_order" \in DOMAIN e /\ "same_slot_order" \notin DOMAIN p
    BY <1>2, <1>3, <1>5
  <2>. QED
    BY <1>8, <1>9, <1>10, <1>11, <2>1
<1>. QED
  BY <1>2, <1>6, <1>12, <1>13 DEF p, e

(* Swaps read the parameters that were compiled. *)
LEMMA ParamsReadBack ==
  ASSUME NEW args \in PoolArgs
  PROVE  ParamsFromBytes(ToBytes(Compiled(args))) = args.params
<1>. DEFINE bytes == ToBytes(Compiled(args))
            Found(name) == CHOOSE m \in DOMAIN ReaderOrder : ReaderOrder[m].name = name
<1>1. ASSUME NEW m \in 1 .. 12
      PROVE  ReadNumber(bytes, ParamsOffset + WidthBefore(ReaderOrder, m),
                        ReaderOrder[m].width)
               = args.params[ReaderOrder[m].name]
  <2>. DEFINE field == ReaderOrder[m]
              value == args.params[field.name]
              width == field.width
              offset == ParamsOffset + WidthBefore(ReaderOrder, m)
  <2>1. /\ WriterFields[6 + m] = field
        /\ 6 + m \in 1 .. Len(WriterFields)
    <3>1. m \in 1 .. 13 /\ 6 + m \in 1 .. 24
      OBVIOUS
    <3>2. WriterFields[6 + m] = field
      BY <3>1, WriterOrder, ReaderTakesParams
    <3>3. Len(WriterFields) \in Nat /\ Len(WriterFields) >= 24
      BY WriterOrder, LenProperties
    <3>. QED
      BY <3>1, <3>2, <3>3
  <2>2. field.name \in ParamNames
    BY ReaderTakesParams
  <2>3. /\ field.name \in DOMAIN Compiled(args)
        /\ Compiled(args)[field.name] = value /\ value \in Nat
    BY <2>2, CompiledNumbers
  <2>4. width \in 0 .. 8 /\ value < Weight[width]
    <3>1. width \in {2, 8}
      BY ReaderTakesParams
    <3>2. m \in DOMAIN ReaderOrder
      BY ReaderTakesParams
    <3>3. value < Weight[width]
      BY <3>2, WordsAssumption
    <3>. QED
      BY <3>1, <3>3
  <2>5. Put(Compiled(args), field) = PutNumber(value, width)
    BY <2>3 DEF Put
  <2>6. WidthBefore(WriterFields, 6 + m) = offset
    BY OffsetsMatch
  <2>7. \A i \in 1 .. width : bytes[offset + i] = PutNumber(value, width)[i]
    <3>1. \A i \in 1 .. WriterFields[6 + m].width :
            bytes[WidthBefore(WriterFields, 6 + m) + i]
              = Put(Compiled(args), WriterFields[6 + m])[i]
      BY <2>1, WrittenAt
    <3>. HIDE DEF bytes, offset, value
    <3>. QED
      BY <2>1, <2>5, <2>6, <3>1
  <2>. HIDE DEF bytes, offset, value, width, field
  <2>8. ReadNumber(bytes, offset, width) = value
    BY <2>3, <2>4, <2>7, NumberReadBack
  <2>. QED
    BY <2>8 DEF offset, value, width, field
<1>. HIDE DEF bytes
<1>2. ASSUME NEW name \in ParamNames
      PROVE  ReadNumber(bytes, ParamsOffset + WidthBefore(ReaderOrder, Found(name)),
                        ReaderOrder[Found(name)].width)
               = args.params[name]
  <2>1. \E m \in DOMAIN ReaderOrder : ReaderOrder[m].name = name
    BY ReaderTakesParams
  <2>2. Found(name) \in DOMAIN ReaderOrder /\ ReaderOrder[Found(name)].name = name
    BY <2>1
  <2>3. Found(name) \in 1 .. 12
    BY <2>2, ReaderTakesParams
  <2>. HIDE DEF Found
  <2>. QED
    BY <1>1, <2>2, <2>3
<1>3. {ReaderOrder[n].name : n \in DOMAIN ReaderOrder} = ParamNames
  BY ReaderTakesParams
<1>4. ParamsFromBytes(bytes)
        = [name \in ParamNames |->
             ReadNumber(bytes, ParamsOffset + WidthBefore(ReaderOrder, Found(name)),
                        ReaderOrder[Found(name)].width)]
  BY <1>3 DEF ParamsFromBytes
<1>. HIDE DEF Found
<1>5. args.params = [name \in ParamNames |-> args.params[name]]
  <2>1. args.params \in Params
    BY ArgsAssumption
  <2>. QED
    BY <2>1 DEF Params, ParamNames
<1>6. ParamsFromBytes(bytes) = [name \in ParamNames |-> args.params[name]]
  BY <1>2, <1>4
<1>. QED
  BY <1>5, <1>6 DEF bytes

(* And the same-slot order, if it is one. *)
LEMMA SameSlotOrderReadBack ==
  ASSUME NEW args \in PoolArgs, args.envelope.same_slot_order \in {0, 1}
  PROVE  SameSlotOrderFromBytes(ToBytes(Compiled(args)))
           = args.envelope.same_slot_order
<1>. DEFINE bytes == ToBytes(Compiled(args))
            value == args.envelope.same_slot_order
            field == Field("same_slot_order", 1)
<1>1. /\ WriterFields[23] = field
      /\ WidthBefore(WriterFields, 23) = SameSlotOrderOffset
  BY OffsetsMatch
<1>2. 23 \in 1 .. Len(WriterFields)
  <2>1. Len(WriterFields) \in Nat /\ Len(WriterFields) >= 24
    BY WriterOrder, LenProperties
  <2>. QED
    BY <2>1
<1>3. Put(Compiled(args), field) = PutNumber(value, 1)
  BY CompiledNumbers DEF Put, Field
<1>4. field.width = 1
  BY DEF Field
<1>5. \A i \in 1 .. WriterFields[23].width :
        bytes[WidthBefore(WriterFields, 23) + i]
          = Put(Compiled(args), WriterFields[23])[i]
  BY <1>2, WrittenAt
<1>6. value \in Nat /\ value < Weight[1]
  <2>1. Weight[1] = ByteValues * Weight[0] /\ Weight[0] = 1
    BY WeightTurns
  <2>. QED
    BY <2>1, ByteAssumption
<1>. HIDE DEF bytes, value, field
<1>7. \A i \in 1 .. 1 : bytes[SameSlotOrderOffset + i] = PutNumber(value, 1)[i]
  BY <1>1, <1>3, <1>4, <1>5
<1>8. ReadNumber(bytes, SameSlotOrderOffset, 1) = value
  <2>1. 1 \in 0 .. 8
    OBVIOUS
  <2>. QED
    BY <1>6, <1>7, <2>1, NumberReadBack
<1>. QED
  BY <1>8 DEF SameSlotOrderFromBytes, bytes, value

(* The bytes a pool is stored in give the parameters and the same-slot     *)
(* order that passed validation back to every swap.                        *)
THEOREM StoredBytesReadBack == Spec => SwapsReadConfiguration
<1>. DEFINE ReadsBack(args) ==
       InitializeReferenceQuotePool(args) =>
         LET layout == ToBytes(Compiled(args))
         IN  /\ ParamsFromBytes(layout) = poolConfig'.params
             /\ SameSlotOrderFromBytes(layout) = poolConfig'.same_slot_order
<1>1. ASSUME NEW args \in PoolArgs PROVE ReadsBack(args)
  <2>. SUFFICES ASSUME InitializeReferenceQuotePool(args)
                PROVE  /\ ParamsFromBytes(ToBytes(Compiled(args))) = poolConfig'.params
                       /\ SameSlotOrderFromBytes(ToBytes(Compiled(args)))
                            = poolConfig'.same_slot_order
    OBVIOUS
  <2>1. /\ args.envelope.same_slot_order \in {0, 1}
        /\ poolConfig'.params = args.params
        /\ poolConfig'.same_slot_order = args.envelope.same_slot_order
    BY DEF InitializeReferenceQuotePool
  <2>. QED
    BY <2>1, ParamsReadBack, SameSlotOrderReadBack
<1>2. [\A args \in PoolArgs : ReadsBack(args)]_vars
  <2>. HIDE DEF ReadsBack
  <2>. QED
    BY <1>1
<1>. QED
  BY <1>2, PTL DEF Spec, SwapsReadConfiguration

=============================================================================
