------------------------- MODULE MetaAmmProperties --------------------------
(***************************************************************************)
(* What the ReferenceQuote path of the program has to guarantee.           *)
(***************************************************************************)
EXTENDS MetaAmm, Functions

Live == /\ poolConfig # NoAccount
        /\ quoteState # NoAccount
        /\ vaultState # NoAccount

BaseVault  == baseTokens[Vault]
QuoteVault == quoteTokens[Vault]

-----------------------------------------------------------------------------
(* Quote state. *)

(* A quote never claims a slot after the one it landed in, nor that slot   *)
(* one after the clock, and price and sequence are set together.  The age  *)
(* subtraction of the math crate therefore never saturates, and the checks *)
(* of assert_usable_for_swap on price, sequence and publish slot agree.    *)
QuoteNotFromFuture ==
  quoteState # NoAccount =>
    /\ quoteState.publish_slot <= quoteState.last_update_slot
    /\ quoteState.last_update_slot <= slot
    /\ (quoteState.sequence = 0) <=> (quoteState.mid_price = 0)

(* The sequence number names one version of the quote: it never goes back, *)
(* and while it stands price, spread, publish slot and landing slot stand. *)
(* This is what makes expected_quote_sequence in a swap a promise about    *)
(* price and spread, through either update instruction.                    *)
SequencePinsQuote ==
  [][quoteState # NoAccount =>
       /\ quoteState' # NoAccount
       /\ quoteState'.sequence >= quoteState.sequence
       /\ quoteState'.publish_slot >= quoteState.publish_slot
       /\ quoteState'.sequence = quoteState.sequence
            => quoteState' = quoteState]_vars

(* No sequence of configurations and updates leaves a funded pool in which *)
(* the math crate rejects a trade as misconfigured: half spread, surcharge *)
(* and skew together never reach the whole price.  The half spread is set  *)
(* by three instructions and checked against limits of a fourth account.   *)
QuoteNeverMisconfigured ==
  Live /\ vaultState.target_base_inventory > 0 =>
    \A amountIn \in Amounts, baseToQuote \in BOOLEAN :
      SwapQuote(amountIn, baseToQuote).error # "InvalidConfig"

(* While nobody updates it, a quote only gets worse to trade against: the  *)
(* spread never narrows and the trade limit never grows from one slot to   *)
(* the next, across the borders of fresh, aging, protected and expired.    *)
AgingOnlyTightens ==
  [][Live /\ quoteState' = quoteState /\ slot' > slot =>
       /\ AppliedSpreadBps(QuotingState, SwapParams)'
            >= AppliedSpreadBps(QuotingState, SwapParams)
       /\ MaxBaseTradeForAge(QuotingState, SwapParams)'
            <= MaxBaseTradeForAge(QuotingState, SwapParams)]_vars

-----------------------------------------------------------------------------
(* Vaults. *)

(* The exact form of the hard band: |base - target| / target, in basis     *)
(* points and rounded down, is at most the configured band.                *)
InBand ==
  vaultState # NoAccount /\ vaultState.target_base_inventory > 0 =>
    AbsInt(BaseVault - vaultState.target_base_inventory) * BPS
      < (poolConfig.params.hard_inventory_band_bps + 1)
          * vaultState.target_base_inventory

(* A plain token transfer to a vault: the program's accounts stand still   *)
(* and one vault balance grows.                                            *)
DirectDeposit ==
  /\ vaultState' = vaultState /\ quoteState' = quoteState
  /\ \/ BaseVault' > BaseVault /\ quoteTokens' = quoteTokens
     \/ QuoteVault' > QuoteVault /\ baseTokens' = baseTokens

(* The base vault leaves the hard inventory band only when somebody sends  *)
(* tokens to it past the program.  No swap takes it out, in either         *)
(* direction, and no funding does, though funding moves vault and target   *)
(* by separate rules.                                                      *)
BandLeftOnlyByDeposit == [][InBand => InBand' \/ DirectDeposit]_vars

(* Neither vault is ever emptied once it holds something.                  *)
VaultsStayFunded ==
  [][/\ BaseVault > 0 => BaseVault' > 0
     /\ QuoteVault > 0 => QuoteVault' > 0]_vars

(* Tokens leave a vault only in a swap on a quote the maker stands by: all *)
(* accounts exist, the pool is not paused, the quote has been set and has  *)
(* not expired, and the trade is no larger at mid than its age allows.     *)
OutflowOnlyOnUsableQuote ==
  [][LET baseIn  == BaseVault' - BaseVault
         quoteIn == QuoteVault' - QuoteVault
     IN  baseIn < 0 \/ quoteIn < 0 =>
           /\ Live /\ ~poolConfig.paused
           /\ quoteState.sequence > 0
           /\ slot - quoteState.publish_slot < poolConfig.params.expire_slots
           /\ (IF quoteIn < 0 THEN baseIn * quoteState.mid_price
                              ELSE quoteIn * Q64)
                < (MaxBaseTradeForAge(QuotingState, SwapParams) + 1)
                     * quoteState.mid_price]_vars

(* The vault never trades past the maker's price.  Buying base it pays at  *)
(* most mid plus the largest skew less the half spread.  Selling base it   *)
(* takes at least mid plus the half spread less the largest skew, but for  *)
(* the one raw price unit that floor takes off the effective price (BPS in *)
(* these products).                                                        *)
OutflowPriced ==
  [][LET mid  == quoteState.mid_price
         half == quoteState.base_half_spread_bps
         skew == poolConfig.params.max_inventory_skew_bps
         baseIn  == BaseVault' - BaseVault
         quoteIn == QuoteVault' - QuoteVault
     IN  /\ quoteIn < 0 =>
              -quoteIn * Q64 * BPS <= baseIn * mid * (BPS - half + skew)
         /\ baseIn < 0 =>
              -baseIn * (mid * (BPS + half - skew) - BPS)
                <= quoteIn * Q64 * BPS]_vars

(* A swap settles exactly: the taker pays amount_in, receives at least     *)
(* minimum_amount_out net of whatever the token program withholds, the     *)
(* vaults move by the same amounts, and nobody else's balance changes.     *)
SwapSettlesExactly ==
  [][\A taker \in Keys, amountIn \in Amounts, minimumOut \in MinimumOuts,
        expected \in Sequences, baseToQuote \in BOOLEAN :
       SwapExactIn(taker, amountIn, minimumOut, expected, baseToQuote) =>
         LET paid(h) == IF baseToQuote THEN baseTokens[h] - baseTokens'[h]
                                       ELSE quoteTokens[h] - quoteTokens'[h]
             got(h)  == IF baseToQuote THEN quoteTokens'[h] - quoteTokens[h]
                                       ELSE baseTokens'[h] - baseTokens[h]
         IN  /\ paid(taker) = amountIn /\ paid(Vault) = -amountIn
             /\ got(taker) >= minimumOut /\ got(Vault) = -got(taker)
             /\ \A h \in Keys \ {taker} : paid(h) = 0 /\ got(h) = 0]_vars

(* Tokens are conserved: no instruction creates or loses any.              *)
TokensConserved ==
  LET Total(tokens) == FoldFunction(+, 0, tokens)
  IN  /\ Total(baseTokens) = Total(InitialBase)
      /\ Total(quoteTokens) = Total(InitialQuote)

-----------------------------------------------------------------------------
(* Liveness. *)

(* A quote nobody replaces expires: no update can extend the life of a     *)
(* sequence number, so time alone takes it out of use.  Slots end at       *)
(* MaxSlot here, so only quotes that can expire by then are asked to.      *)
StaleQuoteExpires ==
  \A n \in Sequences :
    (/\ Live /\ quoteState.sequence = n
     /\ quoteState.publish_slot + poolConfig.params.expire_slots <= MaxSlot)
    ~> (Live /\ (\/ quoteState.sequence > n
                \/ QuoteAge(QuotingState) >= poolConfig.params.expire_slots))

=============================================================================
