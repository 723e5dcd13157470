------------------------------- MODULE Router -------------------------------
(***************************************************************************)
(* A taker that trades through the TypeScript SDK: it reads the accounts   *)
(* of the pool, quotes on the cached copy with quoteReferenceExactIn of    *)
(* sdk/ts/src/index.ts, and sends a swap with the quoted sequence and the  *)
(* quoted output as its minimum.  Between reading and execution any other  *)
(* transaction may land and slots may pass, and a transaction may be sent  *)
(* again after it was executed.                                            *)
(***************************************************************************)
EXTENDS MetaAmm, Sdk, Functions

CONSTANTS
  Taker,      \* the key the router trades for
  RouteAges   \* largest quote ages a router is ready to execute at

ASSUME RouterAssumption == Taker \in Keys /\ RouteAges \subseteq Nat

(* A mint counts its supply in a word, and a trade limit is one: the SDK   *)
(* reads both out of accounts and has no width of its own.                 *)
ASSUME WordAssumption ==
  /\ FoldFunction(+, 0, InitialBase) <= MaxU64
  /\ FoldFunction(+, 0, InitialQuote) <= MaxU64
  /\ \A args \in PoolArgs : args.params.max_trade_base_atoms <= MaxU64

VARIABLE ticket   \* the route the taker holds, or NoAccount

routerVars == <<slot, poolConfig, quoteState, vaultState,
                baseTokens, quoteTokens, ticket>>

-----------------------------------------------------------------------------
(* The taker. *)

RouterInit == Init /\ ticket = NoAccount

Exists == /\ poolConfig # NoAccount /\ quoteState # NoAccount
          /\ vaultState # NoAccount

(* Quote on the accounts as they are now. *)
QuoteRoute(amountIn, baseToQuote, maxAge) ==
  LET quote == SdkQuoteExactIn(QuotingState, SwapParams, amountIn, baseToQuote)
  IN  /\ Exists
      /\ quote.error = NoError
      /\ QuoteAge(QuotingState) <= maxAge
      /\ ticket' = [amount_in |-> amountIn, base_to_quote |-> baseToQuote,
                    amount_out |-> quote.value, quote |-> quoteState,
                    max_quote_age |-> maxAge]
      /\ UNCHANGED vars

(* The swap the route asks for is executed; the taker may send it again.   *)
ExecuteRoute ==
  /\ ticket # NoAccount
  /\ SwapExactIn(Taker, ticket.amount_in, ticket.amount_out,
                 ticket.quote.sequence, ticket.base_to_quote)
  /\ UNCHANGED ticket

RouterNext ==
  \/ \E amountIn \in Amounts, baseToQuote \in BOOLEAN, maxAge \in RouteAges :
       QuoteRoute(amountIn, baseToQuote, maxAge)
  \/ ExecuteRoute
  \/ Next /\ UNCHANGED ticket

RouterSpec == RouterInit /\ [][RouterNext]_routerVars

-----------------------------------------------------------------------------
(* Properties. *)

(* The SDK and the program agree on the accounts as they are: for a trade  *)
(* that some key can pay for, the SDK names an output exactly when the     *)
(* program would execute the swap, and it is the output of the program.    *)
(* The program works in words and checks its own accounts once more; the   *)
(* SDK does neither.                                                       *)
SdkAgrees ==
  Exists =>
    \A amountIn \in Amounts, baseToQuote \in BOOLEAN :
      (\E key \in Keys : CanPay(IF baseToQuote THEN baseTokens ELSE quoteTokens,
                                key, amountIn))
      => LET sdk     == SdkQuoteExactIn(QuotingState, SwapParams,
                                        amountIn, baseToQuote)
             program == SwapQuote(amountIn, baseToQuote)
             accepts == /\ QuoteUsable(quoteState.sequence) /\ PoolOpen
                        /\ program.error = NoError
         IN  /\ (sdk.error = NoError) <=> accepts
             /\ accepts => sdk.value = program.value

(* Whatever landed between quoting and execution, a route that executes    *)
(* does so on the very quote it was made from, price, spread and publish   *)
(* slot, and pays what was quoted or more; when only other swaps, funding  *)
(* or time intervened the program may still refuse it.                     *)
RouteExecutesAsQuoted ==
  [][ExecuteRoute =>
       /\ quoteState = ticket.quote
       /\ (IF ticket.base_to_quote THEN quoteTokens'[Taker] - quoteTokens[Taker]
                                   ELSE baseTokens'[Taker] - baseTokens[Taker])
            >= ticket.amount_out]_routerVars

(* A route executes within the quote age its router allowed for, as the    *)
(* architecture asks of the program.  The program does not hold this: a    *)
(* swap carries no age, only the sequence.                                 *)
RouteExecutesWithinAge ==
  [][ExecuteRoute => QuoteAge(QuotingState) <= ticket.max_quote_age]_routerVars

=============================================================================
