# Meta-AMM: TLA+ specifications and proofs

Formal models of Meta-AMM: the on-chain program (`src/programs/meta_amm`), the
pricing crates it is built on (`src/crates/meta_amm_math`,
`src/crates/meta_amm_config`), the TypeScript SDK (`src/sdk/ts`) and the market
simulator (`src/crates/meta_amm_sim`). TLC checks small instances; TLAPS proves
what matters most for every value of the constants.

`PROJECT.json` gives, for every definition that models code, the lines it
stands for; for every property, the mutation of the code it catches; for every
hazard, the properties that watch it.

## 1. Inventory

| Component | State | Operations | Modelled by |
|---|---|---|---|
| Fixed point (`fixed.rs`, `errors.rs`) | none | checked Q64.64 products and quotients; the limbs and the division loop below them | `FixedPoint`, `WideDivision` |
| Decimal scaling (`decimal.rs`) | none | scale of a pair of mints, conversion of prices either way | `Decimal` |
| ReferenceQuote engine (`reference.rs`) | none | age state, surcharge, trade limit, skew, effective price, `quote_exact_in` | `ReferenceQuote` |
| Configuration (`meta_amm_config`) | none | validation of parameters, update envelope, account budget; byte layout; reader of exported strategies | `ReferenceQuote`, `Layout`, `StoredConfig`, `ConfigExport` |
| Program, ReferenceQuote path | pool config, quote state, vault state, two vaults | initialize pool / state / vaults, update quote (v1, v2), pause, fund, swap | `MetaAmm` |
| Program, curve slots | curve slot account | initialize, stage, activate | `CurveSlot`, `CurveAudit` |
| TypeScript SDK | none (cached accounts) | `quoteReferenceExactIn` and what it calls | `Sdk`, `Router` (partly: no account-meta and address helpers) |
| Constant-product baseline (`cpmm.rs`, `simulate_cpmm`) | reserves | quote, settle | `Cpmm` |
| Piecewise book (`piecewise.rs`, `simulate_piecewise_prop`) | two sides | buy, sell, post-fill policies | `PiecewiseBook` |
| ReferenceQuote simulations (`meta_amm_sim/src/lib.rs`) | quoting state, updates in flight, report | one row: land, age, execute, land | `QuoteSimulation`, `MarketPath`, `ReplayPath`, `Simulator` |
| Path generators (same file) | fair price | one slot: an order of a random side and size, a step of the price | `PathGenerator` |
| Summaries and gates (same file) | path reports | simulate a path, aggregate, grade | `Reports` |
| Replay (`replay.rs`) | the recording read so far | header, row, end of file, flow, inferred policy, scenario | `ReplayCsv` |
| Calibration (`calibration.rs`) | candidate reports | simulate a candidate, rank, export | `Calibration`, `ConfigExport` |
| Command line (`main.rs`) | the command chosen | smoke, scenario pack, calibration, replay | `CommandLine` |
| Surfpool test client | none | drives the program | not modelled: read as documentation |

How they interact. A maker compiles a configuration and initializes a pool with
it; the program stores the parameters in the pool account and the half spread
in the quote state as well. Maker and keeper publish quotes. A router reads the
accounts, quotes in the SDK on its copy, and sends a swap that carries the
quote sequence it saw. The program calls the same pricing function
(`quote_exact_in`) the simulator calls. Accounts are the only shared state; an
instruction is atomic, and everything between two instructions - other
transactions, slots, direct token transfers - is where things go wrong. The
configuration itself comes out of the simulator: calibration simulates
candidates, ranks them, writes the best one as text, an operator carries the
text over, and the compiler reads it back.

Hard behaviours. Updates of two signers racing one another and swaps; messages
delivered late or again; quotes that age while nothing happens; target and
vault balance moved by separate rules; limits in one account and the values
they limit in another; two implementations (SDK and program) of one function;
words that overflow and floors that round; updates with latency that land in
another order than they were published in; walks that fail half way; carries
between limbs; figures of many simulated paths that are summarized field by field
and graded as one; a document that is edited between its writer and its reader.

What makes each part correct:

* **program**: no tokens lost or created, vaults pay only on a usable quote and
  never past the maker's price, never drained, inside the band unless somebody
  deposits past the program; sequence numbers pin quotes; time alone ends a quote;
* **configuration**: what it accepts can never be rejected as misconfigured later;
* **curve slots**: two-phase activation, no replays;
* **SDK and router**: agreement with the program, execution at the quoted terms;
* **baseline**: the product never falls; **book**: sides stay valid, deeper is
  never cheaper, depth is neither created nor lost; **simulations**: the report
  adds up, the envelope that the configuration demands keeps quotes alive;
* **arithmetic**: the limbs compute the floor they replace; prices in two decimal
  domains agree and do not drift; generated orders are worth what was drawn;
* **tools**: a verdict on many paths lies between those on its paths, a blocked
  candidate is exported only if all are, an exported envelope covers the scenarios
  its figures come from, and the compiler reads the strategy that was written or
  none.

## 2. Modules

```
FixedPoint ─┬─ ReferenceQuote ─┬─ MetaAmm ─┬─ MetaAmmProperties ─┬─ MCMetaAmm
            │                  │           ├─ StoredConfig ──────┘    (with Layout)
            │                  │           ├─ PauseAudit ───────── MCPauseAudit
            │                  │           └─ Router ───────────── MCRouter (with Sdk)
            │                  ├─ Reports ─┬─ Calibration ── ConfigExport ─┐
            │                  │           └─ ReplayCsv ───────────────────┴─ CommandLine ── MCTools
            │                  └─ QuoteSimulation ─┬─ MarketPath ─┐   (with Flow)
            │                                      └─ ReplayPath ─┴─ Simulator ── MCSimulator
            ├─ Flow ─┬─ Cpmm ──────────┐
            │        └─ PiecewiseBook ─┤   (── MCPiecewiseBook)
            ├─ Decimal ────────────────┼─ Primitives ── MCPrimitives
            ├─ PathGenerator ──────────┤
            └─ WideDivision ───────────┘   (an instance, not an extension)
CurveSlot ── CurveAudit ── MCCurveSlot     StagedActivation (abstract, refined by CurveAudit)

ArithmeticProofs ─┬─ ReferenceQuoteProofs ─┬─ MetaAmmProofs    (with Router, StoredConfig)
                  │                        └─ SimulatorProofs
                  ├─ BookProofs
                  ├─ PrimitivesProofs      (Cpmm, PathGenerator, Decimal, WideDivision)
                  └─ ToolsProofs           (CommandLine)
CurveSlotProofs
```

`FixedPoint` takes the width of a word as the constant `MaxU64`: `Q64` is
`MaxU64 + 1` and a raw price is at most `Q64^2 - 1`, as `u64`, `1 << 64` and
`u128` are related. A fallible function returns a record with an `error` field,
so the order of checks and the error that is met first are part of the model.

`ReferenceQuote` is `quote_exact_in` and the validation of configurations.
Basis points are the constant `BPS` (10_000 in the code), so that small
instances meet the roundings of the real one.

`MetaAmm` has one action per instruction. Its accounts are the variables
`poolConfig`, `quoteState` and `vaultState` (`NoAccount` until initialized),
`baseTokens` and `quoteTokens` hold all balances, the vaults' included, and
`slot` is the clock. A guard is the account constraints of the `#[derive(Accounts)]`
structure (operators named `...Accounts`) and the checks of the handler in code
order; an instruction that fails has no effect and so is no step. `Tick`,
`DepositBase` and `DepositQuote` are the environment: slots pass, and anybody
can transfer tokens to a vault. The token program is modelled by what a transfer
does, the fee of a fee-bearing mint included.

`CurveSlot` is the curve-slot account. `StagedActivation` is the abstract
promise of two-phase activation: stage a curve for a slot, then bring into force
what was staged. The account keeps no hash of the curve in force, so `CurveAudit`
adds a history variable, `named`, with the curve the last activation named, and
constrains nothing. It implements `StagedActivation`: the pending slot and hash
are the abstract `staged`, the active slot and `named` the abstract `active`. An
activation that compared only the slot, or only the hash, would bring into force
something that was not staged, and neither is a step of the abstract module.

`Layout` is the byte layout of a pool configuration: the writer's fields with
their widths, and the two readers with their own offsets and field order. A byte
holds `ByteValues` values so that small numbers need more than one, and `Weight`
is what a one is worth at each place of a number. `MetaAmm` keeps the decoded
values; `StoredConfig` puts the bytes behind them, and `SwapsReadConfiguration` is
what makes that abstraction sound.

`Sdk` is the TypeScript implementation of the pricing function, translated from
its own source: unbounded integers, its own parameter check and order of checks.
`Router` composes `MetaAmm` with a taker that quotes with it, holds the route while
anything else happens, and executes it, possibly twice.

`PauseAudit` adds to `MetaAmm` a history variable that remembers the quote
sequence of the last pause.

`Cpmm`, `PiecewiseBook` and the simulations are sequential programs over a flow
they are given; their nondeterminism is that flow. An order is rejected or
filled in one step, and any other error ends the simulation without a report:
the variable `result` holds it, and the lost state is kept as it was. `Flow` has
the two report amounts that can fail. Their saturating sums are left out.
`Primitives` puts the machines that share nothing but arithmetic - these two,
`WideDivision`, `Decimal` and `PathGenerator` - behind one initial choice: a
behaviour runs one of them and the others stand still.

`WideDivision` is `mul_div_floor` below the quotient that `FixedPoint` takes: the
product of four limbs with its carries, the bit-serial loop with one turn a step,
and the errors. A limb holds `Half` values (2^64 in the code); a shift is a
product or quotient by a member of the constant `Pow2`.

`Decimal` carries a price between whole tokens and atoms for as long as it likes,
each conversion on the result of the last one. `PathGenerator` is the random walk
of the fair price and the orders it generates.

`PiecewiseBook` iterates one step of a walk in place of the code's `while`
loop. The number of steps is bounded by the remaining quantity, as each step
takes an atom or ends the walk. `segments_crossed` counts loop iterations, as
in the code, so a slice that is bought in two bites counts twice.

`QuoteSimulation` is one row of market data (land what is due before the swap,
age the quote, execute the order, land what is due after it) and the report;
`MarketPath` adds the periodic maker with its fixed latency and chance of
dropping, `ReplayPath` the recorded updates with individual landing slots. The
updates in flight are a function of the numbers they were sent as, so that the
code's "last one pushed wins" is a maximum over that function's domain. The
pseudo-random draw of `quote_update_should_land` is a choice for every publish
slot, certain at probability 0 and 1. `Simulator` is both: a scenario says with
its field `recorded` which of the two functions simulates it.

`Reports` is a scenario pack: paths end, one after another, with any one of a set
of reports, percentiles are taken field by field, and gates grade the summary. A
sorted list is described by what its places hold: the n-th place of a list of
values is the value with fewer than n values below it and n or more up to it.
`Calibration` runs the pack for five candidates, scores and ranks them: a ranking
is an arrangement of the candidates in which none stands before a better one.
`ConfigExport` writes the best one, may lose a line of the document, and reads it
back the way the compiler does, which takes the first place where the quoted name
of a field stands. `ReplayCsv` reads a recording row by row, where a cell is empty,
malformed or a value, and infers an update policy from it. `CommandLine` chooses
one of these from the flags and runs it to its report or its panic.

## 3. What TLC checks

Every run takes all of `Next`. `CHECK_DEADLOCK FALSE` is set in all of them:
the slot clock, the sequence numbers and the number of orders are bounded, token
holders may have nothing left to do, and a simulation, a division or a command
ends.

| Run | Question | Bounds and why they are enough |
|---|---|---|
| `trading` | are tokens conserved, swaps exact, prices kept, and is the band left only by a deposit? | two keys, 6-bit words, mid 1.5, trades of 2 and 5 atoms (one past the limit of an aging quote), two slots, a deposit of 3; a fee-bearing mint on either side |
| `quotes` | do updates and time keep the quote state sound, and do swaps read the configuration that was stored? | maker, keeper and taker, sequence numbers to 2, six slots: fresh, aging, protected and expired are all met; five configurations, among them the largest accepted spread stack, the first refused one, and a refused envelope |
| `narrow` | what happens at the end of the word, and does a quote nobody replaces expire? | 3-bit words, no fee, widest band: the target meets its overflow check, trades meet the last atom; three slots with quotes that live for two, so that expiry is inside the clock; fairness below |
| `curves` | is activation two-phase, of the curve and slot it names, and replay-free? | two keys, two hashes and the zero hash, valid and invalid slots, eight sequence numbers |
| `router` | do SDK and program agree, and do routes execute as quoted? | 5-bit words, four slots, two quotes, two pools: one with all four ages, one that decays over two slots with a skew that does not divide; every reachable pool is quoted in both directions |
| `primitives` | does the baseline's product fall, do flows keep the book usable, priced and balanced, do the limbs compute the floor, do decimal conversions drift, are generated orders worth their draw? | baseline: 4-bit amounts, a pool that is empty, one that is nearly full and one in between, fair prices from zero to one that overflows. Book: three slices over quantities no multiple of three, six amounts, all four policies, refills that overflow. Division: limbs of two bits, all 4,096 triples of operands. Decimals: base two, so that a few decimals reach the top of the word, and every price. Paths: a price that drifts to its floor or to the top of its word in five slots |
| `simulate` | does the report add up, does its largest imbalance cover the pool's and stay in the band, do updates land when they should, and does the envelope keep quotes alive? | five slots, two orders; nine periodic makers: at and past the edge of the envelope in both same-slot orders, slow, lossy, and with a full quote inventory; two recordings with at most one update a row and latency 0 or 2, so that updates land out of order; rows may skip or repeat a slot |
| `tools` | what do gates say of many paths, what is exported and what does the compiler read back, which policy does a recording yield? | every set of flags; basis points, candidates and gates of the code; a pack of a scenario of four paths and one of one, each path ending with one of six reports that disagree in every metric; four outcomes per candidate, among them one that passes, one that all gates refuse and one that is refused with the best tail; documents that arrive whole or lose any one line, valid and invalid decimals and budgets; recordings of up to three rows over a row set with every error of the reader |

Three cases need no larger bound by the shape of the code: handlers never loop
over accounts, so two or three keys meet every pairing of roles; ages matter
only relative to three thresholds, which the instances set apart by one slot;
words matter at their top and at zero, both of which are reached.

**Runs that find a violation.** Each states what the documents say.

* `pause_audit`: `pause_pool(false)` puts the quote of before the pause back
  into use, while the architecture says the pool stays disabled "until a fresh
  quote and risk check restore it".
* `route_age`: a swap carries the quote sequence and no age, so a route quoted
  on a fresh quote executes on an aged one; the architecture wants a maximal
  quote age carried and enforced.
* `book_reject`: `buy_base_with_quote` consumes the side while it walks and
  returns `InvalidAmount` afterwards, and `simulate_piecewise_prop` goes on with
  the consumed side as if the order had only been rejected.
* `replay_race`: in a replay an older update with a longer latency replaces a
  newer quote. The program rejects exactly that, and the documents ask
  simulators to model these races. `MarketPath` cannot meet it: its latency is
  constant.

**Oddities** that the models keep, and that no document speaks against:

* the binary search of `max_base_for_quote` treats a cost of zero as too dear and
  can miss an affordable quantity;
* an activation of a curve slot that expects the zero hash is accepted with nothing
  staged: it moves nothing (`IdlePendingSlotIsActive`, proved) but consumes a
  sequence number; a sequence number at the top of its word blocks later updates;
* `pause_pool` does not maintain the paused flag in the header of the stored
  bytes; no instruction reads it;
* the market path gives an update it catches up with the fair price of the row it
  is read at, later than its publish slot when rows are sparse; with the swap first,
  an update that lands at slot 0 still precedes the swap, as slot 0 minus one
  saturates; a recording that starts at slot N begins with a quote aged N;
* the floor of each step of the random walk biases the generated price downwards;
* a percentile's index rounds down, the rates of a gate divide the percentile of
  one field by that of another, which other paths may have attained, and the mean
  update-drop rate of a score is a ratio of floored means;
* the baseline and the wider-spread candidate are exported with the slowest period
  (9) and the slowest latency (6) of different scenarios; with an expiry of 15 the
  compiler refuses that envelope although every scenario alone fits;
* recorded rows whose slots go back without an update pass the inference of a
  policy, and the simulation then refuses them.

**Fairness.** Only `StaleQuoteExpires` needs any: weak fairness of `Tick`, since
the cluster's slots pass whatever the program does. Nothing is assumed of
makers, keepers or takers. `narrow` is checked under it. The property asks only
quotes that can expire before the bound of the clock.

## 4. What is proved

The proofs are for every value of the constants: any word width, any number of
basis points, any set of keys, arguments and amounts.

* `ArithmeticProofs` and `ReferenceQuoteProofs` hold the lemmas: bounds of floor
  division, the ranges of conversions, that the spread stack of an accepted
  configuration stays below the whole price, what a settled quote says of the
  reserves and of the band.
* `PrimitivesProofs` proves the four small machines.
  - `DivisionIsFloor` and `LoopDividesPrefix`: the invariant says that after the
    bits from the top down to `bit` quotient and remainder divide the prefix
    `high * 2^(Bits - bit) + low \div 2^bit`; the proof of the product adds the
    four partial products and follows the carry of each.
  - `OrdersAreWorthTheirSize`: the price stays a positive integer of its word, so
    the price times the size and its inverse are exact whenever the product fits.
  - `CpmmTypeOK` and `KNeverFalls`: the floor of the output and the fee both leave
    the product where it was or above, in both directions.
  - `PricesAgree` and `TripsDoNotDrift`: `DecimalInv` says how the two prices of a
    journey are related by the one power of ten of the scale, by which side is the
    coarser one and by the domain the journey is in: the fine price is the coarse
    one times that power, or was floored to it by the last conversion. Both properties
    follow since powers of ten add.
* `BookProofs` proves `BookTypeOK`, `BookStaysUsable`, `DepthMovesAcross` and
  `DeeperIsNeverCheaper`. A side is read as a curve through its levels at the
  boundaries of its slices: the boundaries are strictly increasing, so exactly one
  slice is current, and the price of the next atom (`PriceNow`) moves in one
  direction along the curve and across its corners. The loops of a walk keep
  `SellKeeps` and `BuyKeeps`: the quote amount so far, up to one atom a slice,
  lies between what the atoms taken are worth at the price the walk began at and
  at the price it has reached. Of two orders in a row, the price at which the
  first one stopped separates the two, so `DeeperIsNeverCheaper` needs no argument
  about the shape of the curve beyond that. The binary search of a purchase keeps
  "its lower bound is zero or can be paid for". Every refill policy gives back the
  filled quantity, or in the case of `ProportionalScale` at most that.
* `MetaAmmProofs` proves every property of the `trading`, `quotes`, `narrow` and
  `router` runs but the one named below. The inductive invariant is

  `IInv == TypeOK /\ PoolValidated /\ SpreadWithinPool /\ VaultHasPool /\ QuoteNotFromFuture`.

  `QuoteNeverMisconfigured` alone is not inductive: it speaks of the sum of a
  spread in the quote state and limits in the pool account. `PoolValidated` says
  that a pool account holds mints and parameters that passed validation,
  `SpreadWithinPool` that the half spread in the quote state, whichever of three
  instructions set it, was checked against that pool. `VaultHasPool` says that
  vaults and quote state exist only with their pool, so that the funding and swap
  steps can use the others.
  - `AgingOnlyTightens`: limit and surcharge are monotone in age within each
    state and across its borders, for validated parameters.
  - `OutflowPriced` follows the floors in the order the code takes them: factor,
    effective price, amount. Each one is against the taker, but for the one raw
    price unit the property allows.
  - `TokensConserved`: the sum over holders is a fold; `ArithmeticProofs` shows that
    it is the one function of sums over subsets, that taking out one holder
    subtracts its balance, and so that a transfer between two holders keeps it.
    `SwapSettlesExactly` and it rest on a pool existing only on mints that
    withhold nothing.
  - `SwapsReadConfiguration`: the writer concatenates blocks, so the lemmas say
    where each block stands in what `FlattenSeq` makes of them; its start is the sum
    of the widths before it, for the writer and for the reader, and the two lists
    agree field by field from offset 16 on. A number is the sum of its bytes times
    their weights, plus what lies beyond the last byte, which is nothing for a word
    of the field's width.
  - `RouteExecutesAsQuoted`: a ticket's sequence is never ahead of the quote's, and
    the same sequence is the same quote.
  - `SdkAgrees`: the SDK's functions are shown to be the program's one by one; the
    two orders of checks differ, so the errors are compared as "some error", and
    each overflow the SDK does not have is shown not to happen to a trade that
    somebody can pay for.
* `CurveSlotProofs` proves `TypeOK`, `IdlePendingSlotIsActive` and
  `SequenceOrdersChanges` of `CurveSlot`, and that `CurveAudit` implements
  `StagedActivation`. An audited step is a step of the account, so the invariant
  carries over. An activation that names a curve consumes the staging of that
  curve; one that expects the zero hash passes only with nothing pending, where
  the invariant makes the pending slot the active one, and is a stutter.
* `SimulatorProofs` proves all five properties of the `simulate` run, for both
  simulations at once. The first invariant is

  `Inv == TypeInv /\ UpdatesAddUp /\ OrdersAddUp(report) /\ BlameBounded(...) /\ the imbalance bound /\ Measured(report, state) /\ UpdatesLandOnTime`.

  `TypeInv` numbers the updates in flight by the order they were sent in, and
  `UpdatesAddUp` counts them: what lands before an order, what lands after it and
  what stays are disjoint parts of that function's domain. `Measured` says that
  the report's largest imbalance covers the pool's present one: a fill measures
  what it leaves, and nothing else moves the inventory or its target.
  `EnvelopeKeepsQuotesAlive` needs more, `ChainInv`, under the hypothesis that
  updates are periodic and none is dropped: the updates in flight are the last
  ones sent without a gap, the i-th was published at i periods and lands one
  latency later, and the quote in force is the one sent before them (or the
  first, of slot 0). Then the quote in force is younger than period plus
  latency, which the validated envelope keeps below the expiry. That a nonempty
  bounded set of update numbers has a largest member, which "the last pushed wins"
  rests on, is proved by a minimal counterexample among the subsets of a finite
  set (`WFMin`), since induction theorems cannot be used.
* `ToolsProofs` proves all five properties of the `tools` run, for any packs,
  outcomes, documents and recordings.
  - `VerdictBetweenPaths`: every place of a sorted list is taken by one of its
    values, and places are monotone. So each figure of a pack lies between those of
    its paths. A rate divides figures of two fields that different paths may have
    attained; the n-th places of two fields leave so many paths on either side that
    some path is at least the one and at most the other, whose rate is then at least
    the pack's, and some path is the reverse. Gates are monotone in their figure.
  - `BlockedOnlyIfUnavoidable` follows from `CalibrationInv`: reports are graded
    candidates and, once ranked, none comes before the first.
  - `ExportCoversScenarios`: transformations of a pack keep its scenarios on one
    set of parameters (`UniformPacks`), and the envelope takes the extremes of each
    field of their policies.
  - `ImportReadsExport` rests on `ExportInv`: the document is what was written of a
    graded candidate, less one line at most. The names of the numbers and of the
    other fields are apart, so the first place where a name stands is its own; a name
    that is missing is an error of the reader.
  - `InferredPolicyIsRunnable` rests on `ReplayInv`: a policy that was inferred is
    that of the recording's updates. The mean period lies between the shortest and the
    longest gap, the latency among those recorded, and the chance is whole exactly if
    every update landed.

Loops and induction. The library's induction theorems take an operator as a
parameter and cannot be used here. `ArithmeticProofs` states induction over numbers
and over the subsets of a finite set for a set of good members instead
(`NumbersByInduction`, `SubsetsByInduction`, from the well-founded ones), and for
loops that a recursive function exists (`IterationExists`) and stays in any set its
turn stays in (`LoopStays`). That is how the walks of the book, its binary search,
`pow10` and the sums are proved about.

Assumptions are the named `ASSUME`s of the modules: words and basis points are
positive, the sets of arguments hold numbers, keys are finitely many,
`NoAccount` is no account, the maker is a key and the vault is none, `Pow2` holds
powers of two, a hard band (16 bits in the code) fits the word of an imbalance (32
bits), a byte holds more than one value, a parameter fits the field it is stored in
(both are `u64` or both `u16` in the code), and for the router, whose SDK has no
words of its own, that the supply of a mint and a trade limit are words. Of the
tools: a pack has paths, its reports hold numbers, basis points fit 16 bits, and a
cell of a recording is a number, empty or malformed. TLC evaluates them on every
run that extends their module.

**Only model-checked**: `StaleQuoteExpires` (liveness under fairness is outside the
prover's reach, as is ENABLED), and the counterexamples of the four runs that find a
violation. Every other property of a passing run is a theorem.

## 5. Not modelled, and why

* Account addresses, PDA seeds, rent, serialization, events: the models name
  accounts by role, and the constraints that tie them together are guards. The
  SDK's helpers for addresses and account metas belong here.
* The pseudo-random generator: what it draws is a choice, so that every seed is
  covered and no claim is made about distributions.
* Text: printing, the splitting of a line into cells, the reading of digits, the
  characters of a JSON document. A cell or a field is a value, empty or malformed.
* Plain sums and differences of `fixed.rs` and `from_ratio`, which no modelled
  operation calls; saturating totals of a report that nothing reads.
* Branches that no state reaches: the fallback of `base_half_spread_bps` for a quote
  state without a stored spread (`programs/meta_amm/src/lib.rs:882`), as its
  initialization always stores one; and the error of `parse_u16_field` for a number
  that does not fit (`meta_amm_config/src/lib.rs:770`), as the writer's numbers are 16
  bits wide.
* Of the exported document, the lines that only give it structure and the text of
  the findings: none of them equals a name the reader looks for. The names and
  values of the model are apart as well, so that a value that reads like a name,
  which the writer never writes, is not met.
* The Surfpool client: a test of the program, whose expectations are quoted in
  findings.

## 6. Plan

Order of work, most important first. Done: (1) the program's ReferenceQuote path
with its pricing function, (2) curve slots with their
refinement, (3) SDK and router, (4) constant-product baseline, (5) piecewise book,
(6) both simulations, (7) the bytes a configuration is stored in, (8) the arithmetic
below `mul_div_floor`, decimal scaling and path generators, (9) reports, gates,
calibration, export and import, replay files and the command line. All have their
proofs.

The runs are kept to a dozen: a new question joins the run of its module, or a
module that composes two, before it gets a run of its own. Theorems are kept in
eight modules: new ones join the module of their component.

Next: an abstract exchange (a vault that trades at most at the maker's price
and only on a live quote) refined by `MetaAmm`, and an abstract book refined by
`PiecewiseBook`.
