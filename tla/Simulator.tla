------------------------------ MODULE Simulator ------------------------------
(***************************************************************************)
(* A ReferenceQuote simulation of either kind, over the rows of any market.*)
(***************************************************************************)
EXTENDS MarketPath, ReplayPath

vars == <<scenario, state, pending, report, result, nextUpdateSlot>>

Init ==
  /\ SimInit
  /\ MarketInit \/ ReplayInit

Next ==
  \E slot \in 0 .. MaxSlot :
    \/ \E fairPrice \in FairPrices, order \in Orders \cup {NoOrder} :
         \/ MarketRow(slot, fairPrice, order)
         \/ ReplayRow(slot, fairPrice, order)
    \/ RowOutOfOrder(slot)

Spec == Init /\ [][Next]_vars

=============================================================================
