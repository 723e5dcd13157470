-------------------------- MODULE StagedActivation --------------------------
(***************************************************************************)
(* What two-phase curve activation promises: a curve is first staged for a *)
(* slot, and a curve comes into force only by consuming what is staged.  A *)
(* later staging replaces an earlier one that was never activated.         *)
(***************************************************************************)
CONSTANTS Slots, Curves, Nothing

VARIABLES
  active,   \* the curve in force and its slot; slot 0 and no curve at first
  staged    \* the curve waiting for activation and its slot, or Nothing

Staging(slot, curve) == [slot |-> slot, curve |-> curve]

Init ==
  /\ active = Staging(0, Nothing)
  /\ staged = Nothing

Stage(slot, curve) ==
  /\ staged' = Staging(slot, curve)
  /\ UNCHANGED active

Activate ==
  /\ staged # Nothing
  /\ active' = staged
  /\ staged' = Nothing

Next ==
  \/ \E slot \in Slots, curve \in Curves : Stage(slot, curve)
  \/ Activate

Spec == Init /\ [][Next]_<<active, staged>>

=============================================================================
