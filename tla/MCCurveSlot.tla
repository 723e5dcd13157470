---------------------------- MODULE MCCurveSlot -----------------------------
(***************************************************************************)
(* A small instance of CurveAudit: four slots, of which three and one out   *)
(* of range are named by instructions, and two curve hashes.               *)
(***************************************************************************)
EXTENDS CurveAudit

CONSTANTS maker, other

TwoKeys   == {maker, other}
SomeSlots == {0, 1, 3, 4}

=============================================================================
