----------------------------- MODULE CurveAudit -----------------------------
(***************************************************************************)
(* CurveSlot with a history variable that remembers the curve the last     *)
(* activation named.  The account forgets it: an activation clears the     *)
(* pending hash and keeps none for the active slot.  The variable reads    *)
(* the arguments of the instructions and constrains nothing.               *)
(***************************************************************************)
EXTENDS CurveSlot

VARIABLE named   \* the last curve an activation named, or NoStaging

auditVars == <<curveSlotState, named>>

(* An activation that expects the zero hash names no curve. *)
Naming(expectedHash) ==
  named' = IF expectedHash = ZeroHash THEN named ELSE expectedHash

AuditInit == Init /\ named = NoStaging

AuditNext ==
  \/ /\ \E signer \in Keys : InitializeCurveSlotState(signer)
     /\ UNCHANGED named
  \/ /\ \E signer \in Keys, slot \in SlotArgs, hash \in AnyHash,
           sequence \in Sequences : StageCurveSlot(signer, slot, hash, sequence)
     /\ UNCHANGED named
  \/ \E signer \in Keys, slot \in SlotArgs, hash \in AnyHash,
        sequence \in Sequences :
       ActivateCurveSlot(signer, slot, hash, sequence) /\ Naming(hash)

AuditSpec == AuditInit /\ [][AuditNext]_auditVars

(* The account implements two-phase activation: what is staged is the      *)
(* pending slot and hash, and every activation consumes a staging of that  *)
(* very slot and of the very curve its signer names, so that a staging     *)
(* that came in between cannot bring another curve into force.  An         *)
(* activation that expects the zero hash is a step the abstract            *)
(* specification does not see.                                             *)
Active ==
  [slot  |-> IF curveSlotState = NoAccount THEN 0 ELSE curveSlotState.active_slot,
   curve |-> named]

Staged ==
  IF curveSlotState = NoAccount THEN NoStaging
  ELSE IF curveSlotState.pending_hash = ZeroHash THEN NoStaging
  ELSE [slot  |-> curveSlotState.pending_slot,
        curve |-> curveSlotState.pending_hash]

Abstract == INSTANCE StagedActivation
              WITH Slots <- CurveSlots, Curves <- Hashes, Nothing <- NoStaging,
                   active <- Active, staged <- Staged

ImplementsStagedActivation == Abstract!Spec

=============================================================================
