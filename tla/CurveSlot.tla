----------------------------- MODULE CurveSlot ------------------------------
(***************************************************************************)
(* The curve-slot account of a pool (CurveSlotState in programs/meta_amm): *)
(* the pool authority stages the hash of a curve for one of the slots and  *)
(* later activates it; both carry one strictly growing sequence number.    *)
(* Swaps do not read this account.  The pool it belongs to exists, and its *)
(* authority never changes.                                                *)
(***************************************************************************)
EXTENDS Naturals

CONSTANTS
  Keys, PoolAuthority,
  MaxCurveSlots,   \* MAX_CURVE_SLOTS, 16 in the code
  Hashes,          \* curve hashes other than the zero hash
  ZeroHash,        \* [0; 32]
  NoAccount, NoStaging,
  SlotArgs,        \* slot arguments offered, valid or not
  MaxSequence      \* bound on sequence numbers

ASSUME CurveAssumption ==
  /\ PoolAuthority \in Keys
  /\ MaxCurveSlots \in Nat \ {0}
  /\ ZeroHash \notin Hashes
  /\ SlotArgs \subseteq Nat
  /\ MaxSequence \in Nat

VARIABLE curveSlotState

vars == <<curveSlotState>>

CurveSlots == 0 .. MaxCurveSlots - 1
AnyHash    == Hashes \cup {ZeroHash}
Sequences  == 0 .. MaxSequence

CurveSlotStates ==
  [active_slot : CurveSlots, pending_slot : CurveSlots,
   pending_hash : AnyHash, sequence : Nat]

ASSUME PlaceholderAssumption ==
  /\ NoAccount \notin CurveSlotStates
  /\ NoStaging \notin [slot : CurveSlots, curve : Hashes]

TypeOK == curveSlotState = NoAccount \/ curveSlotState \in CurveSlotStates

Init == curveSlotState = NoAccount

(* Account constraints of the two kinds of instruction. *)
InitializeCurveAccounts(authority) ==
  curveSlotState = NoAccount /\ authority = PoolAuthority

UpdateCurveAccounts(authority) ==
  curveSlotState # NoAccount /\ authority = PoolAuthority

InitializeCurveSlotState(signer) ==
  /\ InitializeCurveAccounts(signer)
  /\ curveSlotState' = [active_slot |-> 0, pending_slot |-> 0,
                        pending_hash |-> ZeroHash, sequence |-> 0]

(* Mutation: one slot too many. *)
ValidCurveSlot_OneTooMany(slot) == slot <= MaxCurveSlots

(* validate_curve_slot. *)
ValidCurveSlot(slot) == slot < MaxCurveSlots

ValidCurveHash(hash) == hash # ZeroHash

(* Mutation: the sequence number of the last instruction is accepted. *)
FreshSequence_Replayed(sequence) == sequence >= curveSlotState.sequence

FreshSequence(sequence) == sequence > curveSlotState.sequence

StageCurveSlot(signer, slot, hash, sequence) ==
  /\ UpdateCurveAccounts(signer)
  /\ ValidCurveSlot(slot)
  /\ ValidCurveHash(hash)
  /\ FreshSequence(sequence)
  /\ curveSlotState' = [curveSlotState EXCEPT !.pending_slot = slot,
                                              !.pending_hash = hash,
                                              !.sequence = sequence]

(* Mutation: only the hash is compared. *)
PendingMatches_HashOnly(slot, expectedHash) ==
  curveSlotState.pending_hash = expectedHash

(* Mutation: only the slot is compared. *)
PendingMatches_SlotOnly(slot, expectedHash) ==
  curveSlotState.pending_slot = slot

(* The staged curve the activation names must be the one that is pending.  *)
PendingMatches(slot, expectedHash) ==
  /\ curveSlotState.pending_slot = slot
  /\ curveSlotState.pending_hash = expectedHash

ActivateCurveSlot(signer, slot, expectedHash, sequence) ==
  /\ UpdateCurveAccounts(signer)
  /\ ValidCurveSlot(slot)
  /\ FreshSequence(sequence)
  /\ PendingMatches(slot, expectedHash)
  /\ curveSlotState' = [curveSlotState EXCEPT !.active_slot = slot,
                                              !.pending_hash = ZeroHash,
                                              !.sequence = sequence]

Next ==
  \/ \E signer \in Keys : InitializeCurveSlotState(signer)
  \/ \E signer \in Keys, slot \in SlotArgs, hash \in AnyHash,
        sequence \in Sequences : StageCurveSlot(signer, slot, hash, sequence)
  \/ \E signer \in Keys, slot \in SlotArgs, hash \in AnyHash,
        sequence \in Sequences : ActivateCurveSlot(signer, slot, hash, sequence)

Spec == Init /\ [][Next]_vars

-----------------------------------------------------------------------------
(* Properties. *)

(* With nothing pending, the slot last named is the active one.  The zero  *)
(* hash stands for "nothing staged" but passes the hash comparison, so an  *)
(* activation that expects it is accepted; this is why it cannot move the  *)
(* active slot.                                                            *)
IdlePendingSlotIsActive ==
  curveSlotState # NoAccount /\ curveSlotState.pending_hash = ZeroHash =>
    curveSlotState.pending_slot = curveSlotState.active_slot

(* Every accepted instruction carries a larger sequence number, so no      *)
(* signed staging or activation can be accepted twice, and one signed      *)
(* before a later one was accepted is dead.                                *)
SequenceOrdersChanges ==
  [][curveSlotState # NoAccount =>
       /\ curveSlotState' # NoAccount
       /\ curveSlotState'.sequence > curveSlotState.sequence]_vars

=============================================================================
