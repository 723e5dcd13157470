-------------------------- MODULE CurveSlotProofs ---------------------------
(***************************************************************************)
(* Theorems about curve activation, for any number of slots, any curves    *)
(* and any sequence numbers.                                               *)
(***************************************************************************)
EXTENDS CurveAudit, TLAPS

(* The invariant: with nothing pending the slot last named is the active   *)
(* one.  Activation needs it to be seen as a step of the abstract module   *)
(* when it names the zero hash.                                            *)
IInv == TypeOK /\ IdlePendingSlotIsActive

(* What each instruction writes, field by field.                           *)
LEMMA StagedFields ==
  ASSUME IInv, NEW signer \in Keys, NEW slot \in SlotArgs, NEW hash \in AnyHash,
         NEW sequence \in Sequences, StageCurveSlot(signer, slot, hash, sequence)
  PROVE  /\ curveSlotState \in CurveSlotStates
         /\ curveSlotState' \in CurveSlotStates
         /\ slot \in CurveSlots /\ hash \in Hashes
         /\ curveSlotState'.active_slot = curveSlotState.active_slot
         /\ curveSlotState'.pending_slot = slot
         /\ curveSlotState'.pending_hash = hash
         /\ curveSlotState'.sequence = sequence
         /\ sequence > curveSlotState.sequence
<1>1. curveSlotState \in CurveSlotStates
  BY DEF StageCurveSlot, IInv, TypeOK,
     UpdateCurveAccounts
<1>2. slot \in CurveSlots /\ hash \in Hashes /\ sequence \in Nat
  BY CurveAssumption DEF StageCurveSlot, ValidCurveSlot, ValidCurveHash,
     CurveSlots, AnyHash, Sequences
<1>. QED
  BY <1>1, <1>2 DEF StageCurveSlot, FreshSequence, CurveSlotStates, AnyHash

(* What an activation does to the account.                                 *)
LEMMA ActivatedFields ==
  ASSUME IInv, NEW signer \in Keys, NEW slot \in SlotArgs, NEW hash \in AnyHash,
         NEW sequence \in Sequences,
         ActivateCurveSlot(signer, slot, hash, sequence)
  PROVE  /\ curveSlotState \in CurveSlotStates
         /\ curveSlotState' \in CurveSlotStates
         /\ slot = curveSlotState.pending_slot
         /\ hash = curveSlotState.pending_hash
         /\ curveSlotState'.active_slot = slot
         /\ curveSlotState'.pending_slot = slot
         /\ curveSlotState'.pending_hash = ZeroHash
         /\ curveSlotState'.sequence = sequence
         /\ sequence > curveSlotState.sequence
<1>1. curveSlotState \in CurveSlotStates
  BY DEF ActivateCurveSlot, IInv, TypeOK,
     UpdateCurveAccounts
<1>2. slot \in CurveSlots /\ sequence \in Nat /\ ZeroHash \in AnyHash
  BY CurveAssumption DEF ActivateCurveSlot, ValidCurveSlot, CurveSlots, AnyHash,
     Sequences
<1>. QED
  BY <1>1, <1>2 DEF ActivateCurveSlot, FreshSequence, PendingMatches,
     CurveSlotStates

(* What the initialization writes.                                         *)
LEMMA InitializedFields ==
  ASSUME NEW signer \in Keys, InitializeCurveSlotState(signer)
  PROVE  /\ curveSlotState = NoAccount
         /\ curveSlotState' \in CurveSlotStates
         /\ curveSlotState'.active_slot = 0 /\ curveSlotState'.pending_slot = 0
         /\ curveSlotState'.pending_hash = ZeroHash
  BY CurveAssumption DEF InitializeCurveSlotState, CurveSlotStates, CurveSlots,
     AnyHash,
     InitializeCurveAccounts

(* Every step keeps the invariant.                                         *)
LEMMA NextIInv == ASSUME IInv, [Next]_vars PROVE IInv'
<1>1. CASE \E signer \in Keys : InitializeCurveSlotState(signer)
  BY <1>1, InitializedFields DEF IInv, TypeOK, IdlePendingSlotIsActive
<1>2. CASE \E signer \in Keys, slot \in SlotArgs, hash \in AnyHash,
              sequence \in Sequences :
             StageCurveSlot(signer, slot, hash, sequence)
  BY <1>2, StagedFields, CurveAssumption DEF IInv, TypeOK, IdlePendingSlotIsActive
<1>3. CASE \E signer \in Keys, slot \in SlotArgs, hash \in AnyHash,
              sequence \in Sequences :
             ActivateCurveSlot(signer, slot, hash, sequence)
  BY <1>3, ActivatedFields DEF IInv, TypeOK, IdlePendingSlotIsActive
<1>4. CASE UNCHANGED vars
  BY <1>4 DEF vars, IInv, TypeOK, IdlePendingSlotIsActive
<1>. QED
  BY <1>1, <1>2, <1>3, <1>4 DEF Next

(* So it holds in every reachable state.                                   *)
LEMMA InvariantHolds == Spec => []IInv
<1>1. Init => IInv
  BY DEF Init, IInv, TypeOK, IdlePendingSlotIsActive
<1>2. IInv /\ [Next]_vars => IInv'
  BY NextIInv
<1>. QED
  BY <1>1, <1>2, PTL DEF Spec

-----------------------------------------------------------------------------
(* Theorems. *)

(* The account keeps its type: only slots in range are ever named.         *)
THEOREM TypeCorrect == Spec => []TypeOK
<1>1. IInv => TypeOK
  BY DEF IInv
<1>. QED
  BY <1>1, InvariantHolds, PTL

(* With nothing pending, the pending slot is the active slot, so that an   *)
(* activation that expects the zero hash changes nothing but the sequence. *)
THEOREM IdleActivationHarmless == Spec => []IdlePendingSlotIsActive
<1>1. IInv => IdlePendingSlotIsActive
  BY DEF IInv
<1>. QED
  BY <1>1, InvariantHolds, PTL

(* No stage or activate instruction can be accepted twice.                 *)
THEOREM SequenceOrders == Spec => SequenceOrdersChanges
<1>. DEFINE Ordered == curveSlotState # NoAccount =>
                         /\ curveSlotState' # NoAccount
                         /\ curveSlotState'.sequence > curveSlotState.sequence
<1>1. ASSUME IInv, Next PROVE Ordered
  BY <1>1, InitializedFields, StagedFields, ActivatedFields, PlaceholderAssumption DEF Next
<1>2. IInv /\ [Next]_vars => [Ordered]_vars
  BY <1>1
<1>. QED
  BY <1>2, InvariantHolds, PTL DEF Spec, SequenceOrdersChanges

(* The history variable only watches: an audited step is a step of the     *)
(* account.                                                                *)
LEMMA AuditOnlyWatches == AuditSpec => Spec
<1>1. AuditInit => Init
  BY DEF AuditInit
<1>2. [AuditNext]_auditVars => [Next]_vars
  BY DEF AuditNext, Next, auditVars, vars
<1>. QED
  BY <1>1, <1>2, PTL DEF AuditSpec, Spec

(* The account implements two-phase activation: whatever curve an          *)
(* activation names was staged for that slot and not replaced since.       *)
THEOREM Refinement == AuditSpec => ImplementsStagedActivation
<1>1. AuditInit => Abstract!Init
  BY DEF AuditInit, Init, Abstract!Init, Abstract!Staging, Active, Staged
<1>2. ASSUME IInv, [AuditNext]_auditVars
      PROVE  [Abstract!Next]_<<Active, Staged>>
  <2>1. ASSUME NEW signer \in Keys, InitializeCurveSlotState(signer),
               UNCHANGED named
        PROVE  UNCHANGED <<Active, Staged>>
    BY <2>1, InitializedFields, PlaceholderAssumption DEF Active, Staged
  <2>2. ASSUME NEW signer \in Keys, NEW slot \in SlotArgs, NEW hash \in AnyHash,
               NEW sequence \in Sequences,
               StageCurveSlot(signer, slot, hash, sequence), UNCHANGED named
        PROVE  /\ slot \in CurveSlots /\ hash \in Hashes
               /\ Abstract!Stage(slot, hash)
    BY <1>2, <2>2, StagedFields, PlaceholderAssumption, CurveAssumption
       DEF Active, Staged, Abstract!Stage, Abstract!Staging
  <2>3. ASSUME NEW signer \in Keys, NEW slot \in SlotArgs, NEW hash \in AnyHash,
               NEW sequence \in Sequences,
               ActivateCurveSlot(signer, slot, hash, sequence), Naming(hash)
        PROVE  Abstract!Activate \/ UNCHANGED <<Active, Staged>>
    <3>1. /\ curveSlotState # NoAccount /\ curveSlotState' # NoAccount
          /\ Active' = [slot |-> curveSlotState.pending_slot, curve |-> named']
          /\ Staged' = NoStaging
      BY <1>2, <2>3, ActivatedFields, PlaceholderAssumption DEF Active, Staged
    <3>2. hash = curveSlotState.pending_hash
      BY <1>2, <2>3, ActivatedFields
    <3>3. CASE hash = ZeroHash
      <4>1. named' = named
        BY <2>3, <3>3 DEF Naming
      <4>. QED
        BY <1>2, <3>1, <3>2, <3>3, <4>1
           DEF Active, Staged, IInv, IdlePendingSlotIsActive
    <3>4. CASE hash # ZeroHash
      <4>1. Staged = [slot |-> curveSlotState.pending_slot, curve |-> hash]
        BY <3>1, <3>2, <3>4 DEF Staged
      <4>2. Staged \in [slot : CurveSlots, curve : Hashes]
        BY <1>2, <2>3, <3>4, <4>1, ActivatedFields DEF CurveSlotStates, AnyHash
      <4>3. Active' = Staged
        BY <2>3, <3>1, <3>4, <4>1 DEF Naming
      <4>. QED
        BY <3>1, <4>2, <4>3, PlaceholderAssumption DEF Abstract!Activate
    <3>. QED
      BY <3>3, <3>4
  <2>4. ASSUME UNCHANGED auditVars PROVE UNCHANGED <<Active, Staged>>
    BY <2>4 DEF auditVars, Active, Staged
  <2>. QED
    BY <1>2, <2>1, <2>2, <2>3, <2>4 DEF AuditNext, Abstract!Next
<1>. QED
  BY <1>1, <1>2, InvariantHolds, AuditOnlyWatches, PTL
     DEF AuditSpec, ImplementsStagedActivation, Abstract!Spec

=============================================================================
