SPECIFICATION AuditSpec
CONSTANTS
  maker = maker
  other = other
  Keys <- TwoKeys
  PoolAuthority = maker
  MaxCurveSlots = 4
  Hashes = {h1, h2}
  ZeroHash = zero
  NoAccount = NoAccount
  NoStaging = NoStaging
  SlotArgs <- SomeSlots
  MaxSequence = 8
INVARIANT TypeOK
INVARIANT IdlePendingSlotIsActive
PROPERTY ImplementsStagedActivation
PROPERTY SequenceOrdersChanges
CHECK_DEADLOCK FALSE
