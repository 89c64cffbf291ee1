SPECIFICATION ImageSpec
CONSTANT
  MaxHandles = 2
INVARIANT NeverSilent
