\* A cache of four bytes, so of three keys, and five codes typed.
CONSTANTS
  KEY_CACHE_SIZE  = 4
  Codes          <- MCCodes
  MaxTyped        = 5
SPECIFICATION Spec
INVARIANT TakenKeysReachTerminal DeliveredInOrder
PROPERTY MissedInterruptIsTheLast ImplementsKeyQueue LockIsAcquired StoredKeysAreTaken
