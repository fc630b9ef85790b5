SPECIFICATION Spec
CONSTANTS
  Nonces <- MCNonces
  Backends = {"indexedDB", "memory"}
  Initially <- MCInitially
  Calls <- MCCalls
  Slots = {1, 2}
  MaxCalls = 4
 
PROPERTY TransactionsAreAtomic
CHECK_DEADLOCK FALSE
