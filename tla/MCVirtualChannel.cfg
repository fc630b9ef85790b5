SPECIFICATION Spec
CONSTANTS
  Channels = {"old", "new"}
  Stories <- MCStories
  Closing = {"new"}
  Opening <- MCOpening
  Latest <- MCLatest
  LedgerFunds <- MCFunds
  LedgerTurn <- MCTurn
  Finalizable = {1}
INVARIANTS LedgerSound PaidOut NobodyStuck
PROPERTIES KeepsGuarantee
CHECK_DEADLOCK FALSE
