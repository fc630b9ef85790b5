\* Channels may be closed while their funding is pending, or after they ran.
CONSTANTS
  App <- MCApp
  FundAmount <- MCFund
  RefundAmount <- MCRefund
  Settings <- MCSettings
SPECIFICATION FairSpec
CHECK_DEADLOCK FALSE
INVARIANTS
  FundsConserved
  OneStatePerTurn
  SuccessIsAgreed
  NeverThrows
PROPERTIES
  AgreementSpec
  RequestsAnswered
