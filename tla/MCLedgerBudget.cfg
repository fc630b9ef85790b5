\* Budgets in a row or at once, and a request to close; one comes out of turn.
SPECIFICATION Spec
CONSTANTS
  Budgets <- MCBudgets
  Policies = {"all", "share"}
  MaxLedgers = 2
  MaxClosings = 1
INVARIANTS BudgetBacked LedgerAnswers
CHECK_DEADLOCK FALSE
