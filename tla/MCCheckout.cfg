CONSTANTS
  Accounts = {alice, bob}
  None = None
  MaxInvoices = 2
  MaxCalls = 3
  Limits <- MCLimits
SYMMETRY AccountSymmetry
SPECIFICATION Spec
INVARIANT OperationAwaited
PROPERTIES
  PaidInvoiceConfirmed
  OwnedIsRecorded
CHECK_DEADLOCK FALSE
