\* Fees, hooks and pauses of a mint between the refreshes of two routes.
SPECIFICATION Spec
CONSTANTS
  Absent = Absent
  Malformed = Malformed
  NotYet = NotYet
  Routes = {r1, r2}
  Fees <- MCFees
  Amounts <- MCAmounts
  MaxEpoch = 5
INVARIANTS TypeOK NeverShort
