SPECIFICATION Spec
CONSTANTS
  None = None
  Gone = Gone
  NotTheForm = NotTheForm
  DateOf <- MCDateOf
  LengthOf <- MCLengthOf
  JsonOf <- Nothing
  ItemsOf <- Nothing
  MinInt <- MCMinInt
  MaxInt = 2147483647
  MaxSecs = 2147483646
  Skew = 2
  MaxAge = 3
  Requests <- MCRequests
  Alterations <- MCAlterations
  MaxPresentations = 2
  Start <- MCStart
INVARIANTS
  PassedAnswersAll
  FirstRuleIsNamed
  NarrowRangesAreDeclined
PROPERTIES
  FreshProofsOnly
