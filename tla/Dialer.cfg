CONSTANTS
  Attempts = 50
  Advertise = TRUE
  DialErrs = {"syscall", "perm", "notReady", "other"}
  FnErrs = {"syscall", "perm", "linkChange", "exhausted", "other"}
SPECIFICATION FairSpec
INVARIANTS TypeOK AutoconfRestored NeverSwitchedOn ConnOpenOnlyForFn NilOnlyOnCancel
PROPERTIES CancelReturns RetryEnds
CHECK_DEADLOCK FALSE
