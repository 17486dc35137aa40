SPECIFICATION Spec
CONSTANTS
  MaxBytes = 2
  None = None
CHECK_DEADLOCK FALSE
INVARIANTS LoggedIsSent PanicAnswered ServedIfSound DocumentedAnswer HeadersFit
