\* One call of either client, others of the same client, other clients that write the contract,
\* and a Space upgraded and rolled back.
CONSTANTS
  Callers = {c1}
  None = None
  Releases <- OneByOne
  MaxVersion = 3
  MaxSwitches = 2
SPECIFICATION Spec
INVARIANTS
  TypeOK
  GuaranteesHeld
  WrittenOrNot
  ChangedMeansChanged
  PrivateOnlyAfterSwitch
  NoFalseAlarmIfConditional
  PreviewAsAsked
\* Each caller makes one call.
CHECK_DEADLOCK FALSE
