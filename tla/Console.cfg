SPECIFICATION FairSpec
CONSTANTS
  Printers = {"timer"}
  Origin = 0
  Limit = 9
  Screen = 4
  Width = 2
INVARIANTS OverrunBounded TextBeforeCursor RegistersFollow CursorNotBelowScreen
PROPERTIES OperationEnds
