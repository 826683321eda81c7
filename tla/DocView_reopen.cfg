\* Another document is opened while the page still has text of the first one.
SPECIFICATION Spec
CONSTANTS
  Files = {readme, notes}
  Readme = readme
  MaxActs = 3
CHECK_DEADLOCK FALSE
INVARIANT OwnText
