\* Photos offered in a document of another folder.
SPECIFICATION Spec
CONSTANTS
  Recs = {r1}
  MaxActs = 3
CHECK_DEADLOCK FALSE
PROPERTY MediaFits
