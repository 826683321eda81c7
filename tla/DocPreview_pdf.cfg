\* A PDF is asked for right after a change.
SPECIFICATION Spec
CONSTANTS
  MaxTexts = 2
  MaxFolders = 1
  MaxPrints = 1
  Diagrams = 2
CHECK_DEADLOCK FALSE
PROPERTY PdfIsCurrent
