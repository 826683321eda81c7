\* Two diagrams, three texts and two folders, counting the first ones: renderings overtake each other.
SPECIFICATION FairSpec
CONSTANTS
  MaxTexts = 2
  MaxFolders = 1
  MaxPrints = 1
  Diagrams = 2
CHECK_DEADLOCK FALSE
INVARIANTS TypeOK PreviewCurrent
PROPERTIES NeverBack PreviewSettles
