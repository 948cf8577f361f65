\* Two runs of init on one file, an editor that saves twice, two failures.
SPECIFICATION Spec
CHECK_DEADLOCK FALSE
SYMMETRY Identical
CONSTANTS
  i1 = i1
  i2 = i2
  cursor = cursor
  vscode = vscode
  theme = theme
  Inits = {i1, i2}
  Catalog = {cursor, vscode}
  Writable = {cursor}
  Wide = Wide
  Narrowed = Narrowed
  Contents <- MCContents
  Missing = Missing
  MaxSaves = 2
  MaxFaults = 1
PROPERTIES ReplacedIsBackedUp SettingsSurvive
