\* The desktop: two acts in the window and the tray, one press of a hotkey, every order of the polls, saves and quits.
SPECIFICATION MCSpec
CONSTANTS
  small = small
  medium = medium
  none = none
  SttModels = {small, medium}
  NoModel = none
  Tools = {"ok"}
  MaxActs = 2
  MaxHolds = 1
  Tokens <- MCTokens
  Texts <- MCTexts
  Strokes <- MCStrokes
  OnDisk <- MCOnDisk
CHECK_DEADLOCK FALSE
INVARIANTS
  TypeOK
  HeldOpen
  OnlyGrabbedKeys
PROPERTIES
  HiddenIsRecoverable
  QuitIsClean
  PrefsReachDisk
  DictatesAsAlone
