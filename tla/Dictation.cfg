\* Dictation: three things the user starts, under every way the models, the worker and the X11 tools may fare.
SPECIFICATION MCSpec
CONSTANTS
  small = small
  medium = medium
  none = none
  SttModels = {small, medium}
  NoModel = none
  Tools = {"ok", "noXclip", "readFails", "noPaste", "restoreFails"}
  MaxStarts = 3
CHECK_DEADLOCK FALSE
INVARIANTS
  WaitsHaveWork
  PasteOnlyDictated
  TextInOrder
  ClipboardUntouched
PROPERTIES
  DictationKeepsPromise
  Settles
