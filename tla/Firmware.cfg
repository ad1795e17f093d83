CONSTANTS
  Aps = {ApA, ApB}
  Bssid = ApA
  NoAp = NoAp
  Letters <- MCLetters
  Prompts = 3
  MaxTx = 2
  MaxTyped = 4
SPECIFICATION FirmwareSpec
INVARIANT
  LinesAsEdited
PROPERTIES
  ConnectsOnlyWhenDown
  Reconnects
  Installs
  HeartbeatsResume
