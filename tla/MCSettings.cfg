\* Files of up to three items; three applications of the bindings with up to
\* two plugin layers above, below and around them.
CONSTANTS
  Keys = {1, 2}
  TabKey = 1
  Configs <- MCConfigs
  MaxPlugins = 2
  MaxApplied = 3
SPECIFICATION MCSpec
INVARIANTS LayersAreTransparent SettingsTakeEffect
PROPERTY AppliedKeysAct
CHECK_DEADLOCK FALSE
