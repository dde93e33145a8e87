SPECIFICATION FairSpec
CONSTANTS
  Setters = {s1}
  Timeouts = {1, 2}
  Thresholds = {2, 257}
  Lengths = {3}
  Tenth = 2
  Rounds = 3
  Capacity = 2
  Horizon = 2
INVARIANTS
  TypeOK
  WithinArray
  UntimedReadFull
  SettingsAgree
PROPERTY ReadsReturn
