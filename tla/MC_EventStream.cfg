SPECIFICATION StreamSpec
CONSTANTS
  Contents = {"", "a", "b"}
  Empty = ""
  Messages <- Texts
  MaxMessages = 3
  Noise <- AnyNoise
INVARIANTS
  PrefixEmitted
  AllEmitted
CHECK_DEADLOCK FALSE
