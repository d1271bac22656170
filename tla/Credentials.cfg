\* Pages with up to three bundles, each of any content or failing.
CONSTANTS
  europe = europe
  london = london
  Pages <- SomePages
  Bundles <- SomeBundles
  PlayQobuz = 1
  PlayerHosts = {1}
  PlayerPaths = {8}
  Window = 3
  Decodable <- SomeDecodable
  Split <- SomeSplit
  Empty = Empty
  None = None
SPECIFICATION Spec
INVARIANTS ResultIsWhatTheyHold
PROPERTIES AsksForWhatIsMissing
CHECK_DEADLOCK FALSE
