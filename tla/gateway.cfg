SPECIFICATION Spec
CONSTANTS
  Texts = {"1", "5", "9", "-1", "transactions"}
  Unsigned <- MCUnsigned
  Signed <- MCSigned
  MaxUint32 = 7
  QueryNames = {"tick_number", "epoch", "identity", "page", "desc", "other"}
  Prefixes = {"v1", "v2", ""}
  AvailableTicks = {1, 4}
INVARIANTS
  RouteUnambiguous
  PathValueServed
  GatewayChecked
