SPECIFICATION Spec
CONSTANTS
  Items = {1, 2}
  Identities = {"a"}
  MaxSeeds = 2
  MaxChanges = 0
  MaxArtifacts = 1
INVARIANT SeedFinishes
CHECK_DEADLOCK FALSE
