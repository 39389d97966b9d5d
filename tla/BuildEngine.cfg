CONSTANTS
  Builders = {iso, cloud}
  Iso = iso
  RetainPolicies = {"Always", "Never"}
  Accesses = {"none", "own", "generated"}
  Formats = {"qcow2", "gce"}
  Manifests <- Mixed
  MaxRestarts = 1
SPECIFICATION FairSpec
INVARIANT SourceVerified
INVARIANT StepsInOrder
INVARIANT TransientsRemoved
PROPERTY BuildsEnd
