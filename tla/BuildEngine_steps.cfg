CONSTANTS
  Builders = {iso}
  Iso = iso
  RetainPolicies = {"Always"}
  Accesses = {"own"}
  Formats = {"qcow2"}
  Manifests <- ShellFirst
  MaxRestarts = 1
SPECIFICATION FairSpec
INVARIANT StepsCarriedOut
