CONSTANTS
  Kinds = {"aws", "azure", "gcp", "openstack", "vsphere"}
  Vias = {"plugin", "grpc"}
  Units = 5
  ChunkUnits = 2
  MaxTokens = 3
  DataWindow = 2
  Window = 4
SPECIFICATION Spec
INVARIANT CommittedIsStored
INVARIANT ImageIsArtifact
INVARIANT CleanedTarget
