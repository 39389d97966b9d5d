CONSTANTS
  Kinds = {"openstack"}
  Vias = {"grpc"}
  Units = 5
  ChunkUnits = 2
  MaxTokens = 3
  DataWindow = 2
  Window = 1
SPECIFICATION Spec
PROPERTY AttemptEnds
