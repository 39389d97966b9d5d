CONSTANTS
  Kinds = {"aws", "azure", "openstack", "vsphere", "gcp"}
  Requests <- MCRequests
  Servers = {1, 2}
SPECIFICATION Spec
INVARIANT CapturesProvisioned
INVARIANT ReadyIsComplete
INVARIANT CleanedUp
PROPERTY OthersConclude
