CONSTANTS
  Inputs <- MC_Inputs
SPECIFICATION Spec
INVARIANT SnapshotResolvesLikeAuthored
