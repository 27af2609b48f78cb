SPECIFICATION Spec
CONSTANTS
  Group <- MCGroup
  Address <- MCAddress
  NoAddress = NoAddress
INVARIANTS NoWantedFrameLost NothingUnwanted HashFoldsGroups
