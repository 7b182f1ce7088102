CONSTANTS
  C1 = C1
  C2 = C2
  NoParent = NoParent
  Absent = Absent
  NoDoc = NoDoc
  NoElement = NoElement
  Fragment = Fragment
  Unset = Unset
  Objects <- MC_Objects
  FnResults <- MC_FnResults
  Elements <- MC_Elements
  MaxDepth <- MC_MaxDepth
SPECIFICATION Spec
INVARIANT DocumentOverrideApplies
