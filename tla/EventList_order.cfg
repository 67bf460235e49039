SPECIFICATION Spec
SYMMETRY AnyAddress
CONSTANTS
  Addresses = {a1, a2, a3, a4}
  NULL = NULL
  Findings <- Found
  MaxSteps = 2
INVARIANTS
  ViewsHold
  NoLeak
PROPERTIES
  ImplementsOrderedEvents
