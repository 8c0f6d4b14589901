SPECIFICATION Spec
CONSTANTS
  MaxEvents = 3
INVARIANTS
  TypeOK
  BlueMeansAp
  ToggleIsShown
PROPERTIES
  NeverDisturbed
