CONSTANTS
  Proc = {p1}
  Nobody = Nobody
  World <- MCWorld
SPECIFICATION Spec
PROPERTIES
  TimeoutAborts
