SPECIFICATION Spec
CONSTANTS
  Objs = {a, b}
  Kinds = {{"ecm"}, {"acm", "rndis"}, {"joystick", "keyboard"}, {"acm", "uas"}}
  Finders = {"any", "cdc", "net", "hid", "msc"}
  OwnKinds = {{"ecm"}}
  Touched = {1}
INVARIANTS TablesAgree DriverFits
SYMMETRY Alike
CHECK_DEADLOCK FALSE
