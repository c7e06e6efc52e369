SPECIFICATION Spec
CONSTANT Overlap = 1
INVARIANTS  PanelSafe
 
CHECK_DEADLOCK FALSE
