SPECIFICATION Spec
INVARIANTS SurfaceSafe LayoutSound 
PROPERTIES SurfaceSteps
CHECK_DEADLOCK FALSE
