SPECIFICATION Spec
CONSTANT Scenes <- MCScenes
INVARIANT DialsAreDialable
CHECK_DEADLOCK FALSE
