SPECIFICATION Spec
CONSTANT Scenes <- MCScenes
INVARIANT RefusedIsNotAllowed
CHECK_DEADLOCK FALSE
