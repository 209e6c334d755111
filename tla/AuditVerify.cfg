SPECIFICATION Spec
CONSTANT Scenes <- MCScenes
INVARIANT ValidMeansAllVerify
CHECK_DEADLOCK FALSE
