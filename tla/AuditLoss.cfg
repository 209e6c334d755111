SPECIFICATION Spec
CONSTANT Scenes <- MCScenes
INVARIANT HighMeansCertain
CHECK_DEADLOCK FALSE
