SPECIFICATION Spec
CONSTANT Scenes <- MCScenes
INVARIANT SoundZoneIsValid
CHECK_DEADLOCK FALSE
