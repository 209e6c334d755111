SPECIFICATION FairCliSpec
CONSTANTS Scenes <- MCCliScenes
          Commands <- MCCommands
INVARIANTS ExitTells LateIsAnError CallsAccounted
PROPERTY CliTerminates
CHECK_DEADLOCK FALSE
