SPECIFICATION Spec
CONSTANTS
  MaxPid = 3
  Roots = 1
  MaxTime = 1
  Usages = {{"delay", "event", "kill", "suspend"},
            {"delay", "await", "kill", "suspend"},
            {"instance_event", "inactive", "nba_region",
             "disable_fork", "fork_label", "suspend"},
            {"condition", "sync_get", "mailbox_put",
             "disable_fork", "label", "task", "suspend"}}
CHECK_DEADLOCK FALSE
INVARIANTS WaitsOnce FinishedIsDone NoStuckJoin NoStuckAwait TreeFollowsForks
PROPERTY KilledNeverStarts
