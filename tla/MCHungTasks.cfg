SPECIFICATION HungSpec
CONSTANTS
  Threads = {t1, t2, t3}
  Ids <- task_id
  none_id = "none"
  grp_none_id = "grp_none"
  TaskTable <- tasks
  NoThread = NoThread
  MaxSpurious = 0
  Hung = {"readahead", "setup_fs"}
PROPERTIES
  UnblockedTasksComplete
