----------------------------- MODULE BootTable -----------------------------
(***************************************************************************)
(* The task table of the boot program, root/preload_main.cpp: which task   *)
(* belongs to which group and waits for which task or group.  An id is     *)
(* named as in the TASK_ID list.                                           *)
(***************************************************************************)
EXTENDS Sequences

task_id ==
  {"none", "root_fs", "sys_fs", "dev_fs", "run_fs", "tmp_fs", "setup_fs",
   "all_fs", "acpi", "hostname", "deferred", "readahead", "udev", "X",
   "dev_subfs", "udev_trigger", "dbus", "procps", "xfce4", "slim", "init_d",
   "grp_desktop", "grp_none", "grp_krn_fs", "grp_all_fs", "grp_fs"}

Task(id, grp, parent, parent2) ==
  [id |-> id, grp_id |-> grp, parent_id |-> parent, parent_id2 |-> parent2]

tasks ==
  << Task("readahead", "grp_none",    "none",       "none"),
     Task("root_fs",   "grp_krn_fs",  "none",       "none"),
     Task("sys_fs",    "grp_krn_fs",  "none",       "none"),
     Task("dev_fs",    "grp_krn_fs",  "none",       "none"),
     Task("tmp_fs",    "grp_krn_fs",  "none",       "none"),
     Task("run_fs",    "grp_krn_fs",  "none",       "none"),
     Task("deferred",  "grp_all_fs",  "none",       "none"),
     Task("hostname",  "grp_all_fs",  "none",       "none"),
     Task("all_fs",    "grp_all_fs",  "dev_fs",     "none"),
     Task("setup_fs",  "grp_all_fs",  "grp_krn_fs", "none"),
     Task("udev",      "grp_all_fs",  "grp_krn_fs", "none"),
     Task("acpi",      "grp_none",    "grp_all_fs", "none"),
     Task("dbus",      "grp_none",    "grp_all_fs", "none"),
     Task("slim",      "grp_desktop", "acpi",       "dbus"),
     Task("procps",    "grp_none",    "deferred",   "none"),
     Task("init_d",    "grp_none",    "grp_all_fs", "grp_desktop") >>

\* The table of root/test.cpp: no desktop group, and `deferred` is put off
\* until the login manager has been started, which is later in the table.
test_tasks ==
  << Task("readahead", "grp_none",   "none",       "none"),
     Task("root_fs",   "grp_krn_fs", "none",       "none"),
     Task("sys_fs",    "grp_krn_fs", "none",       "none"),
     Task("dev_fs",    "grp_krn_fs", "none",       "none"),
     Task("tmp_fs",    "grp_krn_fs", "none",       "none"),
     Task("run_fs",    "grp_krn_fs", "none",       "none"),
     Task("deferred",  "grp_none",   "slim",       "none"),
     Task("hostname",  "grp_all_fs", "none",       "none"),
     Task("all_fs",    "grp_all_fs", "dev_fs",     "none"),
     Task("setup_fs",  "grp_all_fs", "grp_krn_fs", "none"),
     Task("udev",      "grp_all_fs", "grp_krn_fs", "none"),
     Task("acpi",      "grp_none",   "grp_all_fs", "none"),
     Task("dbus",      "grp_none",   "grp_all_fs", "none"),
     Task("slim",      "grp_none",   "acpi",       "dbus"),
     Task("procps",    "grp_none",   "deferred",   "none"),
     Task("init_d",    "grp_none",   "grp_all_fs", "deferred") >>
============================================================================
