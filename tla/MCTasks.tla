------------------------------ MODULE MCTasks ------------------------------
(***************************************************************************)
(* A small task table that has every shape of dependency the table of      *)
(* root/preload_main.cpp has: tasks without parents, a group whose last    *)
(* member releases several tasks, a task with two parents, a task whose    *)
(* second parent is a group, and tasks that release one, two and three     *)
(* others.                                                                 *)
(***************************************************************************)
EXTENDS Tasks

Entry(id, grp, p1, p2) ==
  [id |-> id, grp_id |-> grp, parent_id |-> p1, parent_id2 |-> p2]

SmallIds == {"none", "grp_none", "grp_fs", "grp_desk",
             "root", "dev", "all", "setup", "acpi", "slim", "init_d"}

SmallTable ==
  << Entry("root",   "grp_fs",   "none",   "none"),
     Entry("dev",    "grp_fs",   "none",   "none"),
     Entry("all",    "grp_none", "dev",    "none"),
     Entry("setup",  "grp_none", "grp_fs", "none"),
     Entry("acpi",   "grp_none", "grp_fs", "none"),
     Entry("slim",   "grp_desk", "acpi",   "setup"),
     Entry("init_d", "grp_none", "all",    "grp_desk") >>

ASSUME Acyclic
============================================================================
