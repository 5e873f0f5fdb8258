----------------------------- MODULE BootProofs -----------------------------
(***************************************************************************)
(* Proofs about the boot program, for every command line, fstab, set of    *)
(* devices and number of threads, and whichever steps may fail; what the   *)
(* fstab has to leave alone is a hypothesis of the theorems that need it.  *)
(***************************************************************************)
EXTENDS Boot, SequenceTheorems, TLAPS

----------------------------------------------------------------------------
(* Which kinds of steps there are *)

\* Task j goes on to the next step of its function, whatever the one at hand
\* has done to the system.
Advances(j) ==
  /\ Busy(j)
  /\ pos' = [pos EXCEPT ![j] = @ + 1]
  /\ UNCHANGED <<mainvars, progress, over>>

\* Every step of the tasks starts one, ends one, finds a device or goes on to
\* the next step of a function.
LEMMA StepKinds ==
  ASSUME [Next]_vars
  PROVE  \/ MainStep
         \/ \E j \in Jobs : \/ StartTask(j) \/ EndTask(j) \/ FindDevice(j)
                            \/ Advances(j)
         \/ UNCHANGED vars
<1>1. ASSUME NEW j \in Jobs, TaskStep(j)
      PROVE  EndTask(j) \/ FindDevice(j) \/ Advances(j)
  <2>1. CASE RemountRoot(j)
    BY <2>1 DEF RemountRoot, Does, Advances
  <2>2. CASE MountFs(j)
    BY <2>2 DEF MountFs, Does, Advances
  <2>3. CASE MakePath(j)
    BY <2>3 DEF MakePath, Does, Advances
  <2>4. CASE MountAll(j)
    BY <2>4 DEF MountAll, Does, Advances
  <2>5. CASE DeferredEnd(j)
    BY <2>5 DEF DeferredEnd, Does, Advances
  <2>6. CASE StartUdevd(j)
    BY <2>6 DEF StartUdevd, Does, Advances
  <2>7. CASE Trigger(j)
    BY <2>7 DEF Trigger, Does, Advances
  <2>8. CASE SetName(j)
    BY <2>8 DEF SetName, Does, Advances
  <2>9. CASE RunProgram(j)
    BY <2>9 DEF RunProgram, Does, Advances
  <2>10. CASE Fails(j)
    BY <2>10 DEF Fails, AfterFailure, Advances
  <2> QED
    BY <1>1, <2>1, <2>2, <2>3, <2>4, <2>5, <2>6, <2>7, <2>8, <2>9, <2>10
    DEF TaskStep
<1> QED BY <1>1 DEF Next, Ended

----------------------------------------------------------------------------
(* The stages of main and the order of the tasks *)

\* A task is at the first step of its function before it starts, and behind
\* the last when it is done.
Positions ==
  /\ DOMAIN pos = Jobs
  /\ \A j \in Jobs : /\ pos[j] \in 1 .. Len(Code[j]) + 1
                     /\ progress[j] = "waiting" => pos[j] = 1
                     /\ progress[j] = "done" => pos[j] = Len(Code[j]) + 1

\* What a task needs was done when the task was started.
InOrder ==
  \A j \in Jobs : progress[j] # "waiting" =>
    \A d \in WaitsFor(j) : d \in Jobs /\ progress[d] = "done"

\* Tasks are executed in the stage "tasks" only, and all of them are; with
\* CINIT set, init does not run the scripts of run level S.
Stages ==
  /\ main \in {"procfs", "cmdline", "environment", "tasks", "exec", "init",
               "runlevel-2", "panic"}
  /\ {bootchartd, single, collector, cinit} \subseteq BOOLEAN /\ rcS = FALSE
  /\ progress \in [Jobs -> {"waiting", "running", "done"}]
  /\ main \in {"procfs", "cmdline", "environment"} =>
       \A j \in Jobs : progress[j] = "waiting"
  /\ main \in {"exec", "init", "runlevel-2", "panic"} =>
       \A j \in Jobs : progress[j] = "done"
  /\ main \notin {"procfs", "cmdline", "environment"} => cinit

Control == Positions /\ InOrder /\ Stages

\* The tasks of the table, and their functions.
LEMMA JobsAre ==
  Jobs = {"readahead", "root_fs", "sys_fs", "dev_fs", "tmp_fs", "run_fs",
          "deferred", "hostname", "all_fs", "setup_fs", "udev", "acpi", "dbus",
          "slim", "procps", "init_d"}
BY DEF Jobs, tasks, Task

LEMMA CodeIs ==
  /\ Code["readahead"] = << >>
  /\ Code["root_fs"] = << Remount >>
  /\ Code["sys_fs"] = << Mount(<<"sys">>) >>
  /\ Code["dev_fs"] = << Mount(<<"dev">>), Make(<<"dev", "pts">>), Mount(<<"dev", "pts">>) >>
  /\ Code["tmp_fs"] = << Mount(<<"tmp">>) >>
  /\ Code["run_fs"] = << Mount(<<"run">>) >>
  /\ Code["deferred"] = << ReadDeferred, Launch("udevadm-trigger") >>
  /\ Code["hostname"] = << SetHostname >>
  /\ Code["all_fs"] = << Launch("mount-a") >>
  /\ Code["udev"] = << Launch("udevd"), Launch("udevadm-trigger") >>
  /\ Code["setup_fs"] =
       << Make(<<"run", "lock">>), Make(<<"run", "shm">>),
          Make(<<"var", "run">>), Make(<<"var", "lock">>),
          Make(<<"dev", "shm">>), Make(<<"tmp", ".X11-unix">>),
          Make(<<"tmp", ".ICE-unix">>) >>
  /\ Code["acpi"] = << Launch("acpid") >>
  /\ Code["dbus"] = << Launch("dbus") >>
  /\ Code["slim"] = << Launch("slim") >>
  /\ Code["procps"] = << Launch("sysctl") >>
  /\ Code["init_d"] =
       << Launch("keyboard-setup"), Launch("hwclock"), Launch("kbd"),
          Launch("console-setup"), Launch("udev-finish"), Launch("urandom"),
          Launch("networking") >>
BY JobsAre DEF Code, Function, readahead, mount_root, mount_sysfs, mount_devfs,
   mount_tmp, mount_run, deferred_modules, hostname_s, mount_all, setup_fs, udev,
   acpi_daemon, dbus, slim, procps, init_d

LEMMA CodeType ==
  ASSUME NEW j \in Jobs
  PROVE  Len(Code[j]) \in Nat /\ DOMAIN Code[j] = 1 .. Len(Code[j])
<1>1. CASE j = "readahead"
  BY <1>1, CodeIs
<1>2. CASE j \in {"root_fs", "sys_fs", "tmp_fs", "run_fs", "hostname", "all_fs",
                  "acpi", "dbus", "slim", "procps"}
  BY <1>2, CodeIs
<1>3. CASE j \in {"deferred", "udev"}
  BY <1>3, CodeIs
<1>4. CASE j = "dev_fs"
  BY <1>4, CodeIs
<1>5. CASE j \in {"setup_fs", "init_d"}
  BY <1>5, CodeIs
<1> QED BY <1>1, <1>2, <1>3, <1>4, <1>5, JobsAre

LEMMA ControlInit ==
  ASSUME Init
  PROVE  Control
<1>1. Positions
  BY CodeType DEF Init, Runner!Init, Positions
<1>2. InOrder
  BY DEF Init, Runner!Init, InOrder
<1>3. Stages
  BY DEF Init, Runner!Init, Stages
<1> QED BY <1>1, <1>2, <1>3 DEF Control

LEMMA ControlNext ==
  ASSUME Control, [Next]_vars
  PROVE  Control'
<1> USE DEF Control, Positions, InOrder, Stages
<1>1. CASE MainStep
  <2>1. CASE MountProcfs
    BY <2>1 DEF MountProcfs, local, taskvars
  <2>2. CASE ReadCmdline
    BY <2>2 DEF ReadCmdline, taskvars
  <2>3. CASE Prepare
    BY <2>3 DEF Prepare, Environment, taskvars
  <2>4. CASE TasksDone
    BY <2>4 DEF TasksDone, Runner!Finish, local
  <2>5. CASE ExecInit
    BY <2>5 DEF ExecInit, local, taskvars
  <2>6. CASE RunRcS
    BY <2>6 DEF RunRcS, local, taskvars
  <2> QED BY <1>1, <2>1, <2>2, <2>3, <2>4, <2>5, <2>6 DEF MainStep
<1>2. ASSUME NEW j \in Jobs, StartTask(j) PROVE Control'
  <2>1. /\ progress[j] = "waiting"
        /\ \A d \in WaitsFor(j) : d \in Jobs /\ progress[d] = "done"
        /\ progress' = [progress EXCEPT ![j] = "running"]
        /\ main = "tasks" /\ UNCHANGED <<mainvars, pos>>
    BY <1>2 DEF StartTask, Runner!StartJob, Runner!MayStart, Needs
  <2> QED BY <2>1 DEF mainvars, local
<1>3. ASSUME NEW j \in Jobs, EndTask(j) PROVE Control'
  <2>1. /\ progress[j] = "running" /\ pos[j] = Len(Code[j]) + 1
        /\ progress' = [progress EXCEPT ![j] = "done"]
        /\ main = "tasks" /\ UNCHANGED <<mainvars, pos>>
    BY <1>3, CodeType DEF EndTask, Runner!CompleteJob
  <2> QED BY <2>1 DEF mainvars, local
<1>4. ASSUME NEW j \in Jobs, Advances(j) PROVE Control'
  <2>1. /\ progress[j] = "running" /\ pos[j] \in 1 .. Len(Code[j])
        /\ pos' = [pos EXCEPT ![j] = @ + 1]
        /\ UNCHANGED <<mainvars, progress>>
    BY <1>4, CodeType DEF Advances, Busy
  <2> QED BY <2>1, CodeType DEF mainvars, local
<1>5. ASSUME UNCHANGED <<mainvars, progress, pos>> PROVE Control'
  BY <1>5 DEF mainvars, local
<1>6. ASSUME NEW j \in Jobs, FindDevice(j) PROVE Control'
  BY <1>5, <1>6 DEF FindDevice, taskvars
<1>7. CASE UNCHANGED vars
  BY <1>5, <1>7 DEF vars, taskvars
<1> QED BY <1>1, <1>2, <1>3, <1>4, <1>6, <1>7, StepKinds

\* The stages of main, the order of the table and the positions of the functions
\* are kept, whatever the steps of the functions do or fail to do.
THEOREM BootControl == Spec => []Control
<1>1. Init => Control
  BY ControlInit
<1>2. Control /\ [Next]_vars => Control'
  BY ControlNext
<1> QED BY <1>1, <1>2, PTL DEF Spec

\* The system is set up once, by the tasks: init finds CINIT set and all tasks
\* done, on every way from the kernel to run level 2.
THEOREM BootSetsUpOnce == Spec => []RunLevelSOnce
<1>1. Control => RunLevelSOnce
  BY DEF Control, Stages, RunLevelSOnce
<1> QED BY <1>1, BootControl, PTL

----------------------------------------------------------------------------
(* The table *)

KernelFs == {"root_fs", "sys_fs", "dev_fs", "tmp_fs", "run_fs"}
AllFs == {"deferred", "hostname", "all_fs", "setup_fs", "udev"}

LEMMA EntriesAre ==
  Range(tasks) =
    {Task("readahead", "grp_none", "none", "none"),
     Task("root_fs", "grp_krn_fs", "none", "none"),
     Task("sys_fs", "grp_krn_fs", "none", "none"),
     Task("dev_fs", "grp_krn_fs", "none", "none"),
     Task("tmp_fs", "grp_krn_fs", "none", "none"),
     Task("run_fs", "grp_krn_fs", "none", "none"),
     Task("deferred", "grp_all_fs", "none", "none"),
     Task("hostname", "grp_all_fs", "none", "none"),
     Task("all_fs", "grp_all_fs", "dev_fs", "none"),
     Task("setup_fs", "grp_all_fs", "grp_krn_fs", "none"),
     Task("udev", "grp_all_fs", "grp_krn_fs", "none"),
     Task("acpi", "grp_none", "grp_all_fs", "none"),
     Task("dbus", "grp_none", "grp_all_fs", "none"),
     Task("slim", "grp_desktop", "acpi", "dbus"),
     Task("procps", "grp_none", "deferred", "none"),
     Task("init_d", "grp_none", "grp_all_fs", "grp_desktop")}
BY DEF tasks, Range

LEMMA TaskIs ==
  ASSUME NEW id, NEW grp, NEW parent, NEW parent2
  PROVE  /\ Task(id, grp, parent, parent2).id = id
         /\ Task(id, grp, parent, parent2).grp_id = grp
         /\ Task(id, grp, parent, parent2).parent_id = parent
         /\ Task(id, grp, parent, parent2).parent_id2 = parent2
BY DEF Task

LEMMA GroupsAre ==
  /\ MembersOf("grp_krn_fs") = KernelFs
  /\ MembersOf("grp_all_fs") = AllFs
  /\ MembersOf("dev_fs") = {"dev_fs"}
  /\ MembersOf("acpi") = {"acpi"}
  /\ MembersOf("dbus") = {"dbus"}
<1>1. ASSUME NEW e \in Range(tasks)
      PROVE  /\ "grp_krn_fs" \in {e.id, e.grp_id} => e.id \in KernelFs
             /\ "grp_all_fs" \in {e.id, e.grp_id} => e.id \in AllFs
             /\ "dev_fs" \in {e.id, e.grp_id} => e.id = "dev_fs"
             /\ "acpi" \in {e.id, e.grp_id} => e.id = "acpi"
             /\ "dbus" \in {e.id, e.grp_id} => e.id = "dbus"
  BY <1>1, EntriesAre DEF Task, KernelFs, AllFs
<1>2. ASSUME NEW x, NEW e \in Range(tasks), x \in {e.id, e.grp_id}
      PROVE  e.id \in MembersOf(x)
  BY <1>2 DEF MembersOf
<1>3. ASSUME NEW x, NEW id \in MembersOf(x)
      PROVE  \E e \in Range(tasks) : id = e.id /\ x \in {e.id, e.grp_id}
  BY <1>3 DEF MembersOf
<1>4. KernelFs \subseteq MembersOf("grp_krn_fs")
  BY <1>2, EntriesAre, TaskIs DEF KernelFs
<1>5. AllFs \subseteq MembersOf("grp_all_fs")
  BY <1>2, EntriesAre, TaskIs DEF AllFs
<1>6. /\ "dev_fs" \in MembersOf("dev_fs") /\ "acpi" \in MembersOf("acpi")
      /\ "dbus" \in MembersOf("dbus")
  BY <1>2, EntriesAre, TaskIs
<1>7. /\ MembersOf("grp_krn_fs") \subseteq KernelFs
      /\ MembersOf("grp_all_fs") \subseteq AllFs
      /\ MembersOf("dev_fs") \subseteq {"dev_fs"}
      /\ MembersOf("acpi") \subseteq {"acpi"}
      /\ MembersOf("dbus") \subseteq {"dbus"}
  BY <1>1, <1>3
<1> QED BY <1>4, <1>5, <1>6, <1>7

LEMMA ParentsAre ==
  ASSUME NEW e \in Range(tasks)
  PROVE  ParentIds(e.id) = {e.parent_id, e.parent_id2} \ {"none"}
<1>1. \A f, g \in Range(tasks) : f.id = g.id => f = g
  BY EntriesAre DEF Task
<1>2. Entry(e.id) = e
  BY <1>1 DEF Entry
<1> QED BY <1>2 DEF ParentIds

LEMMA WaitsAre ==
  /\ WaitsFor("setup_fs") = KernelFs
  /\ WaitsFor("udev") = KernelFs
  /\ WaitsFor("all_fs") = {"dev_fs"}
  /\ WaitsFor("acpi") = AllFs
  /\ WaitsFor("dbus") = AllFs
  /\ {"acpi", "dbus"} \subseteq WaitsFor("slim")
  /\ AllFs \subseteq WaitsFor("init_d")
<1>1. /\ ParentIds("setup_fs") = {"grp_krn_fs"}
      /\ ParentIds("udev") = {"grp_krn_fs"}
      /\ ParentIds("all_fs") = {"dev_fs"}
      /\ ParentIds("acpi") = {"grp_all_fs"}
      /\ ParentIds("dbus") = {"grp_all_fs"}
      /\ ParentIds("slim") = {"acpi", "dbus"}
      /\ ParentIds("init_d") = {"grp_all_fs", "grp_desktop"}
  <2>1. ASSUME NEW id, NEW grp, NEW parent, NEW parent2,
               Task(id, grp, parent, parent2) \in Range(tasks)
        PROVE  ParentIds(id) = {parent, parent2} \ {"none"}
    BY <2>1, ParentsAre, TaskIs
  <2> QED BY <2>1, EntriesAre
<1> QED BY <1>1, GroupsAre DEF WaitsFor

----------------------------------------------------------------------------
(* Types *)

\* udevd has been told only of devices that a driver has found.
Devices ==
  /\ {rw, udevd, reported} \subseteq BOOLEAN
  /\ announced \subseteq present /\ present \subseteq BuiltIn \cup Deferred

LEMMA DevicesNext ==
  ASSUME Devices, [Next]_vars
  PROVE  Devices'
<1> USE DEF Devices
<1>1. CASE UNCHANGED <<sysvars, reported>>
  BY <1>1 DEF sysvars, files, devices
<1>2. CASE MainStep
  BY <1>2 DEF MainStep, MountProcfs, ReadCmdline, Prepare, TasksDone, ExecInit,
              RunRcS, sysvars, files, devices
<1>3. ASSUME NEW j \in Jobs, TaskStep(j) PROVE Devices'
  <2>1. CASE RemountRoot(j) \/ MountFs(j) \/ MakePath(j) \/ MountAll(j) \/ SetName(j)
    BY <2>1 DEF RemountRoot, MountFs, MakePath, MountAll, SetName, Does, files, devices
  <2>2. CASE FindDevice(j)
    BY <2>2 DEF FindDevice, FoundBy, files
  <2>3. CASE StartUdevd(j)
    BY <2>3 DEF StartUdevd, Does, files
  <2>4. CASE Trigger(j)
    BY <2>4 DEF Trigger, Repeated, Does, files
  <2>5. CASE DeferredEnd(j) \/ RunProgram(j) \/ EndTask(j)
    BY <1>1, <2>5 DEF DeferredEnd, RunProgram, Does, EndTask
  <2>6. CASE Fails(j)
    <3>1. reported' \in BOOLEAN
      BY <2>6, Zenon DEF Fails
    <3>2. UNCHANGED <<rw, devices>>
      BY <2>6 DEF Fails, sysvars, files
    <3> QED BY <3>1, <3>2 DEF devices
  <2> QED BY <1>3, <2>1, <2>2, <2>3, <2>4, <2>5, <2>6 DEF TaskStep
<1>4. ASSUME NEW j \in Jobs, StartTask(j) PROVE Devices'
  BY <1>1, <1>4 DEF StartTask
<1> QED BY <1>1, <1>2, <1>3, <1>4 DEF Next, Ended, vars

\* Every function is at one of its calls, the boot at one of its stages, and
\* no event reaches udevd for a device without a driver, whatever fails.
THEOREM BootTypes == Spec => []TypeOK
<1>1. Init => Devices
  BY DEF Init, Devices
<1>2. Devices /\ [Next]_vars => Devices'
  BY DevicesNext
<1>3. Control /\ Devices => TypeOK
  <2> SUFFICES ASSUME Control, Devices PROVE TypeOK
    OBVIOUS
  <2>1. {bootchartd, single, collector, cinit, rcS, rw, udevd, reported} \subseteq BOOLEAN
    BY DEF Control, Stages, Devices
  <2> QED BY <2>1 DEF Control, Positions, Stages, Devices, TypeOK
<1> QED BY <1>1, <1>2, <1>3, BootControl, PTL DEF Spec

----------------------------------------------------------------------------
(* What the steps of the functions are *)

SetupPaths ==
  {<<"run", "lock">>, <<"run", "shm">>, <<"var", "run">>, <<"var", "lock">>,
   <<"dev", "shm">>, <<"tmp", ".X11-unix">>, <<"tmp", ".ICE-unix">>}
MadePaths == {<<"dev", "pts">>} \cup SetupPaths
OwnMounts == {<<"sys">>, <<"dev">>, <<"dev", "pts">>, <<"run">>, <<"tmp">>}

\* Which step of which task does what.
StepAt(j, i, s) ==
  /\ s.op = "make" => \/ j = "dev_fs" /\ i = 2 /\ s.arg = <<"dev", "pts">>
                      \/ j = "setup_fs" /\ s.arg \in SetupPaths
  /\ s.op = "mount" => \/ j = "sys_fs" /\ s.arg = <<"sys">>
                       \/ j = "dev_fs" /\ i = 1 /\ s.arg = <<"dev">>
                       \/ j = "dev_fs" /\ i = 3 /\ s.arg = <<"dev", "pts">>
                       \/ j = "run_fs" /\ s.arg = <<"run">>
                       \/ j = "tmp_fs" /\ s.arg = <<"tmp">>
  /\ s.op = "remount" => j = "root_fs"
  /\ s.op = "mount-a" => j = "all_fs"
  /\ s.op = "sethostname" => j = "hostname"
  /\ s.op = "read_deferred" => j = "deferred" /\ i = 1 /\ s = ReadDeferred
  /\ s.op = "udevd" => j = "udev" /\ i = 1
  /\ s.op = "udevadm-trigger" => j \in {"udev", "deferred"} /\ i = 2

LEMMA StepsAre ==
  ASSUME NEW j \in Jobs, NEW i \in DOMAIN Code[j]
  PROVE  StepAt(j, i, Code[j][i])
<1> USE DEF StepAt, Remount, Mount, Make, Launch, ReadDeferred, SetHostname, Step
<1>1. CASE j = "readahead"
  BY <1>1, CodeIs
<1>2. CASE j \in {"root_fs", "sys_fs", "tmp_fs", "run_fs"}
  BY <1>2, CodeIs
<1>3. CASE j \in {"hostname", "all_fs", "acpi", "dbus", "slim", "procps"}
  BY <1>3, CodeIs
<1>4. CASE j \in {"deferred", "udev"}
  BY <1>4, CodeIs
<1>5. CASE j = "dev_fs"
  BY <1>5, CodeIs
<1>6. CASE j = "setup_fs"
  BY <1>6, CodeIs, SMTT(30) DEF SetupPaths
<1>7. CASE j = "init_d"
  BY <1>7, CodeIs
<1> QED BY <1>1, <1>2, <1>3, <1>4, <1>5, <1>6, <1>7, JobsAre

LEMMA MadePathsAreMade ==
  ASSUME NEW path \in MadePaths
  PROVE  \E s \in Steps : s.op = "make" /\ s.arg = path
<1>1. ASSUME NEW j \in Jobs, NEW i \in DOMAIN Code[j]
      PROVE  Code[j][i] \in Steps
  <2>1. Code[j][i] \in Range(Code[j])
    BY DEF Range
  <2> QED BY <2>1 DEF Steps
<1>2. CASE path = <<"dev", "pts">>
  <2>1. "dev_fs" \in Jobs /\ 2 \in DOMAIN Code["dev_fs"]
    BY JobsAre, CodeIs
  <2>2. Code["dev_fs"][2] = Make(path)
    BY <1>2, CodeIs
  <2> QED BY <1>1, <2>1, <2>2 DEF Make, Step
<1>3. CASE path \in SetupPaths
  <2>1. "setup_fs" \in Jobs /\ DOMAIN Code["setup_fs"] = 1 .. 7
    BY JobsAre, CodeIs
  <2>2. \E i \in 1 .. 7 : Code["setup_fs"][i] = Make(path)
    BY <1>3, CodeIs DEF SetupPaths
  <2> QED BY <1>1, <2>1, <2>2 DEF Make, Step
<1> QED BY <1>2, <1>3 DEF MadePaths

----------------------------------------------------------------------------
(* Which file system a path is on *)

LEMMA PrefixesAre ==
  ASSUME NEW path \in MadePaths, NEW m \in {<<"proc">>, Root} \cup OwnMounts
  PROVE  IsStrictPrefix(m, path) <=> m \in {Root, <<path[1]>>}
BY DEF MadePaths, SetupPaths, OwnMounts, Root, IsStrictPrefix, IsPrefix

LEMMA FirstIsPrefix ==
  ASSUME NEW path \in MadePaths
  PROVE  IsPrefix(<<path[1]>>, path) /\ <<path[1]>> # path
BY DEF MadePaths, SetupPaths, IsPrefix

\* Nothing of fstab is mounted at a path or above it.
Clear(path) == \A m \in Fstab : ~IsPrefix(m, path)

\* The fstab leaves the paths that the tasks make alone.
FstabClear == \A s \in Steps : s.op = "make" => Clear(s.arg)

LEMMA AllAreClear ==
  ASSUME FstabClear, NEW path \in MadePaths
  PROVE  Clear(path)
BY MadePathsAreMade DEF FstabClear

\* What the tasks, mount -a and main mount.
AnyMounts == Fstab \cup {<<"proc">>} \cup OwnMounts

\* Holder(path) for a given set of mounts, so that the lemma serves before and
\* after a step.
AboveIn(mounts, path) == {m \in mounts \cup {Root} : IsStrictPrefix(m, path)}
HolderIn(mounts, path) ==
  CHOOSE m \in AboveIn(mounts, path) : \A n \in AboveIn(mounts, path) : Len(n) <= Len(m)

\* A path that a task makes is on the file system mounted on its first
\* component, or else on the root file system, unless the fstab has a mount
\* above it.
LEMMA HolderInIs ==
  ASSUME NEW mounts \in SUBSET AnyMounts, NEW path \in MadePaths, Clear(path)
  PROVE  HolderIn(mounts, path) = IF <<path[1]>> \in mounts THEN <<path[1]>> ELSE Root
<1> DEFINE above == AboveIn(mounts, path)
<1>1. ASSUME NEW m \in Fstab PROVE ~IsStrictPrefix(m, path)
  BY DEF Clear, IsStrictPrefix
<1>2. above = {Root} \cup (mounts \cap {<<path[1]>>})
  <2>1. ASSUME NEW m \in mounts
        PROVE  IsStrictPrefix(m, path) => m \in {Root, <<path[1]>>}
    BY <1>1, PrefixesAre DEF AnyMounts
  <2>2. IsStrictPrefix(<<path[1]>>, path)
    BY FirstIsPrefix DEF IsStrictPrefix
  <2> QED BY <2>1, <2>2, PrefixesAre DEF AboveIn
<1>3. Len(<<path[1]>>) = 1 /\ Len(Root) = 0 /\ <<path[1]>> # Root
  BY DEF Root
<1>4. CASE <<path[1]>> \in mounts
  <2>1. above = {Root, <<path[1]>>}
    BY <1>2, <1>4
  <2> QED BY <1>3, <1>4, <2>1 DEF HolderIn
<1>5. CASE <<path[1]>> \notin mounts
  <2>1. above = {Root}
    BY <1>2, <1>5
  <2> QED BY <1>3, <1>5, <2>1 DEF HolderIn
<1> QED BY <1>4, <1>5

LEMMA HolderIs ==
  ASSUME NEW path \in MadePaths, Clear(path)
  PROVE  /\ mounted \subseteq AnyMounts =>
              Holder(path) = IF <<path[1]>> \in mounted THEN <<path[1]>> ELSE Root
         /\ mounted' \subseteq AnyMounts =>
              Holder(path)' = IF <<path[1]>> \in mounted' THEN <<path[1]>> ELSE Root
<1>1. Holder(path) = HolderIn(mounted, path) /\ Holder(path)' = HolderIn(mounted', path)
  BY DEF Holder, Above, HolderIn, AboveIn
<1> QED BY <1>1, HolderInIs

\* What was made is where it was made, and no function has a mount ahead that
\* would cover it; the fstab may have one.
Placed ==
  /\ mounted \subseteq AnyMounts
  /\ \A f \in made : f[1] \in MadePaths
  /\ \A f \in made : Clear(f[1]) =>
       /\ f[2] = Holder(f[1])
       /\ \A j \in Jobs : \A i \in pos[j] .. Len(Code[j]) :
            Code[j][i].op = "mount" => Code[j][i].arg # <<f[1][1]>>

\* A step that mounts nothing on the first component of a path that was made
\* leaves what was made in its place.
LEMMA PlacedStays ==
  ASSUME Placed, Control, Control',
         UNCHANGED made, mounted' \subseteq AnyMounts, mounted \subseteq mounted',
         \A f \in made : Clear(f[1]) =>
           (<<f[1][1]>> \in mounted' => <<f[1][1]>> \in mounted),
         \A j \in Jobs : pos'[j] >= pos[j]
  PROVE  Placed'
<1>1. ASSUME NEW f \in made, Clear(f[1])
      PROVE  f[2] = Holder(f[1])'
  BY <1>1, HolderIs DEF Placed
<1>2. ASSUME NEW f \in made, Clear(f[1]), NEW j \in Jobs, NEW i \in pos'[j] .. Len(Code[j])
      PROVE  Code[j][i].op = "mount" => Code[j][i].arg # <<f[1][1]>>
  <2>1. i \in pos[j] .. Len(Code[j])
    BY CodeType DEF Control, Positions
  <2> QED BY <1>2, <2>1 DEF Placed
<1> QED BY <1>1, <1>2 DEF Placed

LEMMA PlacedNext ==
  ASSUME Placed, Control, Control', [Next]_vars
  PROVE  Placed'
<1>1. \A j \in Jobs : pos[j] \in Nat
  BY CodeType DEF Control, Positions
<1>2. ASSUME UNCHANGED <<mounted, made>>, \A j \in Jobs : pos'[j] >= pos[j]
      PROVE  Placed'
  BY <1>2, PlacedStays DEF Placed
<1>3. ASSUME UNCHANGED <<files, pos>> PROVE Placed'
  BY <1>1, <1>2, <1>3 DEF files
<1>4. CASE MainStep
  <2>1. CASE MountProcfs
    <3>1. \A f \in made : <<f[1][1]>> # <<"proc">>
      BY DEF Placed, MadePaths, SetupPaths
    <3>2. mounted' \subseteq AnyMounts
      BY <2>1 DEF MountProcfs, Placed, AnyMounts
    <3> QED BY <1>1, <2>1, <3>1, <3>2, PlacedStays DEF MountProcfs, taskvars
  <2>2. CASE UNCHANGED <<files, pos>>
    BY <1>3, <2>2
  <2> QED
    BY <1>4, <2>1, <2>2
    DEF MainStep, ReadCmdline, Prepare, TasksDone, ExecInit, RunRcS, taskvars, sysvars
<1>5. ASSUME NEW j \in Jobs, TaskStep(j) PROVE Placed'
  <2>1. ASSUME Advances(j)
        PROVE  /\ pos[j] \in DOMAIN Code[j] /\ StepAt(j, pos[j], Now(j))
               /\ progress[j] = "running"
               /\ \A k \in Jobs : pos'[k] >= pos[k]
               /\ pos'[j] = pos[j] + 1
    <3>1. pos[j] \in DOMAIN Code[j] /\ pos' = [pos EXCEPT ![j] = @ + 1]
      BY <2>1 DEF Advances, Busy
    <3> QED BY <1>1, <2>1, <3>1, StepsAre DEF Advances, Busy, Now, Control, Positions
  <2>2. CASE MountFs(j)
    <3>1. Advances(j) /\ Now(j).op = "mount"
      BY <2>2 DEF MountFs, Does, Advances
    <3>2. mounted' \subseteq AnyMounts
      BY <2>1, <2>2, <3>1 DEF MountFs, StepAt, Placed, AnyMounts, OwnMounts
    <3>3. ASSUME NEW f \in made, Clear(f[1]) PROVE <<f[1][1]>> # Now(j).arg
      BY <1>1, <2>1, <3>1, <3>3, CodeType DEF Placed, Now
    <3> QED BY <2>1, <2>2, <3>1, <3>2, <3>3, PlacedStays DEF MountFs
  <2>3. CASE MountAll(j)
    <3>1. Advances(j)
      BY <2>3 DEF MountAll, Does, Advances
    <3>2. ASSUME NEW f \in made, Clear(f[1]) PROVE <<f[1][1]>> \notin Fstab
      BY <3>2, FirstIsPrefix DEF Placed, Clear
    <3> QED
      BY <2>1, <2>3, <3>1, <3>2, PlacedStays DEF MountAll, Placed, AnyMounts
  <2>4. CASE MakePath(j)
    <3> DEFINE p == Now(j).arg
    <3>1. Advances(j) /\ Now(j).op = "make"
      BY <2>4 DEF MakePath, Does, Advances
    <3>2. p \in MadePaths
      BY <2>1, <3>1 DEF StepAt, MadePaths
    <3>3. ASSUME NEW k \in Jobs, NEW i \in pos'[k] .. Len(Code[k]),
                 Code[k][i].op = "mount"
          PROVE  Code[k][i].arg # <<p[1]>>
      <4>1. i \in DOMAIN Code[k] /\ i \in pos[k] .. Len(Code[k])
        BY <1>1, <2>1, <3>1, CodeType DEF Control, Positions
      <4>2. StepAt(k, i, Code[k][i])
        BY <4>1, StepsAre
      <4>3. CASE j = "dev_fs"
        <5>1. p = <<"dev", "pts">> /\ (k = "dev_fs" => i > 2)
          BY <1>1, <2>1, <3>1, <4>3 DEF StepAt
        <5>2. p[1] = "dev" /\ <<p[1]>> = <<"dev">>
          BY <5>1
        <5>3. /\ <<"sys">> # <<"dev">> /\ <<"run">> # <<"dev">> /\ <<"tmp">> # <<"dev">>
              /\ <<"dev", "pts">> # <<"dev">>
          OBVIOUS
        <5>4. i # 1 \/ k # "dev_fs"
          BY <5>1
        <5>5. Code[k][i].arg \in {<<"sys">>, <<"dev", "pts">>, <<"run">>, <<"tmp">>}
          BY <3>3, <4>2, <5>4 DEF StepAt
        <5> QED BY <5>2, <5>3, <5>5
      <4>4. CASE j = "setup_fs"
        <5>1. k \notin KernelFs
          <6> SUFFICES ASSUME k \in KernelFs PROVE FALSE
            OBVIOUS
          <6>1. progress[k] = "done"
            BY <2>1, <3>1, <4>4, WaitsAre DEF Control, InOrder
          <6> QED BY <4>1, <6>1, CodeType DEF Control, Positions
        <5> QED BY <3>3, <4>2, <5>1 DEF StepAt, KernelFs
      <4> QED BY <2>1, <3>1, <4>3, <4>4 DEF StepAt
    <3>4. made' = made \cup {<<p, Holder(p)>>} /\ mounted' = mounted
      BY <2>4 DEF MakePath
    <3>5. ASSUME NEW f \in made'
          PROVE  f[1] \in MadePaths /\ (Clear(f[1]) => f[2] = Holder(f[1])')
      <4>1. Holder(f[1])' = Holder(f[1])
        BY <3>4 DEF Holder, Above
      <4> QED BY <3>2, <3>4, <4>1 DEF Placed
    <3>6. ASSUME NEW f \in made, Clear(f[1]), NEW k \in Jobs, NEW i \in pos'[k] .. Len(Code[k])
          PROVE  Code[k][i].op = "mount" => Code[k][i].arg # <<f[1][1]>>
      <4>1. i \in pos[k] .. Len(Code[k])
        BY <1>1, <2>1, <3>1, CodeType DEF Control, Positions
      <4> QED BY <3>6, <4>1 DEF Placed
    <3> QED BY <3>3, <3>4, <3>5, <3>6 DEF Placed
  <2>5. CASE UNCHANGED <<mounted, made>> /\ Advances(j)
    BY <1>2, <2>1, <2>5
  <2>6. CASE UNCHANGED <<files, pos>>
    BY <1>3, <2>6
  <2>7. CASE RemountRoot(j) \/ DeferredEnd(j) \/ StartUdevd(j) \/ Trigger(j)
             \/ SetName(j) \/ RunProgram(j) \/ Fails(j)
    BY <2>5, <2>7 DEF RemountRoot, DeferredEnd, StartUdevd, Trigger, SetName,
       RunProgram, Fails, AfterFailure, Does, Advances, files, sysvars
  <2> QED
    BY <1>5, <2>2, <2>3, <2>4, <2>6, <2>7
    DEF TaskStep, FindDevice, EndTask, taskvars, sysvars
<1>6. ASSUME NEW j \in Jobs, StartTask(j) PROVE Placed'
  BY <1>3, <1>6 DEF StartTask, sysvars
<1> QED BY <1>3, <1>4, <1>5, <1>6 DEF Next, Ended, vars, taskvars, sysvars

\* Nothing but the fstab covers what a task has made: for every fstab and
\* whichever steps fail, a path with no mount of the fstab above it stays on
\* the file system it was made on.
OnlyFstabHides == \A f \in made : Clear(f[1]) => Holder(f[1]) = f[2]

THEOREM BootHidesOnlyByFstab ==
  Spec => [](OnlyFstabHides /\ \A f \in made : f[1] \in MadePaths)
<1>1. Init => Placed
  BY DEF Init, Placed
<1>2. Control /\ Control' /\ Placed /\ [Next]_vars => Placed'
  BY PlacedNext
<1>3. Placed => OnlyFstabHides /\ \A f \in made : f[1] \in MadePaths
  BY DEF Placed, OnlyFstabHides
<1> QED BY <1>1, <1>2, <1>3, BootControl, PTL DEF Spec

\* A directory or link that a task makes is never covered by a later mount of
\* another task, whichever steps fail, if the fstab leaves the paths alone; the
\* order of the table does not protect them from mount -a.
THEOREM BootHidesNothing ==
  ASSUME FstabClear
  PROVE  Spec => []NothingHidden
<1>1. OnlyFstabHides /\ (\A f \in made : f[1] \in MadePaths) => NothingHidden
  BY AllAreClear DEF OnlyFstabHides, NothingHidden
<1> QED BY <1>1, BootHidesOnlyByFstab, PTL

----------------------------------------------------------------------------
(* What the tasks leave behind *)

\* A step of a task that fails by itself is one whose failure is printed, the
\* kernel takes the host name, /etc/hostname, when it has a text, ends in a
\* newline and fits into the buffer, and the fstab does not mount /dev again.
Sound ==
  /\ \A s \in Steps : s.arg \in MayFail => Reported(s)
  /\ Len(HostName) <= NameMax
  /\ HostFile \notin {NoFile, ""} =>
       /\ Len(HostFile) <= HostSize
       /\ SubSeq(HostFile, 1, Len(HostFile) - 1) \o "\n" = HostFile
  /\ Clear(<<"dev", "pts">>)

\* The effect of a step that has been done.
Effect(s) ==
  /\ s.op = "remount" => rw
  /\ s.op = "mount" => s.arg \in mounted
  /\ s.op = "make" => \E f \in made : f[1] = s.arg /\ f = <<f[1], f[2]>>
  /\ s.op = "mount-a" => Fstab \subseteq mounted
  /\ s.op = "read_deferred" => Deferred \subseteq present
  /\ s.op = "udevd" => udevd
  /\ s.op = "sethostname" => hostname = HostName

\* Every step before the one that comes next has had its effect, and udevd has
\* been told of all devices once the trigger behind its start is done.
Effects ==
  /\ main # "procfs" => <<"proc">> \in mounted
  /\ \A j \in Jobs : \A i \in 1 .. pos[j] - 1 : Effect(Code[j][i])
  /\ BuiltIn \subseteq present
  /\ pos["udev"] > 2 => present \subseteq announced

\* Nothing that a step has done is undone.
LEMMA EffectsLast ==
  ASSUME [Next]_vars
  PROVE  /\ rw => rw'
         /\ udevd => udevd'
         /\ mounted \subseteq mounted' /\ made \subseteq made' /\ present \subseteq present'
         /\ hostname' \in {hostname, HostName}
<1>1. CASE UNCHANGED sysvars
  BY <1>1 DEF sysvars, files, devices
<1>2. CASE MainStep
  BY <1>2 DEF MainStep, MountProcfs, ReadCmdline, Prepare, TasksDone, ExecInit,
              RunRcS, sysvars, files, devices
<1>3. ASSUME NEW j \in Jobs, TaskStep(j)
      PROVE  /\ rw => rw'
             /\ udevd => udevd'
             /\ mounted \subseteq mounted' /\ made \subseteq made' /\ present \subseteq present'
             /\ hostname' \in {hostname, HostName}
  <2>1. CASE RemountRoot(j) \/ MountFs(j) \/ MakePath(j) \/ MountAll(j) \/ SetName(j)
    BY <2>1 DEF RemountRoot, MountFs, MakePath, MountAll, SetName, files, devices
  <2>2. CASE FindDevice(j) \/ StartUdevd(j) \/ Trigger(j)
    BY <2>2 DEF FindDevice, FoundBy, StartUdevd, Trigger, files
  <2>3. CASE DeferredEnd(j) \/ RunProgram(j) \/ Fails(j) \/ EndTask(j)
    BY <1>1, <2>3 DEF DeferredEnd, RunProgram, Fails, EndTask
  <2> QED BY <1>3, <2>1, <2>2, <2>3 DEF TaskStep
<1>4. ASSUME NEW j \in Jobs, StartTask(j) PROVE UNCHANGED sysvars
  BY <1>4 DEF StartTask
<1> QED BY <1>1, <1>2, <1>3, <1>4 DEF Next, Ended, vars

LEMMA EffectLasts ==
  ASSUME [Next]_vars, NEW s, Effect(s)
  PROVE  Effect(s)'
BY EffectsLast DEF Effect

\* The tasks that a task waits for are done, and with them all their steps.
LEMMA NeedsDone ==
  ASSUME Control, Effects, NEW j \in Jobs, progress[j] # "waiting",
         NEW d \in WaitsFor(j)
  PROVE  \A i \in DOMAIN Code[d] : Effect(Code[d][i])
<1>1. d \in Jobs /\ pos[d] = Len(Code[d]) + 1
  BY DEF Control, InOrder, Positions
<1>2. ASSUME NEW i \in DOMAIN Code[d] PROVE i \in 1 .. pos[d] - 1
  BY <1>1, CodeType
<1> QED BY <1>1, <1>2 DEF Effects

LEMMA KernelFsReady ==
  ASSUME Control, Effects, NEW j \in Jobs, progress[j] # "waiting",
         KernelFs \subseteq WaitsFor(j)
  PROVE  /\ rw
         /\ \A m \in OwnMounts : m \in mounted
         /\ \E f \in made : f[1] = <<"dev", "pts">> /\ f = <<f[1], f[2]>>
<1>1. /\ Effect(Code["root_fs"][1]) /\ Effect(Code["sys_fs"][1])
      /\ Effect(Code["dev_fs"][1]) /\ Effect(Code["dev_fs"][2])
      /\ Effect(Code["dev_fs"][3])
      /\ Effect(Code["run_fs"][1]) /\ Effect(Code["tmp_fs"][1])
  BY NeedsDone, CodeIs DEF KernelFs
<1>2. /\ Code["root_fs"][1] = Remount /\ Code["sys_fs"][1] = Mount(<<"sys">>)
      /\ Code["dev_fs"][1] = Mount(<<"dev">>) /\ Code["dev_fs"][2] = Make(<<"dev", "pts">>)
      /\ Code["dev_fs"][3] = Mount(<<"dev", "pts">>)
      /\ Code["run_fs"][1] = Mount(<<"run">>) /\ Code["tmp_fs"][1] = Mount(<<"tmp">>)
  BY CodeIs
<1> QED
  BY <1>1, <1>2 DEF Effect, OwnMounts, Remount, Mount, Make, Step

\* If no failure has been printed, no step is impossible when it comes: what it
\* relies on has been mounted or made.
LEMMA AllPossible ==
  ASSUME Sound, Control, Effects, Placed, NEW j \in Jobs, Busy(j)
  PROVE  Possible(Now(j))
<1>1. /\ main = "tasks" /\ progress[j] = "running"
      /\ pos[j] \in DOMAIN Code[j] /\ pos[j] \in Nat
  BY CodeType DEF Busy
<1>2. StepAt(j, pos[j], Now(j))
  BY <1>1, StepsAre DEF Now
<1>3. CASE Now(j).op = "mount"
  <2>1. CASE j = "dev_fs" /\ pos[j] = 3
    <3>1. Effect(Code["dev_fs"][2]) /\ Code["dev_fs"][2] = Make(<<"dev", "pts">>)
      BY <2>1, CodeIs DEF Effects
    <3>2. Now(j).arg = <<"dev", "pts">>
      BY <1>2, <1>3, <2>1 DEF StepAt
    <3>3. Exists(<<"dev", "pts">>)
      <4>1. PICK f \in made : f[1] = <<"dev", "pts">> /\ f = <<f[1], f[2]>>
        BY <3>1 DEF Effect, Make, Step
      <4>2. Clear(f[1])
        BY <4>1 DEF Sound
      <4>3. f[2] = Holder(f[1])
        BY <4>2 DEF Placed
      <4> QED BY <4>1, <4>3 DEF Exists
    <3> QED BY <1>3, <3>2, <3>3 DEF Possible
  <2>2. CASE ~(j = "dev_fs" /\ pos[j] = 3)
    <3>1. Len(Now(j).arg) = 1
      BY <1>2, <1>3, <2>2 DEF StepAt
    <3> QED BY <1>3, <3>1 DEF Possible
  <2> QED BY <2>1, <2>2
<1>4. CASE Now(j).op = "make"
  <2>1. CASE j = "dev_fs"
    <3>1. pos[j] = 2 /\ Now(j).arg = <<"dev", "pts">>
      BY <1>2, <1>4, <2>1 DEF StepAt
    <3>2. Effect(Code["dev_fs"][1]) /\ Code["dev_fs"][1] = Mount(<<"dev">>)
      BY <2>1, <3>1, CodeIs DEF Effects
    <3>3. <<"dev">> \in mounted
      BY <3>2 DEF Effect, Mount, Step
    <3>4. Holder(<<"dev", "pts">>) = <<"dev">>
      <4>1. <<"dev", "pts">> \in MadePaths /\ Clear(<<"dev", "pts">>)
        BY DEF MadePaths, Sound
      <4>2. mounted \subseteq AnyMounts
        BY DEF Placed
      <4> QED BY <3>3, <4>1, <4>2, HolderIs
    <3>5. <<"dev">> # Root
      BY DEF Root
    <3> QED BY <1>4, <3>1, <3>4, <3>5 DEF Possible
  <2>2. CASE j = "setup_fs"
    BY <1>1, <1>4, <2>2, KernelFsReady, WaitsAre DEF Possible
  <2> QED BY <1>2, <1>4, <2>1, <2>2 DEF StepAt
<1>5. CASE Now(j).op = "mount-a"
  <2>1. j = "all_fs"
    BY <1>2, <1>5 DEF StepAt
  <2>2. Effect(Code["dev_fs"][1]) /\ Code["dev_fs"][1] = Mount(<<"dev">>)
    BY <1>1, <2>1, NeedsDone, WaitsAre, CodeIs, SMTT(30)
  <2> QED BY <1>5, <2>2 DEF Possible, Effect, Mount, Step
<1>6. CASE Now(j).op = "read_deferred"
  BY <1>1, <1>6 DEF Possible, Effects
<1>7. CASE Now(j).op = "sethostname"
  BY <1>7 DEF Possible, Sound
<1> QED BY <1>3, <1>4, <1>5, <1>6, <1>7 DEF Possible

\* A failure that has been printed stays so.
LEMMA ReportedStays ==
  ASSUME [Next]_vars
  PROVE  reported => reported'
<1>1. ASSUME NEW j \in Jobs, TaskStep(j)
      PROVE  reported => reported'
  BY <1>1 DEF TaskStep, RemountRoot, MountFs, MakePath, MountAll, FindDevice,
     DeferredEnd, StartUdevd, Trigger, SetName, RunProgram, Fails, EndTask, Does
<1>2. ASSUME NEW j \in Jobs, StartTask(j)
      PROVE  reported => reported'
  BY <1>2 DEF StartTask
<1>3. CASE MainStep
  BY <1>3 DEF MainStep, MountProcfs, ReadCmdline, Prepare, TasksDone, ExecInit, RunRcS
<1> QED BY <1>1, <1>2, <1>3 DEF Next, Ended, vars

\* A step that does not fail, and so prints no failure, has its effect.
LEMMA StepHasEffect ==
  ASSUME Sound, Control, Effects, Placed, ~reported', NEW j \in Jobs, TaskStep(j),
         Advances(j), NEW i, i = pos[j]
  PROVE  /\ Effect(Code[j][i])'
         /\ Code[j][i].op = "udevadm-trigger" => Trigger(j)
         /\ Trigger(j) \/ UNCHANGED <<present, announced>>
<1>1. ~Fails(j)
  <2> SUFFICES ASSUME Fails(j) PROVE FALSE
    OBVIOUS
  <2>1. Now(j) \in Steps
    BY DEF Advances, Busy, Now, Steps, Range
  <2>2. Now(j).arg \in MayFail
    BY AllPossible DEF Fails
  <2> QED BY <2>1, <2>2 DEF Fails, Sound
<1>2. CASE RemountRoot(j)
  BY <1>2 DEF RemountRoot, Does, Effect, Now, devices, sysvars
<1>3. CASE MountFs(j)
  BY <1>3 DEF MountFs, Does, Effect, Now, devices, sysvars
<1>4. CASE MakePath(j)
  <2>1. /\ Code[j][i].op = "make"
        /\ <<Code[j][i].arg, Holder(Code[j][i].arg)>> \in made'
        /\ UNCHANGED <<present, announced>>
    BY <1>4 DEF MakePath, Does, Now, devices
  <2> QED BY <2>1 DEF Effect
<1>5. CASE MountAll(j)
  BY <1>5 DEF MountAll, Does, Effect, Now, devices, sysvars
<1>6. CASE DeferredEnd(j)
  BY <1>6 DEF DeferredEnd, Does, Effect, Now, devices, sysvars
<1>7. CASE StartUdevd(j)
  BY <1>7 DEF StartUdevd, Does, Effect, Now, devices, sysvars
<1>8. CASE Trigger(j)
  BY <1>8 DEF Trigger, Does, Effect, Now, devices, sysvars
<1>9. CASE SetName(j)
  BY <1>9 DEF SetName, Does, Effect, Now, devices, sysvars
<1>10. CASE RunProgram(j)
  <2>1. Now(j).op \in Programs
    BY <1>10 DEF RunProgram, Does
  <2> QED BY <1>10, <2>1 DEF Programs, Effect, Now, RunProgram, sysvars, devices
<1>11. ~EndTask(j) /\ ~FindDevice(j)
  <2>1. pos' # pos
    BY CodeType DEF Advances, Control, Positions
  <2> QED BY <2>1 DEF EndTask, FindDevice, taskvars
<1> QED
  BY <1>1, <1>2, <1>3, <1>4, <1>5, <1>6, <1>7, <1>8, <1>9, <1>10, <1>11 DEF TaskStep

LEMMA UdevdFirst == "udev" \in Jobs /\ Code["udev"][1].op = "udevd"
BY JobsAre, CodeIs DEF Launch, Step

LEMMA EffectsNext ==
  ASSUME Sound, Control, Devices, Effects, Placed, [Next]_vars, ~reported'
  PROVE  Effects'
<1>1. BuiltIn \subseteq present'
  BY EffectsLast DEF Effects
<1>2. (main # "procfs" => <<"proc">> \in mounted)'
  <2>1. CASE MountProcfs
    BY <2>1 DEF MountProcfs
  <2>2. CASE ~MountProcfs
    <3>1. main' # "procfs" => main # "procfs"
      BY <2>2, StepKinds DEF MainStep, ReadCmdline, Prepare, TasksDone, ExecInit, RunRcS,
         StartTask, EndTask, FindDevice, Advances, mainvars, vars
    <3> QED BY <3>1, EffectsLast DEF Effects
  <2> QED BY <2>1, <2>2
<1>3. ASSUME UNCHANGED pos
      PROVE  \A j \in Jobs : \A i \in 1 .. pos'[j] - 1 : Effect(Code[j][i])'
  BY <1>3, EffectLasts DEF Effects
<1>4. ASSUME UNCHANGED pos, UNCHANGED <<present, announced>>
      PROVE  Effects'
  BY <1>1, <1>2, <1>3, <1>4 DEF Effects
<1>5. CASE MainStep
  BY <1>4, <1>5 DEF MainStep, MountProcfs, ReadCmdline, Prepare, TasksDone, ExecInit,
     RunRcS, taskvars, sysvars, devices
<1>6. ASSUME NEW j \in Jobs, StartTask(j) PROVE Effects'
  BY <1>4, <1>6 DEF StartTask, sysvars, devices
<1>7. CASE UNCHANGED vars
  BY <1>4, <1>7 DEF vars, taskvars, sysvars, devices
<1>8. ASSUME NEW j \in Jobs, TaskStep(j) PROVE Effects'
  <2>1. CASE EndTask(j)
    BY <1>4, <2>1 DEF EndTask, sysvars, devices
  <2>2. CASE FindDevice(j)
    <3>1. UNCHANGED pos
      BY <2>2 DEF FindDevice, taskvars
    <3>2. pos["udev"] > 2 => present' \subseteq announced'
      <4> SUFFICES ASSUME pos["udev"] > 2 PROVE present' \subseteq announced'
        OBVIOUS
      <4>0. "udev" \in Jobs
        BY JobsAre
      <4>1. "udev" \in Jobs /\ 1 \in 1 .. pos["udev"] - 1
        BY <4>0 DEF Control, Positions
      <4>2. udevd
        BY <4>1, UdevdFirst DEF Effects, Effect
      <4> QED BY <2>2, <4>2 DEF FindDevice, FoundBy, Effects
    <3> QED BY <1>1, <1>2, <1>3, <3>1, <3>2 DEF Effects
  <2>3. CASE Advances(j)
    <3>1. /\ pos[j] \in DOMAIN Code[j] /\ pos' = [pos EXCEPT ![j] = @ + 1]
          /\ progress[j] = "running"
      BY <2>3 DEF Advances, Busy
    <3>2. ASSUME NEW k \in Jobs, NEW i \in 1 .. pos'[k] - 1
          PROVE  Effect(Code[k][i])'
      <4>1. CASE k = j /\ i = pos[j]
        BY <1>8, <2>3, <4>1, StepHasEffect
      <4>2. CASE ~(k = j /\ i = pos[j])
        <5>1. i \in 1 .. pos[k] - 1
          BY <3>1, <4>2 DEF Control, Positions
        <5> QED BY <5>1, EffectLasts DEF Effects
      <4> QED BY <4>1, <4>2
    <3>3. ASSUME pos'["udev"] > 2 PROVE present' \subseteq announced'
      <4>1. CASE j = "udev" /\ pos[j] = 2
        <5>1. Code[j][2].op = "udevadm-trigger"
          BY <4>1, CodeIs DEF Launch, Step
        <5>2. Trigger(j)
          BY <1>8, <2>3, <4>1, <5>1, StepHasEffect
        <5>3. udevd
          BY <3>1, <4>1, UdevdFirst DEF Effects, Effect
        <5>4. <<"sys">> \in mounted
          BY <3>1, <4>1, KernelFsReady, WaitsAre DEF OwnMounts
        <5> QED BY <5>2, <5>3, <5>4 DEF Trigger, Repeated
      <4>2. CASE ~(j = "udev" /\ pos[j] = 2)
        <5>1. pos["udev"] > 2
          <6>1. "udev" \in Jobs
            BY JobsAre
          <6>2. pos["udev"] \in Nat /\ pos[j] \in Nat /\ DOMAIN pos = Jobs
            BY <6>1 DEF Control, Positions
          <6>3. pos'["udev"] = IF j = "udev" THEN pos[j] + 1 ELSE pos["udev"]
            BY <3>1, <6>1, <6>2
          <6> QED BY <3>3, <4>2, <6>2, <6>3
        <5>2. Trigger(j) \/ UNCHANGED <<present, announced>>
          BY <1>8, <2>3, StepHasEffect
        <5> QED BY <5>1, <5>2 DEF Effects, Trigger
      <4> QED BY <4>1, <4>2
    <3> QED BY <1>1, <1>2, <3>2, <3>3 DEF Effects
  <2> QED
    BY <1>8, <2>1, <2>2, <2>3 DEF TaskStep, RemountRoot, MountFs, MakePath, MountAll,
       DeferredEnd, StartUdevd, Trigger, SetName, RunProgram, Fails, AfterFailure,
       Does, Advances
<1> QED BY <1>5, <1>6, <1>7, <1>8 DEF Next, Ended

\* What an application finds whatever the fstab holds, a separate /var included,
\* if no failure has been printed: everything but the paths that the fstab may
\* have covered.
ReadyButForFstab ==
  ~reported /\ (\E j \in Applications : progress[j] # "waiting") =>
    /\ rw
    /\ Fstab \subseteq mounted
    /\ \A s \in Steps : /\ s.op = "mount" => s.arg \in mounted
                        /\ s.op = "make" /\ Clear(s.arg) => Exists(s.arg)
    /\ announced = BuiltIn \cup Deferred
    /\ HostFile \notin {NoFile, ""} => hostname \o "\n" = HostFile

THEOREM BootFindsAllButCovered ==
  ASSUME Sound
  PROVE  Spec => []ReadyButForFstab
<1> DEFINE Ready == ~reported => Effects
<1>1. Init => Ready /\ Devices /\ Placed
  <2> SUFFICES ASSUME Init PROVE Effects /\ Devices /\ Placed
    OBVIOUS
  <2>1. "udev" \in Jobs
    BY JobsAre
  <2>2. \A j \in Jobs : pos[j] = 1
    BY DEF Init
  <2>3. Effects
    BY <2>1, <2>2 DEF Init, Effects
  <2> QED BY <2>3 DEF Init, Devices, Placed
<1>2. Control /\ Control' /\ Ready /\ Devices /\ Placed /\ [Next]_vars =>
        (Ready /\ Devices /\ Placed)'
  BY EffectsNext, ReportedStays, DevicesNext, PlacedNext
<1>3. Control /\ Ready /\ Devices /\ Placed => ReadyButForFstab
  <2> SUFFICES ASSUME Control, Ready, Devices, Placed, ~reported,
                      NEW a \in Applications, progress[a] # "waiting"
               PROVE  /\ rw
                      /\ Fstab \subseteq mounted
                      /\ \A s \in Steps : /\ s.op = "mount" => s.arg \in mounted
                                          /\ s.op = "make" /\ Clear(s.arg) => Exists(s.arg)
                      /\ announced = BuiltIn \cup Deferred
                      /\ HostFile \notin {NoFile, ""} => hostname \o "\n" = HostFile
    BY DEF ReadyButForFstab
  <2>0. Effects
    OBVIOUS
  <2>1. a \in Jobs /\ "acpi" \in Jobs
    BY JobsAre DEF Applications
  <2>2. PICK b \in Jobs : progress[b] # "waiting" /\ AllFs \subseteq WaitsFor(b)
    <3>1. CASE a = "slim"
      <4>1. progress["acpi"] # "waiting"
        BY <2>1, <3>1, WaitsAre DEF Control, InOrder
      <4> QED BY <2>1, <4>1, WaitsAre
    <3> QED BY <2>1, <3>1, WaitsAre DEF Applications
  <2>3. \A d \in AllFs : \A i \in DOMAIN Code[d] : Effect(Code[d][i])
    BY <2>0, <2>2, NeedsDone
  <2>4. \A d \in AllFs : d \in Jobs /\ progress[d] = "done"
    BY <2>2 DEF Control, InOrder
  <2>5. /\ "setup_fs" \in Jobs /\ progress["setup_fs"] # "waiting"
        /\ KernelFs \subseteq WaitsFor("setup_fs")
    BY <2>4, WaitsAre DEF AllFs
  <2>6. /\ rw
        /\ \A m \in OwnMounts : m \in mounted
        /\ \E f \in made : f[1] = <<"dev", "pts">> /\ f = <<f[1], f[2]>>
    BY <2>0, <2>5, KernelFsReady
  <2>7. Effect(Launch("mount-a")) /\ Effect(ReadDeferred) /\ Effect(SetHostname)
    <3>1. /\ Effect(Code["all_fs"][1]) /\ Effect(Code["deferred"][1])
          /\ Effect(Code["hostname"][1])
      <4>1. /\ 1 \in DOMAIN Code["all_fs"] /\ 1 \in DOMAIN Code["deferred"]
            /\ 1 \in DOMAIN Code["hostname"]
        BY CodeIs
      <4> QED BY <2>3, <4>1 DEF AllFs
    <3>2. /\ Code["all_fs"][1] = Launch("mount-a") /\ Code["deferred"][1] = ReadDeferred
          /\ Code["hostname"][1] = SetHostname
      BY CodeIs
    <3> QED BY <3>1, <3>2
  <2>8. Fstab \subseteq mounted /\ Deferred \subseteq present /\ hostname = HostName
    BY <2>7 DEF Effect, Launch, ReadDeferred, SetHostname, Step
  <2>9. announced = BuiltIn \cup Deferred
    <3>1. pos["udev"] > 2
      <4>1. "udev" \in Jobs /\ progress["udev"] = "done" /\ Len(Code["udev"]) = 2
        BY <2>4, CodeIs DEF AllFs
      <4>2. pos["udev"] = Len(Code["udev"]) + 1
        BY <4>1 DEF Control, Positions
      <4> QED BY <4>1, <4>2
    <3> QED BY <2>0, <2>8, <3>1 DEF Effects, Devices
  <2>10. HostFile \notin {NoFile, ""} => hostname \o "\n" = HostFile
    <3>1. HostFile \notin {NoFile, ""} =>
            hostname = SubSeq(HostFile, 1, Len(HostFile) - 1)
      BY <2>8 DEF HostName, Sound
    <3> QED BY <3>1, Zenon DEF Sound
  <2>11. ASSUME NEW s \in Steps
         PROVE  /\ s.op = "mount" => s.arg \in mounted
                /\ s.op = "make" /\ Clear(s.arg) => Exists(s.arg)
    <3>1. PICK j \in Jobs : \E i \in DOMAIN Code[j] : s = Code[j][i]
      BY DEF Steps, Range
    <3> PICK i \in DOMAIN Code[j] : s = Code[j][i]
      BY <3>1
    <3>2. StepAt(j, i, s)
      BY StepsAre
    <3>3. s.op = "mount" => s.arg \in mounted
      BY <2>6, <3>2 DEF StepAt, OwnMounts
    <3>4. ASSUME s.op = "make"
          PROVE  \E f \in made : f[1] = s.arg /\ f = <<f[1], f[2]>>
      <4>1. CASE j = "dev_fs"
        BY <2>6, <3>2, <3>4, <4>1 DEF StepAt
      <4>2. CASE j = "setup_fs"
        BY <2>3, <3>4, <4>2 DEF AllFs, Effect
      <4> QED BY <3>2, <3>4, <4>1, <4>2 DEF StepAt
    <3> QED BY <3>3, <3>4 DEF Placed, Exists
  <2> QED BY <2>6, <2>8, <2>9, <2>10, <2>11
<1> QED BY <1>1, <1>2, <1>3, BootControl, PTL DEF Spec

\* "all fs has been set up, any applcation can run now": on a sound system whose
\* fstab leaves the paths of the tasks alone, every application starts on all of
\* it, whatever the devices and the number of threads.
THEOREM BootFindsAllReady ==
  ASSUME Sound, FstabClear
  PROVE  Spec => []ApplicationsFindAllReady
<1>1. ReadyButForFstab => ApplicationsFindAllReady
  BY DEF ReadyButForFstab, ApplicationsFindAllReady, FstabClear
<1> QED BY <1>1, BootFindsAllButCovered, PTL
=============================================================================
