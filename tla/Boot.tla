-------------------------------- MODULE Boot --------------------------------
(***************************************************************************)
(* The boot program as a whole: main() of root/preload_main.cpp, started   *)
(* by the kernel as process 1, the task functions of root/sys_linux.h that *)
(* it has the task runner execute, and /sbin/init, which it becomes.       *)
(*                                                                         *)
(* The task runner is represented by its specification TaskOrder, which    *)
(* module Tasks implements: any order of the tasks that the table allows,  *)
(* MaxRunning of them at the same time, one step of one task at a time.    *)
(*                                                                         *)
(* The kernel, udevd, mount and init are outside of the repository; they   *)
(* are modelled as far as the code relies on them.                         *)
(***************************************************************************)
EXTENDS Integers, FiniteSets, SequencesExt, Arguments, BootTable, SysLinux

CONSTANTS
  CmdLines,     \* kernel command lines, strings that end in a newline
  TstrSize,     \* the size of main's buffer tstr
  HostFile,     \* what /etc/hostname holds, or NoFile
  NoFile,
  HostSize,     \* the size of the buffer host
  NameMax,      \* the longest host name that the kernel takes
  Fstab,        \* the mount points of fstab
  BuiltIn,      \* devices whose drivers are ready when the kernel starts
  Deferred,     \* devices that appear when the deferred initcalls are run
  MayFail,      \* the args of steps that may fail
  MaxRunning    \* the argument of scheduler.start

ASSUME BootAssumption ==
  /\ \A line \in CmdLines : SubSeq(line, Len(line), Len(line)) = "\n"
  /\ TstrSize \in Nat \ {0, 1}
  /\ MaxRunning \in Nat \ {0}
  /\ HostSize \in Nat /\ NameMax \in Nat /\ NameMax < HostSize

\* The table by task id.
Jobs == {tasks[k].id : k \in DOMAIN tasks}
Entry(id) == CHOOSE e \in Range(tasks) : e.id = id
MembersOf(x) == {e.id : e \in {f \in Range(tasks) : x \in {f.id, f.grp_id}}}

ParentIds(id) == {Entry(id).parent_id, Entry(id).parent_id2} \ {"none"}

\* A group is not waited for.
MutWaitsFor(id) == ParentIds(id) \cap Jobs
WaitsFor(id) == UNION {MembersOf(x) : x \in ParentIds(id)}

Code == [j \in Jobs |-> Function(j)]
Steps == UNION {Range(Code[j]) : j \in Jobs}

VARIABLES
  main,         \* what process 1 does next
  cmdline,      \* /proc/cmdline
  bootchartd, single,   \* local variables of main
  collector,    \* bootchart-collector has been started
  cinit,        \* whether the environment has CINIT
  rcS,          \* the scripts of run level S have been run by init
  progress,     \* per task: waiting, running or done
  over,         \* scheduler.start has returned
  reported,     \* the failure of a step has been printed
  pos,          \* per task: the step of its function that comes next
  mounted,      \* mount points with something mounted on them
  rw,           \* the root file system is writable
  made,         \* directories and links made, with the file system they are on
  present,      \* devices the kernel knows
  udevd,        \* the udev daemon is running
  announced,    \* devices that udevd has received an event for
  hostname      \* the kernel's host name

files == <<mounted, rw, made>>
devices == <<present, udevd, announced>>
sysvars == <<files, devices, hostname>>
taskvars == <<progress, over, pos>>
local == <<cmdline, bootchartd, single, collector>>
mainvars == <<main, local, cinit, rcS>>
vars == <<mainvars, taskvars, sysvars, reported>>

Needs == [j \in Jobs |-> WaitsFor(j)]
Runner == INSTANCE TaskOrder

Root == <<>>

\* The file system that holds a path: the innermost mount point above it.
Above(path) == {m \in mounted \cup {Root} : IsStrictPrefix(m, path)}

Holder(path) ==
  CHOOSE m \in Above(path) : \A n \in Above(path) : Len(n) <= Len(m)

Exists(path) == <<path, Holder(path)>> \in made

Init ==
  /\ main = "procfs"
  /\ cmdline \in CmdLines
  /\ bootchartd = FALSE /\ single = FALSE /\ collector = FALSE
  /\ cinit = FALSE /\ rcS = FALSE
  /\ Runner!Init
  /\ reported = FALSE
  /\ pos = [j \in Jobs |-> 1]
  /\ mounted = {} /\ rw = FALSE /\ made = {}
  /\ present = BuiltIn /\ udevd = FALSE /\ announced = {}
  /\ hostname = "(none)"

----------------------------------------------------------------------------
(* main() before the tasks *)

MountProcfs ==
  /\ main = "procfs"
  /\ \/ mounted' = mounted \cup {<<"proc">>} /\ UNCHANGED reported
     \/ <<"proc">> \in MayFail /\ UNCHANGED mounted /\ reported' = TRUE
  /\ main' = "cmdline"
  /\ UNCHANGED <<local, cinit, rcS, taskvars, rw, made, devices, hostname>>

\* The bytes that are split: the last one read gives way to the terminator.
Tstr(line) == SubSeq(line, 1, (IF Len(line) < TstrSize THEN Len(line)
                                                       ELSE TstrSize - 1) - 1)

Words == [line \in CmdLines |-> Arguments(Chars(Tstr(line)))]

\* Is word among the words, before "single" ends the loop?
Found(word, words) ==
  \E k \in DOMAIN words : /\ words[k] = Chars(word)
                          /\ \A j \in 1 .. k - 1 : words[j] # Chars("single")

\* Without /proc there are no words.
ReadCmdline ==
  /\ main = "cmdline"
  /\ bootchartd' = (<<"proc">> \in mounted /\ Found("bootchart", Words[cmdline]))
  /\ reported' = (reported \/ <<"proc">> \notin mounted)
  /\ single' = FALSE
  /\ main' = IF single' THEN "exec" ELSE "environment"
  /\ UNCHANGED <<cmdline, collector, cinit, rcS, taskvars, sysvars>>

\* CINIT is not set.
MutEnvironment == cinit
Environment == TRUE

\* Launch the collector without waiting for it and set CINIT.
Prepare ==
  /\ main = "environment"
  /\ \/ collector' = bootchartd
     \/ <<"collector">> \in MayFail /\ collector' = FALSE
  /\ cinit' = Environment
  /\ main' = "tasks"
  /\ UNCHANGED <<cmdline, bootchartd, single, rcS, taskvars, sysvars, reported>>

----------------------------------------------------------------------------
(* The tasks *)

StartTask(j) ==
  /\ main = "tasks"
  /\ Runner!StartJob(j)
  /\ UNCHANGED <<mainvars, pos, sysvars, reported>>

\* Task j has a step to do, and which.
Busy(j) == main = "tasks" /\ progress[j] = "running" /\ pos[j] \in DOMAIN Code[j]
Now(j) == Code[j][pos[j]]

\* What fits into the buffer, and the last character of that is taken for a
\* newline.  Without a file the name is empty, which is what the object's
\* memory holds; the message that is printed then is of no failed step.
HostName ==
  CASE HostFile = NoFile -> ""
    [] HostFile = "" -> "localhost"
    [] OTHER -> SubSeq(HostFile, 1, (IF Len(HostFile) <= HostSize THEN Len(HostFile)
                                                                  ELSE HostSize) - 1)

\* A mount point below another one has to be made first, and nothing can be
\* made on a root file system that is read-only.  mount -a finds the disks in
\* /dev, the deferred initcalls are run through /proc.  A name that is too long
\* is refused.
Possible(s) ==
  CASE s.op = "mount" -> Len(s.arg) = 1 \/ Exists(s.arg)
    [] s.op = "make" -> Holder(s.arg) # Root \/ rw
    [] s.op = "mount-a" -> <<"dev">> \in mounted
    [] s.op = "read_deferred" -> <<"proc">> \in mounted
    [] s.op = "sethostname" -> Len(HostName) <= NameMax
    [] OTHER -> TRUE

Does(j, op) ==
  /\ Busy(j) /\ Now(j).op = op /\ Possible(Now(j))
  /\ pos' = [pos EXCEPT ![j] = @ + 1]
  /\ UNCHANGED <<mainvars, progress, over, reported>>

\* The steps whose failure is printed: those within a CHECK macro, and the
\* open of the deferred initcalls.  A launched program that ends with an error
\* is one of them only for mount -a.
Reported(s) ==
  \/ s.op \in {"remount", "mount", "mount-a", "read_deferred"}
  \/ s.op = "make" /\ s.arg[1] # "tmp"

\* A function goes on after a step that failed; in the first form it gives up
\* and never comes to its end.
MutAfterFailure(n) == 0
AfterFailure(n) == n + 1

Fails(j) ==
  /\ Busy(j)
  /\ Now(j).arg \in MayFail \/ ~Possible(Now(j))
  /\ pos' = [pos EXCEPT ![j] = AfterFailure(@)]
  /\ reported' = (reported \/ Reported(Now(j)))
  /\ UNCHANGED <<mainvars, progress, over, sysvars>>

RemountRoot(j) ==
  /\ Does(j, "remount")
  /\ rw' = TRUE
  /\ UNCHANGED <<mounted, made, devices, hostname>>

MountFs(j) ==
  /\ Does(j, "mount")
  /\ mounted' = mounted \cup {Now(j).arg}
  /\ UNCHANGED <<rw, made, devices, hostname>>

MakePath(j) ==
  /\ Does(j, "make")
  /\ made' = made \cup {<<Now(j).arg, Holder(Now(j).arg)>>}
  /\ UNCHANGED <<mounted, rw, devices, hostname>>

\* A file system mounted on a mount point that is in use counts once.
MountAll(j) ==
  /\ Does(j, "mount-a")
  /\ mounted' = mounted \cup Fstab
  /\ UNCHANGED <<rw, made, devices, hostname>>

\* udevd is told of device d although no driver has found it.
MutFoundBy(d) == present
FoundBy(d) == present \cup {d}

\* The deferred initcalls find the remaining devices one by one.  udevd, if
\* it runs, gets an event for each; otherwise the event is lost.
FindDevice(j) ==
  /\ Busy(j) /\ Now(j) = ReadDeferred /\ Possible(ReadDeferred)
  /\ \E d \in Deferred \ present :
       /\ present' = FoundBy(d)
       /\ announced' = IF udevd THEN announced \cup {d} ELSE announced
  /\ UNCHANGED <<mainvars, taskvars, files, udevd, hostname, reported>>

DeferredEnd(j) ==
  /\ Does(j, "read_deferred")
  /\ Deferred \subseteq present
  /\ UNCHANGED sysvars

StartUdevd(j) ==
  /\ Does(j, "udevd")
  /\ udevd' = TRUE
  /\ UNCHANGED <<files, present, announced, hostname>>

\* The events that udevadm trigger makes the kernel repeat, through /sys;
\* in the first form there are none.
MutRepeated == {}
Repeated == IF udevd /\ <<"sys">> \in mounted THEN present ELSE {}

Trigger(j) ==
  /\ Does(j, "udevadm-trigger")
  /\ announced' = announced \cup Repeated
  /\ UNCHANGED <<files, present, udevd, hostname>>

SetName(j) ==
  /\ Does(j, "sethostname")
  /\ hostname' = HostName
  /\ UNCHANGED <<files, devices>>

\* The programs that are of no consequence here.
Programs ==
  {"acpid", "dbus", "slim", "sysctl", "keyboard-setup", "hwclock", "kbd",
   "console-setup", "udev-finish", "urandom", "networking"}

RunProgram(j) ==
  /\ \E program \in Programs : Does(j, program)
  /\ UNCHANGED sysvars

EndTask(j) ==
  /\ main = "tasks"
  /\ pos[j] > Len(Code[j])
  /\ Runner!CompleteJob(j)
  /\ UNCHANGED <<mainvars, pos, sysvars, reported>>

----------------------------------------------------------------------------
(* main() after the tasks, and /sbin/init *)

\* scheduler.start returns.
TasksDone ==
  /\ main = "tasks"
  /\ Runner!Finish
  /\ main' = "exec"
  /\ UNCHANGED <<local, cinit, rcS, pos, sysvars, reported>>

\* Process 1 becomes /sbin/init; a process 1 that exits is a kernel panic.
ExecInit ==
  /\ main = "exec"
  /\ main' = "init" \/ (<<"init">> \in MayFail /\ main' = "panic")
  /\ UNCHANGED <<local, cinit, rcS, taskvars, sysvars, reported>>

\* init starts /etc/init.d/rcS, which does nothing if CINIT is set.
RunRcS ==
  /\ main = "init"
  /\ main' = "runlevel-2"
  /\ rcS' = ~cinit
  /\ UNCHANGED <<local, cinit, taskvars, sysvars, reported>>

Ended == main \in {"runlevel-2", "panic"} /\ UNCHANGED vars

TaskStep(j) ==
  \/ RemountRoot(j) \/ MountFs(j) \/ MakePath(j) \/ MountAll(j)
  \/ FindDevice(j) \/ DeferredEnd(j) \/ StartUdevd(j) \/ Trigger(j)
  \/ SetName(j) \/ RunProgram(j) \/ Fails(j)
  \/ EndTask(j)

MainStep ==
  MountProcfs \/ ReadCmdline \/ Prepare \/ TasksDone \/ ExecInit \/ RunRcS

Next ==
  \/ MainStep
  \/ \E j \in Jobs : StartTask(j) \/ TaskStep(j)
  \/ Ended

Spec == Init /\ [][Next]_vars

\* Something that can happen happens: the runner's threads are scheduled and
\* the programs the tasks launch end (launch waits for them without a limit).
FairSpec == Spec /\ WF_vars(Next)

----------------------------------------------------------------------------
(* Properties *)

\* Every function is at one of its calls, the boot at one of its stages, and
\* udevd has been told only of devices that a driver has found.
TypeOK ==
  /\ main \in {"procfs", "cmdline", "environment", "tasks", "exec", "init",
               "runlevel-2", "panic"}
  /\ {bootchartd, single, collector, cinit, rcS, rw, udevd, reported} \subseteq BOOLEAN
  /\ progress \in [Jobs -> {"waiting", "running", "done"}]
  /\ \A j \in Jobs : pos[j] \in 1 .. Len(Code[j]) + 1
  /\ announced \subseteq present /\ present \subseteq BuiltIn \cup Deferred

\* A directory or link that a task makes is never covered by a mount of
\* another task that comes later, whichever of the mounts fail.
NothingHidden == \A f \in made : Holder(f[1]) = f[2]

\* The tasks that start what the comment on grp_all_fs calls applications.
Applications == {"acpi", "dbus", "slim", "init_d"}

\* "all fs has been set up, any applcation can run now": when the first
\* application is started and no failure has been printed, everything is
\* mounted and made, in its place, udevd knows every device, whether it appeared
\* before or after the daemon and before or after either of the two triggers,
\* and the machine has the name that /etc/hostname gives it, if the kernel
\* takes it.
ApplicationsFindAllReady ==
  ~reported /\ (\E j \in Applications : progress[j] # "waiting") =>
    /\ rw
    /\ Fstab \subseteq mounted
    /\ \A s \in Steps : /\ s.op = "mount" => s.arg \in mounted
                        /\ s.op = "make" => Exists(s.arg)
    /\ announced = BuiltIn \cup Deferred
    /\ HostFile \notin {NoFile, ""} /\ Len(HostFile) <= NameMax + 1 =>
         hostname \o "\n" = HostFile

\* "avoid run level S from starting": the system is set up exactly once, by
\* all of the tasks or by the scripts of run level S.
RunLevelSOnce ==
  main = "runlevel-2" =>
    \/ rcS /\ \A j \in Jobs : progress[j] = "waiting"
    \/ ~rcS /\ \A j \in Jobs : progress[j] = "done"

\* A system that is started comes up, whichever steps of the tasks fail.
InitIsReached == <>(main = "runlevel-2")

\* The words of the line up to its newline.
WordsOf == [line \in CmdLines |-> Arguments(Chars(SubSeq(line, 1, Len(line) - 1)))]

\* "single user mode, start init": no task is executed.
SingleUserRunsNoTask ==
  main = "tasks" => Chars("single") \notin Range(WordsOf[cmdline])

\* "depends on module devpts, do modules init before this": the deferred
\* drivers have been initialised before /dev/pts is mounted.
ModulesBeforeDevpts == <<"dev", "pts">> \in mounted => Deferred \subseteq present
=============================================================================
