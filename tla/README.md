# debian-conf: a TLA+ model of the boot program and its preload list

The repository holds `cinit`/`preload`, a program that the kernel starts as
process 1 in place of `/sbin/init`, and the scripts and settings of the Debian
system it boots. The program runs what would be the run level S scripts as a
table of tasks on five threads, reads ahead the files a boot needs, and then
becomes `/sbin/init`. These modules describe that program, check it with TLC on
small and on its real instances, and prove its safety properties with TLAPS: of
the task runner for every task table and every number of threads, of the other
parts for every input.

Paths below are relative to `src/`.

## 1. Inventory

| component | source | state | operations |
|---|---|---|---|
| task runner | `root/tasks.h` | mutex, condition variable, `begin`, per id `status`, `child_count`, `grp_ref` | constructor, `start`, `peekTask`, `sthread` |
| task tables | `root/preload_main.cpp`, `root/test.cpp` | constant | - |
| boot program | `root/preload_main.cpp` (`getpid() == 1`) | the buffer for the command line, flags, environment, point of execution | mount `/proc`, read the command line, start the bootchart collector, run the tasks, exec init |
| task functions | `root/sys_linux.h` | mounts, directories, links, devices, udevd, the host name (all in the kernel or in other programs) | one function per task |
| launching programs | `root/sys_linux.h` (`launch`, `execute`, `execute_arg`) | children of process 1, in the process table | fork, exec, `waitpid`, `_exit` |
| splitting command lines | `root/sys_linux.h` (`split`) | the string, cut in place | `split` |
| X server start | `root/sys_linux.h` (`startXserver`, `startxfce4`) | signal masks, pending SIGUSR1, the server process | block, fork, wait with a time limit; launch the desktop |
| preload list | `root/preload.h` | descriptor and private mapping of the list, token pointers, vectors of entries | `readahead`; `loadFile`, `Merge`, `UpdateBlock`, `WriteOut` |
| scripts and settings | `etc/`, `root/*.sh`, `root/bootgraph.pl` | - | - |

How they interact: the threads of the runner share its state under one mutex and
sleep on one condition variable. A task function is called by a thread without
the mutex; tasks see each other only through the system (mounts, devices,
daemons) and through the order the table imposes. `launch` waits for a child
without a time limit. The X server answers with a signal to the whole process.
What survives into `/sbin/init` is the environment (`CINIT`, read by
`etc/init.d/rcS`) and the signal mask of the main thread.

What is hard about it:

- *Who wakes whom.* `peekTask` sleeps when it finds no ready task, and wakes
  nobody, one or all depending on how many entries name the finished task or
  its group as a parent. Too few and the boot hangs; the count is taken before
  a wait and used after it.
- *Counting.* Group counters, done marks and the moving `begin` are updated in
  the order in which tasks end, which nobody chooses.
- *Order of effects.* A directory made before the file system it belongs on is
  mounted is lost to sight; a device that appears before udevd is missed unless
  its event is repeated later.
- *Children.* Five threads of process 1 wait for children while orphans of
  other programs become its children too; nobody collects those before init.
- *Failure.* No task looks at the result of a system call (`CHECK_ZERO` prints),
  and a program that hangs keeps a thread.
- *Pointers into a buffer that is being cut*, in the preload list and in `split`.
- *The X server's answer* before, during or after the wait for it.

The properties each component needs are the ones under "Runs"; the places where
they could go wrong are listed, with their lines, under `hazards` in
`PROJECT.json`.

## 2. Modules

| module | models |
|---|---|
| `TaskOrder` | what the runner promises: each task once, after what it needs, at most so many at a time, over when all are done |
| `Tasks` | `root/tasks.h` at the granularity of the mutex |
| `TaskNames` | the runner with the reference to the function that names the tasks |
| `TasksProofs`, `TasksOrderProofs` | the proofs about `Tasks`; that it implements `TaskOrder` |
| `BootProofs`, `PreloadProofs`, `LaunchProofs`, `XServerProofs`, `SplitProofs` | the proofs about these modules |
| `PreloadListProofs` | that `Preload` finds, reads ahead and keeps every line of a list |
| `BootTable` | the two task tables |
| `SysLinux` | each task function, under its name, as the sequence of its effects; which task has which |
| `Launch` | `SysLinux::launch` as several threads of process 1 call it, the process table, what init finds |
| `Arguments` | what `SysLinux::split` makes of a string, used by `Split` and `Boot` |
| `Boot` | `main` as process 1, the functions of `SysLinux` under `TaskOrder`, the kernel, udevd and init as far as needed |
| `Preload` | `root/preload.h` with the classes `map` and `fd`, and its two users |
| `Split` | `SysLinux::split` |
| `XServer` | `startXserver` and `startxfce4`, the masks the runner's constructor sets up, the server |
| `MC*` | values for TLC |

Operators named `Mut...` are the definition they precede with a plausible
mistake; each property is known to fail with one of them.

### Tasks

`pc[t]` says where a thread is. `peekTask` holds the mutex from its first to its
last line except in `cond_var.wait`, so an action begins where the mutex is
taken and where a decision is made:

| action | code |
|---|---|
| `Spawn`, `JoinAll` | `start`, 73-85 |
| `PeekEnter` | lock, mark the task and its group done, move `begin`, 117-139 |
| `PickTask`, `WaitForTask`, `NoMoreTasks` | the three ways out of the scan, 140-171 |
| `PeekReturn` | notify and unlock, 172-186 |
| `Reacquire` | `wait` returns |
| `SpuriousWakeup` | `wait` returns though nobody notified, as C++ allows |
| `RunTask` | the task function returns, `sthread` |

The ids are the values of the template parameter; two of them, `none_id` and
`grp_none_id`, are constants. `TableAssumption` and `ParentSlotsAssumption` say
what every table of the repository satisfies. The second one matters: the
constructor counts a second parent only where there is a first.

`TaskNames` adds what the runner does not own: `getTaskName` is a reference to a
parameter that is gone after the constructor. Each call of `start` may leave
anything in its place; each task makes its thread call what is there.

### Launch

`pc[t]` and `pid[t]` are the caller and its local variable, `proc` is the process
table. `Fork` and `ForkFails` are the two ends of `fork`, `Exec` is the child
(`execv`, or `_exit` if that fails), `Wait` is `waitpid(pid, ...)`. A program may
leave a daemon behind (`Daemonise`); when a process ends its children become
those of process 1, and it stays in the table until somebody collects it. A
process id is given again as soon as it is free, which is what makes a wait for
the wrong child visible. `execute` and `execute_arg` only prepare the arguments;
with `fork` false the program becomes init (`BecomeInit`), which collects
everything.

### Boot

`Boot` does not repeat the runner. It has the variables of `TaskOrder` and its
actions conjoin those of `TaskOrder` with the step of the task at hand, so
every interleaving that the runner may produce is covered (this is what
`ImplementsTaskOrder` is for). A function is a sequence of steps
(module `SysLinux`), interpreted by one action per kind of step; `Possible`
says when the kernel lets a step succeed, `Fails` is every step that does not,
after which the function goes on. `reported` says that a failure has been printed,
by a `CHECK` macro or where a file cannot be opened (`Reported`); it is all that
somebody in front of the machine learns, so what the applications find is asked
of the boots that printed none. Launching is one step that may fail: that a
waiting launch returns when its own program has ended is what `Launch` shows.
Left out are steps without an effect: modes and owners, priorities (the
threads have the policy SCHED_OTHER, whose priorities go from 0 to 0), the two
`symlink` calls of `udev`, whose arguments are swapped so that the link to be
made exists, and the write of zero bytes to `uevent_helper`.

A directory or link is recorded with the file system that held its path when it
was made; it is hidden if another file system holds that path now. A device has
been announced if udevd ran when its event was sent. The deferred drivers
(`/proc/deferred_initcalls`) are read until no more devices appear. The command
line goes through a buffer of `TstrSize` bytes (`Tstr`) and is split as
`Arguments` says, which `Split` shows of the code; the host name goes through one
of `HostSize` bytes, and the kernel refuses more than `NameMax` of them.

`setup_fs` does not wait for `mount -a`, so a file system of fstab that is
mounted at or above a path the tasks make may cover it. `Fstab` may hold such
mount points (`boot_var` does). Two simplifications: the mount points of fstab
exist, and a file system mounted where one is mounted already counts once. The
two links in `/var` are made only if nothing has their name; a link left by an
earlier boot is as good as a new one and is not told apart.

### Preload

`Open`, `GetFullMap`, `Assign` and `Destroy` are the life of the descriptor and
of the mapping; `owners` are the `map` objects whose destructor would remove
it. The mapping is a function from addresses to characters, filled up to whole
pages with NULs. `NextToken` is `nextToken` on it, with its treatment of a token
that the end of the file cuts off (moved down by one byte, not terminated). An
entry holds the *address* of its path, and a path is read from the buffer when
it is used. A string without a NUL before the end of the mapping either ends the
program (`Fault`) or is continued by bytes nobody knows. Each call of
`nextToken` is one step. The branch for a next block is unreachable (`nblk_s` is
always null) and left out. `std::sort` is not stable; `WriteEntry` writes any
entry with the smallest block.

Numbers have the types of `file_desc_t`: `strtoul` saturates at `ULONG_MAX` and
takes a sign, the result is stored in the `int dev` (`NumberRead`) or in the
unsigned `inode`, and the latter is printed as a `long long` (`Printed`). Widths
are the constants `INT_MAX` and `LLONG_MAX`, with `unsigned long` as wide as
`long long` (a 64 bit Linux); conversions wrap around (`Signed`). `Control` are the
bytes that a signed `char` puts at or below a blank besides blank, newline and
NUL: tabs and the bytes from 0x80 on. `open` cannot return 0 for a listed path,
which the code would take for a failure, because either descriptor 0 is in use
or the list has it.

What it means that a text lists its `lines` is said in `Describes`, by the
addresses of the fields; the specification does not use it.

### Split

One step is one turn of the loop. The reference (`Arguments`) is a reader that
takes one character after the other, between arguments, in a bare or in a quoted
one, and never looks at an address: a recursive function on the number of
characters read (`Reader`).

### XServer

At this commit the lines of the boot table that name these two functions are
commented out (`preload_main.cpp:138-139`); the functions are kept, and the
runner's constructor still blocks the signal for them. Modelled are the steps
of `startXserver` up to the wait, the child's steps, the server's answer, the
launch of the desktop, and the runner's constructor and threads as far as
signal masks go. A signal sent to the process becomes pending; process 1
discards it if its main thread does not block it. A failing `popen` (its null
pointer is read from) and a failing `chown` end the program.

## 3. Runs

| run | shows | instance |
|---|---|---|
| `runner` | the invariants of the runner, `start` returns, `TaskOrder` is implemented | 7 tasks with every shape of dependency the boot table has, 3 threads, 1 unnotified wake-up |
| `hung_tasks` | tasks that do not depend on a hung one complete | the boot table, 3 threads, `readahead` and `setup_fs` may hang |
| `preload_list` | every listed file is read ahead; sorting loses no line, keeps each path and each number that fits in its field, and orders all vectors together; whatever the bytes, the parser stays in the mapping, never divides by zero, and ends | lists of up to 4 lines of three shapes (leading empty line, repeated blanks and a tab, a blank in the path, numbers too large for an int or for every type), every text of up to 6 of blank, newline, digit and of up to 4 of blank, newline, digit, minus, tab, and a list of whole pages that ends in the beginning of an entry; pages of 3 bytes; assumed line lengths 5 and 12; `INT_MAX` 3, `LLONG_MAX` 4 |
| `split` | arguments are what a character-by-character reading gives | every string of up to 6 of blank, quote, two letters |
| `boot` | nothing hidden; what applications find when the first is started, unless a failure has been printed; the system set up exactly once and init reached although steps fail | the boot table, 2 threads, one device built in, one deferred; mounting `/proc` and `/dev` and launching the collector may fail; a command line that asks for the collector and one whose loop ends before |
| `launch` | a launch waits for its own child and returns its status, always returns, and leaves init nothing that was waited for and no copy of the boot program | 2 threads, 2 calls each, 3 process ids |
| `x_server` | the signal never kills, an answer is never missed, the boot goes on | main and the five threads; process 1 or not |
| `boot_single` | expected violation, see below | three command lines |
| `boot_devpts` | expected violation | the boot table, 5 threads, nothing fails |
| `boot_var` | expected violation | as `boot_devpts`, with `/home` and `/var` in the fstab |
| `preload_cut` | expected violation | lists without a final newline |
| `task_name` | expected violation | the boot table, 2 threads |

Why the bounds are enough. In `runner` the notification counts 0, 1, 2 and 3 all
occur, a group has two members that end in either order, and there are fewer
threads than ready tasks; the proofs cover the other instances, the boot table
with its five threads among them (`MCHungTasks` has TLC evaluate their
assumptions for both tables of the repository). In `preload_list` the assumed
line lengths are smaller than the code's 50, in the ratio of the lines to them,
so that four lines need up to three vectors; the code halves them in the same
way. One line of a list may be shorter than 12 bytes, and the small `INT_MAX` and
`LLONG_MAX` let a number of two digits exceed every type. Six bytes give every
position of a cut-off token, including the start of the file, and with pages of
three bytes texts that fill their last page. In `boot` one device of each kind
is enough because no step treats two devices together; two threads let every two
tasks that the table does not order overlap step by step, and the proofs
cover any number of them, the code's five among them. In `launch` three process
ids are fewer than two threads and their daemons need, so that fork fails, and
each id is used by more than one process.

### Fairness

- `Tasks!Fairness`: each thread that can take a step takes one, task functions
  return, `join` returns. The kernel schedules the threads; a mutex that is
  taken finitely often needs no strong fairness. Nothing is assumed of
  unnotified wake-ups.
- `MCHungTasks!HungFairness` drops "task functions return" for the hung tasks.
- `Preload!FairSpec`: the single thread goes on.
- `Launch!Fairness`: a thread whose child has ended returns, a child executes its
  program, and a program that is waited for ends (the daemons are started by
  programs that do). Without the last one `hung_tasks` shows what is left.
- `Boot!FairSpec`: only that something that can happen happens.
- `XServer!FairSpec`: the program's threads are scheduled and time passes.
  Nothing is assumed of the server.

### What the code does otherwise than its comments say

1. `preload_main.cpp:105` sets `single = false` where the comment at 110 needs
   `true`: `single` on the command line starts all tasks (`boot_single`).
2. `sys_linux.h:213` wants the modules initialised before `/dev/pts` is mounted;
   the table puts nothing before `dev_fs` (`boot_devpts`).
3. `preload.h:294` moves a path that the end of the file cuts off and does not
   terminate it; its last character is doubled and the file is not read ahead
   (`preload_cut`).
4. `tasks.h:216` keeps a reference to the constructor's parameter (`tasks.h:41`);
   the function that `tasks.h:5` asks for need not be the one that is called
   (`task_name`).
5. `TODO:21` suggests a partition for `/var`; with one, `mount -a` may cover the
   links that `setup_fs` makes in it, as neither task waits for the other, and
   "all fs has been set up" (`preload_main.cpp:42`) is not so (`boot_var`). If that
   partition has the links from before, nothing is lost.

Seen while modelling and left without a run of their own: a `dev` that an `int`
does not hold is written as another number (`preload.h:240`); a list that ends in
the middle of a line has the terminator of the last complete path overwritten
(`preload.h:294`), which joins that path to what follows and, if the list also
fills its last page, leaves it without an end (the exceptions of
`StringsEndInMapping`); `procps` is marked "last to do" (`preload_main.cpp:142`) but
waits for `deferred` only; the server's mask is not reset although the comment
says so (`sys_linux.h:508-512`), and so init and every program inherit a blocked
SIGUSR1; "remove ending \n" (`preload_main.cpp:95`) removes another character of
a command line that does not fit, and `sys_linux.h:538` one of a host name
without a newline; the write to `uevent_helper` (`sys_linux.h:408`) writes
nothing; without arguments the program does nothing, where the usage says
"preload default file" (`preload_main.cpp:65`); of a list shorter than the 50
bytes that are assumed of a line, the first vector gets no entries and the file
is taken for read (`preload.h:229`), so `sort` writes nothing where the usage
promises the sorted file (`preload_main.cpp:66`), which is why `SortKeepsEveryLine`
excepts such lists.

## 4. Proofs

The results, and the property each one states:

| module | theorems |
|---|---|
| `TasksProofs` | `Invariance`, `TypeCorrect` (TypeOK), `ParentsComeFirst` (NoTaskBeforeItsParents), `TasksAreExclusive` (OneThreadPerTask), `GroupsAreCounted` (GroupCounters), `BeginIsSound` (BeginSkipsOnlyDone), `StartWaitsForAll` (ReturnsAfterLastTask), `WakeupsSuffice` (NoLostWakeup), `NoDeadlock` (NeverAllAsleep) |
| `TasksOrderProofs` | `RunnerImplementsOrder` (ImplementsTaskOrder) |
| `LaunchProofs` | `LaunchTypeCorrect` (TypeOK), `LaunchWaitsForItsOwn` (WaitsForItsOwn), `LaunchReturnsOwnStatus` (ReturnsOwnStatus), `LaunchLeavesOnlyUnwaited` (OnlyUnwaitedLeft) |
| `XServerProofs` | `XServerTypeCorrect` (TypeOK), `XServerNeverKilled` (NeverKilledBySignal), `XServerAnswerIsSeen` (AnswerIsSeen) |
| `SplitProofs` | `SplitStaysInString` (StaysInString), `SplitGivesArguments` (SplitsIntoArguments) |
| `BootProofs` | `BootControl`, `BootTypes` (TypeOK), `BootSetsUpOnce` (RunLevelSOnce), `BootHidesOnlyByFstab`, `BootHidesNothing` (NothingHidden), `BootFindsAllButCovered`, `BootFindsAllReady` (ApplicationsFindAllReady) |
| `PreloadProofs` | `PreloadInvariant`, `PreloadTypes` (TypeOK), `PreloadStaysInBlock` (StaysInBlock), `PreloadNeverDividesByZero` (NeverDividesByZero), `PreloadMappedWhileUsed` (MappedWhileUsed), `PreloadSorted` (SortedByBlock), `PreloadTerminated` |
| `PreloadListProofs` | `PreloadReadsAhead` (ReadsAheadWhatIsListed), `PreloadSortKeeps` (SortKeepsEveryLine), `PreloadStringsEnd` (StringsEndInMapping) |

`TasksProofs` proves, from `ThreadsAssumption`, `TableAssumption` and
`ParentSlotsAssumption` alone, for any table, any finite set of threads and any
number of unnotified wake-ups:

`TypeOK`, `NoTaskBeforeItsParents`, `OneThreadPerTask`, `GroupCounters`,
`BeginSkipsOnlyDone`, `ReturnsAfterLastTask`, `NoLostWakeup`; and, for tables
without a cycle (`Acyclic`), `NeverAllAsleep`. `TasksOrderProofs` proves that
every step of the runner is a step or a stutter of `TaskOrder`; that a task only
ever moves from waiting to running to done is part of that.

None of the properties is inductive. `IInv` adds: who owns the mutex
(`MutexOwner`), which places hold a task (`TaskHolder`), what the ids that name
no task are marked as (`IdKinds`), that a thread which leaves has seen nothing
waiting (`LeavesNothingWaiting`), and the account that makes wake-ups work:

> as long as somebody sleeps, the ready tasks are no more than the threads on
> their way to the scan plus what the owner of the mutex owes (`EnoughComing`).

At the top of the scan the owner owes the children of the task it handed back,
or one, for the task it will pick; after it has picked, one less than the
children, which is what its notification pays: nobody for one child, one thread
for two, everybody for three or more. `PeekEnterDoneStep` is the heart of it:
the tasks that become ready when a task and its group are done are among those
the constructor counted (`NewlyReadyAreCounted`, from `KidsAreCounted`), which
is where a second parent without a first would break the count. With the mutex
free nothing is owed, which is `NoLostWakeup`. If all threads slept, none would
be on its way, so no task would be ready; in a table without cycles a waiting
task implies a ready or a running one (`SomethingToDo`), and a running one has a
thread that is not asleep.

`LaunchProofs` proves `TypeOK`, `WaitsForItsOwn`, `ReturnsOwnStatus` and
`OnlyUnwaitedLeft` for any number of threads, calls and process ids (from
nothing but `LaunchAssumption`). `LInv` adds that whatever is marked as waited
for has its waiting thread (`WaitedHasWaiter`), and that init finds all threads
back (`InitIsAlone`). That no process is a copy of the boot program when init takes over
follows from `TypeOK`, in which `_exit` leaves no such state. The steps of
programs are covered by one lemma: they leave every process to its parent or to
process 1 and fill free places only (`KeepsOwner`).

`XServerProofs` proves `TypeOK`, `NeverKilledBySignal` and `AnswerIsSeen` for any
number of threads. `XInv` adds that until the constructor has ended the main
thread is alone and there is no server (`AloneInCtor`), that the mask then
reaches every thread (`AllBlock`), and that the answer stays pending until it is
taken (`AnswerKept`).

`SplitProofs` proves `StaysInString` and `SplitsIntoArguments` for strings of any
length. Every scan ends because the string's NUL is still in its place, and no
later than there (`FindIsInString`). `Collected` relates the loop to the
reference: what the loop has not passed is still the text, the reader that has
read up to the same place is between two arguments, and the strings at the
addresses handed out, whose delimiters have been cut, are the arguments the
reader has. One turn of the loop is then many characters for the reader
(`ReadBlanks`, `ReadPiece`). Where one would use induction over the characters,
the proofs take the least number at which the claim fails (`LeastNumber`).

`BootProofs` proves, for every command line, fstab, set of devices, number of
threads and set of steps that may fail (from `BootAssumption`), `TypeOK`,
`RunLevelSOnce` and `OnlyFstabHides`: what a task has made is never covered if the
fstab mounts nothing at or above it (`Clear`). With the hypothesis `FstabClear`,
that this is so of all the paths the tasks make, this is `NothingHidden`. If
moreover every step that may fail prints its failure, the kernel takes the host
name, and `/etc/hostname` ends in a newline (`Sound`), then
`ApplicationsFindAllReady`. Without
`FstabClear`, a separate `/var` allowed, `ReadyButForFstab` is what is left: all
but the paths that the fstab may have covered. The hypotheses are needed:
`boot_var` violates `ApplicationsFindAllReady` without `FstabClear`.

The control does not depend on what the steps do: `StepKinds` says that every
step of a task starts it, ends it, finds a device or goes on to the next step of
its function, and `Control` and `Devices` rest on that. `Placed` says of each
directory and link made which mount points above it there can still be, from
the order of the table (`HolderIs`, `MadePathsAreMade`). `Effects` says that every
step before a task's position has left its effect while no failure has been
printed (`ReportedStays`), since nothing undoes one
(`EffectsLast`); with the table's order (`WaitsAre`) each step is then possible
when its turn comes (`AllPossible`). The table and the functions are the real
ones, so the facts about them are computed from their definitions.

`PreloadProofs` proves, for any list of any bytes (from `FilesAssumption`),
`TypeOK`, `StaysInBlock`, `MappedWhileUsed`, `NeverDividesByZero` and
`SortedByBlock`. `PInv` is the conjunction of `Block` (where the pointers are,
what is behind the list), `Types` (the ranges of the numbers, which are those of
their C types whatever digits the list has: `StrToULIs`, `SignedIs`), `Owning`
(which object removes the mapping, and when entries exist) and `Halving`, which
is the reason that the assumed length does not become zero:

> a vector for lines of one byte has at least one entry for each byte that is
> left, and more once there was a token.

So that vector is never filled, and the parser ends in it without halving again.
`Sorting` adds that the merge leaves one vector, none of whose entries belongs
before one that has been written. `AllTerminated` is the greater part of
`StringsEndInMapping`: unless the list is as long as whole pages, the program is
never killed and no path it writes is read beyond the mapping.

`PreloadListProofs` is about the lists in which every line has its two numbers, its
path and its newline, and nothing else but blanks stands between them
(`AllDescribed`): any number of lines of any length. For a list that fills its
last page too, it proves `ReadsAheadWhatIsListed`, `SortKeepsEveryLine` and the
rest of `StringsEndInMapping`. The lists that are not of this form are in `Files`
with `lines` empty, and the first two properties ask nothing of them. TLC
evaluates the form for the lists of `MCPreload` (`ListsAssumption`).

- `Parsed(m)` says where the parser stands after `m` lines: what is ahead of it is
  as in the file (it writes only behind a token), and each path it has passed
  is still there with a NUL behind it. So the next field is where `Describes`
  says, holds the number or the path of the line (`FieldHolds`), and has an end in
  the mapping; and the parser stops only behind the last line.
- In boot, the paths read ahead are the existing ones of the first lines, as
  many as were tried (`Ahead`).
- When sorting, `Tallied` is a one-to-one relation of the first `m` lines to the
  places where entries are, in a vector or in the output. Each step keeps it: a
  path adds a pair, the merge and the writing move entries (`VectorsMerged`,
  `EntryWritten`), the rest leaves them where they are. `Reading` and `Having` say
  that no line is missing when the parser stops: a vector ends early only
  when there is no token, or else the last token is kept and another vector
  follows. This needs a list that is not shorter than one line is assumed to be,
  because with a first vector of no entries the code takes the file for read
  (section 3). In the end the relation is a bijection of the lines to the output
  (`LinesAreWritten`), which is what `EveryLineIsWritten` asks for.
- What an entry has of its line is its path and the numbers that fit
  (`HeldDev`, `HeldInode`): a number no larger than the type is not changed by
  `strtoul`, by the assignment or by `printf` (`SmallNumberIs`).

Only model-checked: the liveness properties, which are out of the prover's
reach, and what the properties of the runs with an expected violation say.

## 5. Not modelled

The login manager script and the other init scripts (straight-line callers of
system tools), the build scripts, `bootgraph.pl`, `cinit_main.cpp` (its `main`
returns -1), the settings; in `sys_linux.h` the functions nobody calls, the
command lines built with `snprintf`, and what `readahead` does to the page
cache; in `preload_main.cpp` the redirection of stdout and the parsing of the
arguments. Four hazards have no property: a thread that cannot be created, a
`popen` and a `chown` that fail end process 1, as the code has it; and nothing
says what should become of a command line that does not fit into its buffer.

## 6. Plan

Done, in this order: `TaskOrder`, `Tasks`, `BootTable` and their runs; the
proofs about the runner; `Preload`; `Split`; `SysLinux` and `Boot`; `XServer`;
`Launch`; the command line, the host name and the failing steps of `Boot`; the
mapping of `Preload` and its pages; `TaskNames`; the proofs about `Launch`,
`XServer`, `Split`, `Boot` and `Preload`, the lines of its lists included.

The safety invariants and the action properties of every run are proved. What
is left is to prove more of the refinement kind: that `Preload` implements a
short specification of a list, and `Boot` one of the order of the phases.
