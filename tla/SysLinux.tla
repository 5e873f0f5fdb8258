------------------------------ MODULE SysLinux ------------------------------
(***************************************************************************)
(* The task functions of root/sys_linux.h, each as the sequence of things  *)
(* it does to the system, in the order it does them.                       *)
(*                                                                         *)
(* A path is the sequence of its components; <<>> is the root directory.   *)
(* Left out is what has no effect: changes of mode and owner; priorities,  *)
(* of which the scheduling policy of the threads has only one; and what    *)
(* udev does first, two symlinks whose second argument, the new link,      *)
(* exists, and a write of no bytes.                                        *)
(***************************************************************************)
EXTENDS Sequences

Step(op, arg) == [op |-> op, arg |-> arg]

Remount == Step("remount", <<>>)
Mount(path) == Step("mount", path)
Make(path) == Step("make", path)        \* mkdir or symlink
Launch(program) == Step(program, <<program>>)
\* read() from /proc/deferred_initcalls until it returns nothing
ReadDeferred == Step("read_deferred", <<>>)
SetHostname == Step("sethostname", <<>>)

mount_root == << Remount >>
mount_all == << Launch("mount-a") >>
mount_sysfs == << Mount(<<"sys">>) >>
mount_devfs == << Mount(<<"dev">>), Make(<<"dev", "pts">>), Mount(<<"dev", "pts">>) >>
mount_run == << Mount(<<"run">>) >>
mount_tmp == << Mount(<<"tmp">>) >>

\* The two links in /var are made unless something has their name; a link that
\* an earlier boot has left there is as good as a new one.
setup_fs ==
  << Make(<<"run", "lock">>), Make(<<"run", "shm">>), Make(<<"var", "run">>),
     Make(<<"var", "lock">>), Make(<<"dev", "shm">>), Make(<<"tmp", ".X11-unix">>),
     Make(<<"tmp", ".ICE-unix">>) >>

deferred_modules == << ReadDeferred, Launch("udevadm-trigger") >>
readahead == << >>      \* only reads
procps == << Launch("sysctl") >>
slim == << Launch("slim") >>
dbus == << Launch("dbus") >>
udev == << Launch("udevd"), Launch("udevadm-trigger") >>
init_d ==
  << Launch("keyboard-setup"), Launch("hwclock"), Launch("kbd"),
     Launch("console-setup"), Launch("udev-finish"), Launch("urandom"),
     Launch("networking") >>
hostname_s == << SetHostname >>
acpi_daemon == << Launch("acpid") >>

\* The function that the boot table gives for a task id.
Function(id) ==
  CASE id = "readahead" -> readahead
    [] id = "root_fs"   -> mount_root
    [] id = "sys_fs"    -> mount_sysfs
    [] id = "dev_fs"    -> mount_devfs
    [] id = "tmp_fs"    -> mount_tmp
    [] id = "run_fs"    -> mount_run
    [] id = "deferred"  -> deferred_modules
    [] id = "hostname"  -> hostname_s
    [] id = "all_fs"    -> mount_all
    [] id = "setup_fs"  -> setup_fs
    [] id = "udev"      -> udev
    [] id = "acpi"      -> acpi_daemon
    [] id = "dbus"      -> dbus
    [] id = "slim"      -> slim
    [] id = "procps"    -> procps
    [] id = "init_d"    -> init_d
=============================================================================
