------------------------------- MODULE MCBoot -------------------------------
(***************************************************************************)
(* The boot program with a disk that is there from the start and a network *)
(* card that the deferred initcalls find.                                  *)
(***************************************************************************)
EXTENDS Boot

NoWords == { "\n" }
SingleLine == { "quiet bootchart\n", "single\n", "bootchart single\n" }

\* One line that asks for the collector, and one where the loop ends before.
SomeLines == { "quiet bootchart\n", "single bootchart\n" }

Name == "box\n"

\* /proc is also in the fstab: mount -a mounts it if main could not.
DataDisks == { <<"home">>, <<"mnt", "data">>, <<"proc">> }

\* /var on a partition of its own.
VarDisk == { <<"home">>, <<"var">> }

\* The file systems that the tasks rely on most, and the collector's launch.
Unreliable == { <<"proc">>, <<"dev">>, <<"collector">> }
=============================================================================
