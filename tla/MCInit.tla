------------------------------- MODULE MCInit --------------------------------
(* Instances of InitProc: the inittab of the repository (root/etc/inittab) *)
(* and two that use the remaining action types, in different orders.       *)
EXTENDS InitProc

L(c, t) == [cmd |-> c, type |-> t]

(* root/etc/inittab                                                        *)
Shipped == <<L("rcS", "sysinit"), L("sh", "respawn"), L("sh2", "askfirst"), L("umount", "ctrlaltdel")>>

Full == <<L("rcS", "sysinit"), L("syslog", "once"), L("umount", "shutdown"), L("swapoff", "shutdown"),
          L("init", "restart"), L("sh", "respawn")>>

(* Full after an edit: other order, an entry gone, one of another type,    *)
(* and one listed twice.                                                   *)
Edited == <<L("rcS", "sysinit"), L("swapoff", "shutdown"), L("syslog", "once"), L("umount", "shutdown"),
            L("syslog", "wait"), L("sh", "askfirst"), L("getty", "respawn")>>

OneTab   == {Shipped}
Reloaded == {Full, Edited}
=============================================================================
