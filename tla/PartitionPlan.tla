---------------------------- MODULE PartitionPlan ----------------------------
(***************************************************************************)
(* The arithmetic of do_partition in root/etc/init.d/flash.sh: how the     *)
(* *_space settings (in MiB) become partition boundaries (in cylinders),   *)
(* and the answers it prepares for fdisk.                                  *)
(*                                                                         *)
(* All disk positions are in 512-byte sectors.  The script works in bytes  *)
(* (space * 1024 * 1024 / dev_unitsize); dev_unitsize is a multiple of 512 *)
(* (fdisk prints "Units = cylinders of N * 512"), so N = unit sectors give *)
(* the same quotient.                                                      *)
(***************************************************************************)
EXTENDS Integers

Spaces == {"boot", "system", "data", "cache", "recovery", "wowconfig"}

SectorsPerMiB == 2048

(* boot_size, system_size, ...: whole cylinders in each space, rounded     *)
(* down.                                                                   *)
SizesOf(space, unit) ==
    [s \in Spaces |-> (space[s] * SectorsPerMiB) \div unit]

-----------------------------------------------------------------------------
(* The *_end variables, for a record z of sizes in cylinders.              *)
BootEnd(z)      == z["boot"] - 1
SystemEnd(z)    == BootEnd(z) + z["system"]
ExtEnd(z)       == SystemEnd(z) + z["wowconfig"] + z["data"] + z["cache"]
WowconfigEnd(z) == SystemEnd(z) + z["wowconfig"]
CacheEnd(z)     == WowconfigEnd(z) + z["cache"]
DataEnd(z)      == CacheEnd(z) + z["data"]
RecoveryEnd(z)  == ExtEnd(z) + z["recovery"]

(* Cylinder ranges the script asks fdisk for; cylinders count from 1, and  *)
(* AUTO as the last answer for p1 means the device's last cylinder.        *)
CylinderPlan(z, cyls) ==
    [p1 |-> [first |-> RecoveryEnd(z) + 1,  last |-> cyls],
     p2 |-> [first |-> BootEnd(z),          last |-> SystemEnd(z)],
     p3 |-> [first |-> SystemEnd(z) + 1,    last |-> ExtEnd(z)],
     p4 |-> [first |-> ExtEnd(z) + 1,       last |-> RecoveryEnd(z)],
     p5 |-> [first |-> CacheEnd(z) + 1,     last |-> DataEnd(z)],
     p6 |-> [first |-> WowconfigEnd(z) + 1, last |-> CacheEnd(z)],
     p7 |-> [first |-> SystemEnd(z) + 1,    last |-> WowconfigEnd(z)]]

(* The plan can be carried out: every requested range is a non-empty range *)
(* of cylinders of the device and something is left for p1.  The script    *)
(* computes sd_size but tests none of this.                                *)
Fits(z, cyls) ==
    /\ z["boot"] >= 2
    /\ z["system"] >= 0
    /\ \A s \in {"data", "cache", "recovery", "wowconfig"} : z[s] >= 1
    /\ RecoveryEnd(z) < cyls

-----------------------------------------------------------------------------
(* part_cmds: the answers piped into fdisk, one line each.  AUTO is an     *)
(* empty line.                                                             *)
Key(k) == [kind |-> k, val |-> 0]
Num(n) == [kind |-> "num", val |-> n]
AUTO   == [kind |-> "blank", val |-> 0]

PartCmdsExtFirst(z) ==
    << Key("n"), Key("p"), Num(2), Num(BootEnd(z)), Num(SystemEnd(z)),
       Key("n"), Key("p"), Num(4), Num(ExtEnd(z) + 1), Num(RecoveryEnd(z)),
       Key("n"), Key("e"), Num(SystemEnd(z) + 1), Num(ExtEnd(z)),
       Key("n"), Key("p"), Num(1), Num(RecoveryEnd(z) + 1), AUTO,
       Key("n"), Num(CacheEnd(z) + 1), Num(DataEnd(z)),
       Key("n"), Num(WowconfigEnd(z) + 1), Num(CacheEnd(z)),
       Key("n"), AUTO, AUTO, Key("t"), Num(1), Key("b"), Key("w") >>
PartCmds(z) ==
    << Key("n"), Key("p"), Num(2), Num(BootEnd(z)), Num(SystemEnd(z)),
       Key("n"), Key("p"), Num(4), Num(ExtEnd(z) + 1), Num(RecoveryEnd(z)),
       Key("n"), Key("p"), Num(1), Num(RecoveryEnd(z) + 1), AUTO,
       Key("n"), Key("e"), Num(SystemEnd(z) + 1), Num(ExtEnd(z)),
       Key("n"), Num(CacheEnd(z) + 1), Num(DataEnd(z)),
       Key("n"), Num(WowconfigEnd(z) + 1), Num(CacheEnd(z)),
       Key("n"), AUTO, AUTO,
       Key("t"), Num(1), Key("b"),
       Key("w") >>
=============================================================================
