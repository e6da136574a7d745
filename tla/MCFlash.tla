------------------------------ MODULE MCFlash ------------------------------
(***************************************************************************)
(* Instances of FlashTool: a 4 GB eMMC and the cards its operator has.     *)
(***************************************************************************)
EXTENDS FlashTool

KB(n) == n * 1024
MB(n) == n * 1024 * 1024

(* Geometry fdisk reports for a 4 GB eMMC: 4 heads, 16 sectors.            *)
EmmcUnit == 64
EmmcCyls == 122880

DefaultSpace == [s \in Spaces |-> CASE s = "boot"      -> 32
                                    [] s = "system"    -> 256
                                    [] s = "data"      -> 1024
                                    [] s = "cache"     -> 512
                                    [] s = "recovery"  -> 16
                                    [] s = "wowconfig" -> 16]
(* The partition.cfg of readme.txt.                                        *)
ReadmeSpace == [DefaultSpace EXCEPT !["system"] = 250, !["cache"] = 128]
(* A partition.cfg written for a larger device.                            *)
LargeSpace == [DefaultSpace EXCEPT !["data"] = 8192]

(* Images exactly as large as check_partition lets them be; u-boot stays   *)
(* below the environment.                                                  *)
LimitSize == [i \in Images |->
    CASE i \in BootImages \ {"u-boot-no-padding.bin"} -> KB(MaxKiB[i])
      [] i = "u-boot-no-padding.bin" -> KB(767)
      [] i = "system.img"            -> MB(250) - 512
      [] i = "userdata.img"          -> MB(20)]

AllMatch == [i \in Images |-> "match"]

FullCard == [imagesDir |-> TRUE, images |-> Images, size |-> LimitSize,
             hasMd5 |-> TRUE, sum |-> AllMatch,
             repartition |-> FALSE, clearubootenv |-> FALSE,
             spacesSet |-> TRUE, space |-> DefaultSpace]

(* Sets up a new device.                                                   *)
InitCard == [FullCard EXCEPT !.repartition = TRUE, !.clearubootenv = TRUE, !.space = ReadmeSpace]
(* Updates kernel and user data.                                           *)
UpdateCard == [FullCard EXCEPT !.images = {"uImage", "system.img", "userdata.img"}]
(* Updates the kernel, unchecked.                                          *)
KernelCard == [FullCard EXCEPT !.images = {"uImage"}, !.hasMd5 = FALSE]
(* Set up a new device with less on it.                                    *)
NormalInitCard == [InitCard EXCEPT !.images = @ \ {"uImage-recovery", "uramdisk-recovery.img"}]
SmallInitCard == [InitCard EXCEPT !.images = {"uImage", "userdata.img"}, !.clearubootenv = FALSE]
(* Damaged cards: the last image has another sum, the first one has none.  *)
DamagedCard == [FullCard EXCEPT !.images = {"uImage", "userdata.img"}, !.sum["userdata.img"] = "mismatch"]
UnlistedCard == [FullCard EXCEPT !.images = {"uImage"}, !.sum["uImage"] = "missing"]
(* A kernel one byte too large, no md5sum.txt.                             *)
OversizeCard == [FullCard EXCEPT !.images = {"uImage"}, !.hasMd5 = FALSE,
                                 !.size["uImage"] = KB(3072) + 1]
(* system.img larger than system_space.                                    *)
BigSystemCard == [InitCard EXCEPT !.images = {"system.img"}, !.size["system.img"] = MB(300)]
(* Asks for more than the device has.                                      *)
GreedyCard == [InitCard EXCEPT !.images = {"system.img"}, !.space = LargeSpace]
(* boot_space as small as the 16 MiB that the boot slots take.             *)
TightBootCard == [InitCard EXCEPT !.space["boot"] = 16]
(* Sets up the device again with a smaller cache.                          *)
SmallCacheCard == [SmallInitCard EXCEPT !.space = [DefaultSpace EXCEPT !["cache"] = 128]]
BadConfigCard == [InitCard EXCEPT !.images = {}, !.spacesSet = FALSE]
BlankCard == [UpdateCard EXCEPT !.imagesDir = FALSE]

MixedCards    == {NormalInitCard, UpdateCard, KernelCard, DamagedCard, UnlistedCard, OversizeCard}
FaultyCards   == {GreedyCard, BigSystemCard, BadConfigCard, BlankCard, UpdateCard, FullCard, TightBootCard}
ShrinkOnly    == {SmallCacheCard}
SetupAndUpdate == {SmallInitCard, UpdateCard}

DefaultTable  == PlanTable([FullCard EXCEPT !.space = DefaultSpace])
NewOrDefault  == {NoTable, DefaultTable}
DefaultOnly   == {DefaultTable}
SmallSlots    == [i \in BootImages |-> KB(512)]
=============================================================================
