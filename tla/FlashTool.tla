------------------------------ MODULE FlashTool ------------------------------
(***************************************************************************)
(* root/etc/init.d/flash.sh: the script that checks the images on an SD    *)
(* card and writes them to the eMMC, together with what surrounds a run:   *)
(* power loss, the reboot that rcS starts after success, the operator who  *)
(* runs the script again from the rescue shell, and the card being         *)
(* exchanged between runs.                                                 *)
(*                                                                         *)
(* Disk positions are 512-byte sectors, image sizes are bytes.  The eMMC   *)
(* is a set of named regions: the slots of the boot area, the u-boot       *)
(* environment and the partitions.  A region's content is one of           *)
(*    "other"   something valid that does not come from the card inserted  *)
(*    "image"   exactly the image of that name on the card inserted        *)
(*    "zero"    cleared (environment)                                      *)
(*    "empty"   a freshly made, empty file system                          *)
(*    "junk"    anything else: half written, overwritten, unformatted      *)
(* A write that reaches into another region turns that region into junk.   *)
(***************************************************************************)
EXTENDS PartitionPlan, Sequences, FiniteSets

CONSTANTS
    Cards,      \* the SD cards the operator owns (records, see CardType)
    Unit,       \* sectors per cylinder of the eMMC (dev_unitsize / 512)
    Cyls,       \* its number of cylinders (dev_cyls)
    OldTables,  \* partition tables the eMMC may have before the first run
    OldLen,     \* byte length of what each boot slot holds before that
    Polls,      \* how often wait_device looks for a device (10 in the script)
    MaxFaults   \* bound: faults (I/O errors, power losses, ...) in a behaviour

-----------------------------------------------------------------------------
(* Images, in the order the script checks and flashes them.                *)
ImageSeq == << "u-boot-no-padding.bin", "uImage", "uramdisk.img",
               "uImage-recovery", "uramdisk-recovery.img",
               "system.img", "userdata.img" >>
BootImages == {"u-boot-no-padding.bin", "uImage", "uramdisk.img",
               "uImage-recovery", "uramdisk-recovery.img"}
Images == BootImages \cup {"system.img", "userdata.img"}

OverlappingOffset == [i \in BootImages |->
             CASE i = "u-boot-no-padding.bin" -> 1
               [] i = "uImage"                -> 1024
               [] i = "uramdisk.img"          -> 4095
               [] i = "uImage-recovery"       -> 5120
               [] i = "uramdisk-recovery.img" -> 8192]

(* dd_offset arguments of flash_image, in KiB.                             *)
Offset == [i \in BootImages |->
             CASE i = "u-boot-no-padding.bin" -> 1
               [] i = "uImage"                -> 1024
               [] i = "uramdisk.img"          -> 4096
               [] i = "uImage-recovery"       -> 5120
               [] i = "uramdisk-recovery.img" -> 8192]

(* Size limits check_partition passes to check_img_size, in KiB.           *)
MaxKiB == [i \in BootImages |->
             CASE i = "u-boot-no-padding.bin" -> 1023
               [] i = "uImage"                -> 3072
               [] i = "uramdisk.img"          -> 1024
               [] i = "uImage-recovery"       -> 3072
               [] i = "uramdisk-recovery.img" -> 8192]

Parts   == {"p1", "p2", "p4", "p5", "p6", "p7"}
Regions == BootImages \cup {"env"} \cup Parts
RegionOf(i) == CASE i = "system.img" -> "p2" [] i = "userdata.img" -> "p5" [] OTHER -> i

(* A partition table: the partitions that exist, each with its first and   *)
(* last sector.  The extended partition p3 is only a container.            *)
Extent == [lo : Int, hi : Int]
IsTable(t) == DOMAIN t \subseteq Parts /\ \A p \in DOMAIN t : t[p] \in Extent
NoTable == [p \in {} |-> [lo |-> 0, hi |-> 0]]

CardType ==
    [imagesDir     : BOOLEAN,             \* update/images exists
     images        : SUBSET Images,       \* image files on the card
     size          : [Images -> Nat],     \* their sizes in bytes
     hasMd5        : BOOLEAN,             \* md5sum.txt exists
     sum           : [Images -> {"match", "mismatch", "missing"}],
     repartition   : BOOLEAN,             \* flag file
     clearubootenv : BOOLEAN,             \* flag file
     spacesSet     : BOOLEAN,             \* partition.cfg empties none of the spaces tested
     space         : [Spaces -> Nat]]     \* after partition.cfg, in MiB

Contents == {"other", "image", "zero", "empty", "junk"}

ASSUME FlashAssumption ==
    /\ Cards # {} /\ Cards \subseteq CardType
    /\ Unit \in Nat \ {0} /\ Cyls \in Nat
    /\ OldTables # {} /\ \A t \in OldTables : IsTable(t)
    /\ OldLen \in [BootImages -> Nat]
    /\ MaxFaults \in Nat /\ Polls \in Nat \ {0}

(* Every space comes to at least one cylinder and boot_space to four (the  *)
(* boot slots need 16 MiB, a cylinder has at most 8), so that a plan that  *)
(* does not fit is one that asks for too much.                             *)
ASSUME SpacesAssumption ==
    \A c \in Cards : LET z == SizesOf(c.space, Unit)
                    IN  z["boot"] >= 4 /\ \A s \in Spaces : z[s] >= 1

-----------------------------------------------------------------------------
VARIABLES
    card,     \* the card inserted
    pc,       \* where the script is
    step,     \* loop index of the current phase (poll, image, command)
    mounts,   \* mounted among "src" (card), "img" (loop), "img2" (target)
    content,  \* what every region of the eMMC holds
    len,      \* byte length of what every boot slot holds
    table,    \* the partition table on the eMMC
    kernel,   \* the partition table the kernel uses
    dirty,    \* regions (or "table") written and not yet synced
    faults    \* faults that may still happen

vars == <<card, pc, step, mounts, content, len, table, kernel, dirty, faults>>
disk == <<content, len, table, kernel, dirty>>

Phases == {"wait_sd", "wait_emmc", "enter_shell", "mount", "imgdir", "read_md5",
           "check_md5", "partition", "space", "clear_mbr", "geometry", "fdisk",
           "mkfs", "check_partition", "clear_env", "flash", "copy",
           "clear_cache", "sync", "umount"}
Running == pc \in Phases

-----------------------------------------------------------------------------
(* Extents.                                                                *)
Sectors(bytes) == (bytes + 511) \div 512
BootExtent(i, bytes) == [lo |-> 2 * Offset[i], hi |-> 2 * Offset[i] + Sectors(bytes) - 1]
EnvExtent == [lo |-> 2 * 768, hi |-> 2 * (768 + 256) - 1]
Overlap(a, b) == a.lo <= b.hi /\ b.lo <= a.hi

(* Where region r lies now; partitions lie where the kernel has them.      *)
Lies(r, e) ==
    \/ r \in BootImages /\ Overlap(BootExtent(r, len[r]), e)
    \/ r = "env" /\ Overlap(EnvExtent, e)
    \/ r \in DOMAIN kernel /\ Overlap(kernel[r], e)

(* A write of extent e that leaves region r with content c.                *)
Write(r, e, c) ==
    /\ content' = [x \in Regions |-> IF x = r THEN c
                                     ELSE IF Lies(x, e) THEN "junk" ELSE content[x]]
    /\ dirty' = dirty \cup {x \in Regions : x = r \/ Lies(x, e)}
    /\ UNCHANGED <<table, kernel>>

(* The table do_partition asks for, in sectors.                            *)
SectorRange(c) == [lo |-> (c.first - 1) * Unit, hi |-> c.last * Unit - 1]
PlanTable(c) ==
    LET plan == CylinderPlan(SizesOf(c.space, Unit), Cyls)
    IN  [p \in Parts |-> SectorRange(plan[p])]
PlanFits(c) == Fits(SizesOf(c.space, Unit), Cyls)

(* What fdisk can write when the plan does not fit (OvercommitOutcome of   *)
(* module Fdisk): no logical partition, and p1, given the default answers, *)
(* in front of p2, over the boot slots.  No step uses p2 or p4 of such a   *)
(* table, so that they are put where they were planned.                    *)
MisfitTables(c) ==
    {[p \in P |-> IF p = "p1" THEN [lo |-> 0, hi |-> PlanTable(c)["p2"].lo - 1]
                  ELSE PlanTable(c)[p]] : P \in SUBSET {"p1", "p2", "p4"}}

(* What is on the device when write_table is cut short: the MBR is written *)
(* first, then one boot record per logical partition; with all of them     *)
(* written the ioctl that makes the kernel re-read the table may still     *)
(* fail.  Records of an older table are still there, and the chain leads   *)
(* on to them when the extended partition begins where it did; the record  *)
(* of p6 lies in front of p6, where that of p5 says.  These are Logicals   *)
(* of module BootRecords; entries made of a sector without a record        *)
(* (Astray there) are left out: the kernel takes none without the flag     *)
(* 0x55AA, and fdisk's reader serves check_partition only.                 *)
Primary == {"p1", "p2", "p4"}
Stale(c) == {old \in OldTables \cup {kernel} :
               {"p5", "p6", "p7"} \subseteq DOMAIN old /\ old["p7"].lo = PlanTable(c)["p7"].lo}
Chained(c, old, new) == ("p5" \in new <=> "p6" \in new) \/ old["p6"].lo = PlanTable(c)["p6"].lo
Mixed(c, old, new) == [p \in Parts |-> IF p \in Primary \cup new THEN PlanTable(c)[p] ELSE old[p]]
Interrupted(c) ==
    IF PlanFits(c)
    THEN {[p \in P |-> PlanTable(c)[p]] : P \in {Primary, Primary \cup {"p5"}, Primary \cup {"p5", "p6"}, Parts}}
           \cup UNION {{Mixed(c, old, new) : new \in {n \in SUBSET {"p5", "p6", "p7"} : Chained(c, old, n)}} :
                         old \in Stale(c)}
    ELSE MisfitTables(c)

-----------------------------------------------------------------------------
Goto(p)  == pc' = p /\ step' = 1
Fault    == faults > 0 /\ faults' = faults - 1
NoFault  == UNCHANGED faults
Loop(n, p) == IF step < n THEN step' = step + 1 /\ UNCHANGED pc ELSE Goto(p)

ForcedUmount == mounts \ {"src"}

(* umount /src fails while userdata.img on the card backs a loop mount.    *)
WithoutSrc == IF "img" \in mounts THEN mounts ELSE mounts \ {"src"}

Quit == Goto("failed") /\ mounts' = WithoutSrc

Keep == UNCHANGED card

-----------------------------------------------------------------------------
WaitForever(here, next) ==
    /\ pc = here
    /\ \/ Goto(next) /\ NoFault
       \/ step' = (IF step = Polls THEN 1 ELSE step + 1) /\ UNCHANGED pc /\ NoFault
    /\ UNCHANGED <<mounts, disk>> /\ Keep

(* wait_device 0 "sd" && wait_device 2 "emmc"                              *)
WaitDevice(here, next) ==
    /\ pc = here
    /\ \/ Goto(next) /\ NoFault
       \/ /\ step < Polls /\ step' = step + 1 /\ UNCHANGED pc
          /\ IF step = 1 THEN Fault ELSE NoFault
       \/ /\ step = Polls /\ Goto("failed")
          /\ IF step = 1 THEN Fault ELSE NoFault
    /\ UNCHANGED <<mounts, disk>> /\ Keep

(* check_enter_shell: a key press ends the script with exit 1.             *)
EnterShell ==
    /\ pc = "enter_shell"
    /\ \/ Goto("mount") /\ NoFault
       \/ Goto("failed") /\ Fault
    /\ UNCHANGED <<mounts, disk>> /\ Keep

MountOrReuse ==
    /\ pc = "mount"
    /\ mounts' = mounts \cup {"src"} /\ Goto("imgdir") /\ NoFault
    /\ UNCHANGED disk /\ Keep

(* umount /src; mount /dev/sd1 /src.  Mounting the card twice is EBUSY.    *)
MountSrc ==
    /\ pc = "mount"
    /\ \/ "src" \notin WithoutSrc /\ mounts' = WithoutSrc \cup {"src"} /\ Goto("imgdir") /\ NoFault
       \/ "src" \in WithoutSrc /\ mounts' = WithoutSrc /\ Goto("failed") /\ NoFault
       \/ "src" \notin WithoutSrc /\ mounts' = WithoutSrc /\ Goto("failed") /\ Fault
    /\ UNCHANGED disk /\ Keep

(* The images directory.  The log moves to the card then, by commands that *)
(* nobody checks and nothing else depends on; it is left out.              *)
ImagesDir ==
    /\ pc = "imgdir"
    /\ \/ card.imagesDir /\ Goto("read_md5") /\ UNCHANGED mounts
       \/ ~card.imagesDir /\ Quit
    /\ NoFault /\ UNCHANGED disk /\ Keep

(* read_md5sum, skipped when the card has no md5sum.txt.                   *)
ReadMd5 ==
    /\ pc = "read_md5"
    /\ Goto(IF card.hasMd5 THEN "check_md5" ELSE "partition")
    /\ NoFault /\ UNCHANGED <<mounts, disk>> /\ Keep

CheckMd5IfListed ==
    /\ pc = "check_md5"
    /\ LET i == ImageSeq[step]
       IN  \/ (i \notin card.images \/ card.sum[i] # "mismatch") /\ Loop(7, "partition") /\ UNCHANGED mounts /\ NoFault
           \/ i \in card.images /\ card.sum[i] = "mismatch" /\ Quit /\ NoFault
    /\ UNCHANGED disk /\ Keep

(* check_image_md5 for one image; a read error shows as another sum.       *)
CheckMd5 ==
    /\ pc = "check_md5"
    /\ LET i == ImageSeq[step]
       IN  \/ i \notin card.images /\ Loop(7, "partition") /\ UNCHANGED mounts /\ NoFault
           \/ i \in card.images /\ card.sum[i] = "match" /\ Loop(7, "partition") /\ UNCHANGED mounts /\ NoFault
           \/ i \in card.images /\ card.sum[i] # "match" /\ Quit /\ NoFault
           \/ i \in card.images /\ card.sum[i] = "match" /\ Quit /\ Fault
    /\ UNCHANGED disk /\ Keep

PartitionOnlyOld ==
    /\ pc = "partition"
    /\ Goto(IF card.repartition /\ table # NoTable THEN "space" ELSE "check_partition")
    /\ NoFault /\ UNCHANGED <<mounts, disk>> /\ Keep

Partition ==
    /\ pc = "partition"
    /\ Goto(IF card.repartition THEN "space" ELSE "check_partition")
    /\ NoFault /\ UNCHANGED <<mounts, disk>> /\ Keep

-----------------------------------------------------------------------------
(* do_partition.  partition.cfg has been read into card.space.  The call   *)
(* of check_img_space_var changes nothing: eval "\$$2=$img_size" runs a    *)
(* word such as 256=300 as a command instead of assigning system_space.    *)
CheckSpaces ==
    /\ pc = "space"
    /\ \/ card.spacesSet /\ Goto("clear_mbr") /\ UNCHANGED mounts
       \/ ~card.spacesSet /\ Quit
    /\ NoFault /\ UNCHANGED disk /\ Keep

ClearMbr ==
    /\ pc = "clear_mbr"
    /\ \/ table' = NoTable /\ Goto("geometry") /\ UNCHANGED mounts /\ NoFault
       \/ table' \in {table, NoTable} /\ Quit /\ Fault
    /\ dirty' = dirty \cup {"table"}
    /\ UNCHANGED <<content, len, kernel>> /\ Keep

Geometry ==
    /\ pc = "geometry"
    /\ \/ Goto("fdisk") /\ UNCHANGED mounts /\ NoFault
       \/ Quit /\ Fault
    /\ UNCHANGED disk /\ Keep

NewTableUnread(t) ==
    /\ table' = t /\ dirty' = {}
    /\ UNCHANGED <<kernel, content>>

(* A new table in force: fdisk's w writes, syncs and has the kernel        *)
(* re-read it, so what the partitions hold is undefined.                   *)
NewTable(t) ==
    /\ table' = t /\ kernel' = t
    /\ content' = [r \in Regions |-> IF r \in Parts THEN "junk" ELSE content[r]]
    /\ dirty' = {}

(* fdisk run on part_cmds.  A plan that does not fit either leaves the     *)
(* table unwritten or yields a misfit; fdisk exits with 0 in all three.    *)
RunFdisk ==
    /\ pc = "fdisk"
    /\ \/ PlanFits(card) /\ NewTable(PlanTable(card)) /\ Goto("mkfs") /\ UNCHANGED mounts /\ NoFault
       \/ ~PlanFits(card) /\ (\E t \in MisfitTables(card) : NewTable(t)) /\ Goto("mkfs") /\ UNCHANGED mounts /\ NoFault
       \/ ~PlanFits(card) /\ UNCHANGED <<table, kernel, content, dirty, mounts>> /\ Goto("mkfs") /\ NoFault
       \/ /\ Quit /\ Fault
          /\ table' \in {table} \cup Interrupted(card) /\ dirty' = dirty \cup {"table"}
          /\ UNCHANGED <<kernel, content>>
    /\ UNCHANGED len /\ Keep

(* Making a file system on partition p, then the success continuation or   *)
(* quit.  The device node exists whether or not the partition does.        *)
MakeFs(p, next) ==
    \/ /\ p \in DOMAIN kernel /\ Write(p, kernel[p], "empty")
       /\ next /\ UNCHANGED mounts /\ NoFault
    \/ /\ p \in DOMAIN kernel /\ Write(p, kernel[p], "junk")
       /\ Quit /\ Fault
    \/ p \notin DOMAIN kernel /\ UNCHANGED <<content, dirty, table, kernel>> /\ Quit /\ NoFault

MkfsSeq == <<"p1", "p5", "p6", "p7">>
MkfsTwice ==
    /\ pc = "mkfs"
    /\ MakeFs(MkfsSeq[step], Loop(5, "clear_env"))
    /\ UNCHANGED len /\ Keep

Mkfs ==
    /\ pc = "mkfs"
    /\ MakeFs(MkfsSeq[step], Loop(4, "clear_env"))
    /\ UNCHANGED len /\ Keep

-----------------------------------------------------------------------------
(* check_partition: get_partitions reads the table on the device.          *)
KiB(bytes) == (bytes + 1023) \div 1024
PartBytes(p) == (table[p].hi - table[p].lo) * 512
WithinLimits(c) == \A i \in c.images \cap BootImages : KiB(c.size[i]) <= MaxKiB[i]
PartitionsExist ==
    /\ {"p2", "p4", "p5", "p6"} \subseteq DOMAIN table
    /\ "system.img" \in card.images => card.size["system.img"] <= PartBytes("p2")
PartitionsOk ==
    /\ {"p2", "p4", "p5", "p6"} \subseteq DOMAIN table
    /\ WithinLimits(card)
    /\ "system.img" \in card.images => card.size["system.img"] <= PartBytes("p2")

CheckPartition ==
    /\ pc = "check_partition"
    /\ \/ PartitionsOk /\ Goto("clear_env") /\ UNCHANGED mounts /\ NoFault
       \/ ~PartitionsOk /\ Quit /\ NoFault
       \/ PartitionsOk /\ Quit /\ Fault
    /\ UNCHANGED disk /\ Keep

ClearEnv ==
    /\ pc = "clear_env"
    /\ \/ ~card.clearubootenv /\ Goto("flash") /\ UNCHANGED <<mounts, content, dirty, table, kernel>> /\ NoFault
       \/ card.clearubootenv /\ Write("env", EnvExtent, "zero") /\ Goto("flash") /\ UNCHANGED mounts /\ NoFault
       \/ card.clearubootenv /\ Write("env", EnvExtent, "junk") /\ Quit /\ Fault
    /\ UNCHANGED len /\ Keep

-----------------------------------------------------------------------------
(* flash_image, mode dd_offset.                                            *)
FlashBoot(i) ==
    /\ len' = [len EXCEPT ![i] = card.size[i]]
    /\ \/ Write(i, BootExtent(i, card.size[i]), "image") /\ Loop(7, "clear_cache") /\ UNCHANGED mounts /\ NoFault
       \/ Write(i, BootExtent(i, card.size[i]), "junk") /\ Quit /\ Fault

(* flash_image, mode dd_part: dd stops with an error at the partition end. *)
FlashSystem ==
    LET there == "p2" \in DOMAIN kernel
        last  == kernel["p2"].lo + Sectors(card.size["system.img"]) - 1
        room  == last <= kernel["p2"].hi
        image == [lo |-> kernel["p2"].lo, hi |-> last]
    IN  /\ UNCHANGED len
        /\ \/ there /\ room /\ Write("p2", image, "image") /\ Loop(7, "clear_cache") /\ UNCHANGED mounts /\ NoFault
           \/ there /\ room /\ Write("p2", image, "junk") /\ Quit /\ Fault
           \/ there /\ ~room /\ Write("p2", kernel["p2"], "junk") /\ Quit /\ NoFault
           \/ ~there /\ UNCHANGED <<content, dirty, table, kernel>> /\ Quit /\ NoFault

FlashImage ==
    /\ pc = "flash"
    /\ LET i == ImageSeq[step]
       IN  \/ i \notin card.images /\ Loop(7, "clear_cache") /\ UNCHANGED <<mounts, disk>> /\ NoFault
           \/ i \in card.images \cap BootImages /\ FlashBoot(i)
           \/ i \in card.images /\ i = "system.img" /\ FlashSystem
           \/ i \in card.images /\ i = "userdata.img" /\ Goto("copy") /\ UNCHANGED <<mounts, disk>> /\ NoFault
    /\ Keep

(* flash_image, mode cp: mke2fs, mount the image, mount the partition,     *)
(* copy, umount twice.  A failing command leaves the mounts as they are.   *)
CopyUserdata ==
    /\ pc = "copy"
    /\ \/ step = 1 /\ MakeFs("p5", Loop(6, "clear_cache"))
       \/ /\ step \in {2, 3} /\ Loop(6, "clear_cache") /\ NoFault
          /\ mounts' = mounts \cup {IF step = 2 THEN "img" ELSE "img2"}
          /\ UNCHANGED <<content, dirty, table, kernel>>
       \/ /\ step \in {5, 6} /\ Loop(6, "clear_cache") /\ NoFault
          /\ mounts' = mounts \ {IF step = 5 THEN "img2" ELSE "img"}
          /\ dirty' = IF step = 5 THEN dirty \ {"p5"} ELSE dirty
          /\ UNCHANGED <<content, table, kernel>>
       \/ /\ step = 4 /\ Loop(6, "clear_cache") /\ NoFault
          /\ content' = [content EXCEPT !["p5"] = "image"] /\ dirty' = dirty \cup {"p5"}
          /\ UNCHANGED <<table, kernel, mounts>>
       \/ /\ step > 1 /\ Quit /\ Fault
          /\ content' = IF step = 4 THEN [content EXCEPT !["p5"] = "junk"] ELSE content
          /\ dirty' = IF step = 4 THEN dirty \cup {"p5"} ELSE dirty
          /\ UNCHANGED <<table, kernel>>
    /\ UNCHANGED len /\ Keep

ClearCache ==
    /\ pc = "clear_cache"
    /\ MakeFs("p6", Goto("sync"))
    /\ UNCHANGED len /\ Keep

NoSync ==
    /\ pc = "sync" /\ Goto("umount") /\ NoFault
    /\ UNCHANGED <<mounts, disk>> /\ Keep

Sync ==
    /\ pc = "sync"
    /\ \/ dirty' = {} /\ Goto("umount") /\ UNCHANGED mounts /\ NoFault
       \/ UNCHANGED dirty /\ Quit /\ Fault
    /\ UNCHANGED <<content, len, table, kernel>> /\ Keep

UmountSrc ==
    /\ pc = "umount"
    /\ \/ mounts' = mounts \ {"src"} /\ Goto("success") /\ NoFault
       \/ UNCHANGED mounts /\ Goto("failed") /\ Fault
    /\ UNCHANGED disk /\ Keep

Script ==
    \/ WaitDevice("wait_sd", "wait_emmc") \/ WaitDevice("wait_emmc", "enter_shell")
    \/ EnterShell \/ MountSrc \/ ImagesDir \/ ReadMd5 \/ CheckMd5 \/ Partition
    \/ CheckSpaces \/ ClearMbr \/ Geometry \/ RunFdisk \/ Mkfs
    \/ CheckPartition \/ ClearEnv \/ FlashImage \/ CopyUserdata
    \/ ClearCache \/ Sync \/ UmountSrc

-----------------------------------------------------------------------------
(* The eMMC keeps its contents over a power cycle, except that any write   *)
(* not yet synced may be lost; everything else starts afresh and rcS runs  *)
(* the script again.  An exchanged card turns "image" into "other".        *)
Relabel(x, c) == IF c # card /\ x = "image" THEN "other" ELSE x

(* A partition that is not where the kernel had it holds nothing useful.   *)
Moved(r, t) == /\ r \in Parts
               /\ r \in DOMAIN t \cap DOMAIN kernel => t[r] # kernel[r]

PowerUp(c) ==
    /\ card' = c
    /\ \E lost \in SUBSET (dirty \ {"table"}),
          t \in IF "table" \notin dirty THEN {table}
                 ELSE {table, kernel, NoTable} \cup (IF pc = "fdisk" THEN Interrupted(card) ELSE {}) :
         /\ table' = t /\ kernel' = t
         /\ content' = [r \in Regions |->
                          IF r \in lost \/ Moved(r, t) THEN "junk"
                          ELSE Relabel(content[r], c)]
    /\ dirty' = {} /\ mounts' = {}
    /\ Goto("wait_sd") /\ UNCHANGED len

PowerLoss == Running /\ Fault /\ \E c \in Cards : PowerUp(c)

(* After success rcS reboots; after a failure the operator does.           *)
Reboot == ~Running /\ NoFault /\ \E c \in Cards : PowerUp(c)

(* The operator runs flash.sh again from the shell, with another card if   *)
(* the old one is not mounted any more.                                    *)
Rerun ==
    /\ pc = "failed"
    /\ \E c \in IF "src" \in mounts THEN {card} ELSE Cards :
         /\ card' = c
         /\ content' = [r \in Regions |-> Relabel(content[r], c)]
    /\ Goto("wait_sd")
    /\ UNCHANGED <<mounts, len, table, kernel, dirty, faults>>

Init ==
    /\ card \in Cards /\ table \in OldTables
    /\ kernel = table
    /\ pc = "wait_sd" /\ step = 1
    /\ mounts = {} /\ dirty = {}
    /\ len = OldLen
    /\ content = [r \in Regions |-> IF r \in Parts \ DOMAIN table THEN "junk" ELSE "other"]
    /\ faults = MaxFaults

Next == Script \/ PowerLoss \/ Reboot \/ Rerun

(* The script is an ordinary process: whatever it can do it does.          *)
Spec == Init /\ [][Next]_vars /\ WF_vars(Script)

(* ... and an operator who is told that flashing failed sooner or later    *)
(* switches the device off and on.                                         *)
PatientSpec == Spec /\ SF_vars(Reboot)

-----------------------------------------------------------------------------
Steps == [p \in Phases |-> CASE p \in {"wait_sd", "wait_emmc"} -> Polls
                             [] p \in {"check_md5", "flash"}   -> 7
                             [] p = "mkfs"                     -> 4
                             [] p = "copy"                     -> 6
                             [] OTHER                          -> 1]

(* Every variable stays in its domain, and the loops over polls, images    *)
(* and commands stay inside their lists (flash.sh 213-216, 323, 367,       *)
(* 517-523, 549-555).                                                      *)
TypeOK ==
    /\ card \in Cards
    /\ pc \in Phases \cup {"success", "failed"}
    /\ step \in 1 .. (IF Running THEN Steps[pc] ELSE 1)
    /\ mounts \subseteq {"src", "img", "img2"}
    /\ content \in [Regions -> Contents]
    /\ len \in [BootImages -> Nat]
    /\ IsTable(table) /\ IsTable(kernel)
    /\ dirty \subseteq Regions \cup {"table"}
    /\ faults \in 0..MaxFaults

(* The target partition is mounted only under a loop mount, and the loop   *)
(* mount only over a mounted card, in whatever order commands fail, the    *)
(* cleanup in quit runs and the script is started again (flash.sh          *)
(* 308-338, 434-438, 482-488).                                             *)
MountNesting ==
    /\ "img2" \in mounts => "img" \in mounts
    /\ "img" \in mounts => "src" \in mounts

(* No partition of the eMMC is mounted while do_partition rewrites the     *)
(* table: a failed copy leaves /dev/emmc5 mounted, and nothing in          *)
(* do_partition looks for that; a rerun must get stuck before it (flash.sh *)
(* 147-216).                                                               *)
TargetIdleAtPartitioning ==
    pc \in {"space", "clear_mbr", "geometry", "fdisk", "mkfs"} => "img2" \notin mounts

(* The script changes the eMMC, its partition table included, only when    *)
(* the card has no md5sum.txt or every image on the card has the sum       *)
(* listed there: a bad image is noticed before the first write, never      *)
(* between two (flash.sh 507-526).                                         *)
ByScript == Running /\ pc' # "wait_sd"
Verified(c) == c.hasMd5 => \A i \in c.images : c.sum[i] = "match"
OnlyVerifiedImagesWritten ==
    [][ByScript /\ <<content, table>>' # <<content, table>> => Verified(card) /\ "src" \in mounts]_vars

(* The boot slots end below the first partition (layout comment, flash.sh  *)
(* 30-40).                                                                 *)
BootAreaFree(t) == \A p \in DOMAIN t : t[p].lo >= 2 * (8192 + 8192)
Disjoint(t) == \A p, q \in DOMAIN t : p # q => ~Overlap(t[p], t[q])
BelowEnv(c) == "u-boot-no-padding.bin" \in c.images => KiB(c.size["u-boot-no-padding.bin"]) <= 767

(* After fdisk, a repartitioning run on a device that is large enough      *)
(* works on the table it asked for: the one on the eMMC and the one the    *)
(* kernel uses are both the planned one, although the kernel's is only     *)
(* changed by fdisk's last command (flash.sh 191-216).                     *)
RepartitionInForce ==
    pc \in {"mkfs", "clear_env", "flash", "copy", "clear_cache", "sync", "umount", "success"}
      /\ card.repartition /\ PlanFits(card)
    => table = PlanTable(card) /\ kernel = table

(* "flash success!" (flash.sh 585): every image of the card is on the      *)
(* eMMC, complete and synced, none damaged by the writing of another one,  *)
(* the cache is empty, the new partitions are formatted and nothing is     *)
(* left mounted.  Assumed: the images respect the slot limits where the    *)
(* script does not test them (repartition), the plan fits, and where the   *)
(* script does not renew the table the kernel's is the device's and has no *)
(* overlapping partitions.  The system partition may begin inside the boot *)
(* area (flash.sh 173), and with a small boot_space all of them: that      *)
(* harms the images and partitions that meet and no others.                *)
Apart(i, p) == i \in BootImages => ~Overlap(BootExtent(i, card.size[i]), kernel[p])
EnvApartFrom(p) == ~Overlap(EnvExtent, kernel[p])
SuccessIntact ==
    pc = "success" /\ (IF card.repartition THEN PlanFits(card) /\ WithinLimits(card)
                       ELSE kernel = table /\ Disjoint(kernel))
    => /\ \A i \in card.images :
            (\A p \in DOMAIN kernel : Apart(i, p)) => content[RegionOf(i)] = "image"
       /\ content["p6"] = "empty"
       /\ card.repartition =>
            \A p \in {"p1", "p7"} : (\A i \in card.images : Apart(i, p)) /\ (card.clearubootenv => EnvApartFrom(p))
                                     => content[p] = "empty"
       /\ card.clearubootenv /\ BelowEnv(card) /\ (\A p \in DOMAIN kernel : EnvApartFrom(p)) => content["env"] = "zero"
       /\ dirty = {} /\ mounts = {}

(* An update (no repartition) touches only what it updates: the regions of *)
(* the images on the card, the cache and, when asked for, the u-boot       *)
(* environment.  User data, wowconfig, the other boot slots and the table  *)
(* stay as they are, also when the run fails (flash.sh 268-291, 549-563).  *)
(* Assumed of the device: its partitions lie apart from each other and     *)
(* behind the boot area, and nothing in a boot slot is larger than that.   *)
Updated(c) == {RegionOf(i) : i \in c.images} \cup {"p6"}
                 \cup (IF c.clearubootenv THEN {"env"} ELSE {})
SlotsKept == \A i \in BootImages : KiB(len[i]) <= IF i = "u-boot-no-padding.bin" THEN 767 ELSE MaxKiB[i]
UpdateConfined ==
    [][ByScript /\ ~card.repartition /\ BelowEnv(card) /\ BootAreaFree(kernel) /\ Disjoint(kernel) /\ SlotsKept
       => /\ \A r \in Regions \ Updated(card) : content'[r] = content[r]
          /\ table' = table]_vars

(* Every run of the script comes to an end: no wait is unbounded and no    *)
(* loop is left spinning (flash.sh 364-387).                               *)
EveryRunEnds == Running ~> ~Running

(* Whatever goes wrong, repeating the power cycle with a sound card ends   *)
(* in success: no failure leaves a state the script cannot start from.     *)
Recovers == []<>(pc = "success")

-----------------------------------------------------------------------------
(* rcS 32: "flash success, system will be reboot": what is reported as     *)
(* flashed is still there after that reboot.                               *)
SuccessSurvivesReboot ==
    [][pc = "success" /\ pc' = "wait_sd" /\ card' = card
       => \A i \in card.images : content[RegionOf(i)] = "image" => content'[RegionOf(i)] = "image"]_vars
=============================================================================
