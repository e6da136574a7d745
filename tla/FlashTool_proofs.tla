-------------------------- MODULE FlashTool_proofs --------------------------
(***************************************************************************)
(* Safety of flash.sh for every set of cards, every device geometry, every *)
(* number of polls and every number of faults.                             *)
(***************************************************************************)
EXTENDS FlashTool, TLAPS

-----------------------------------------------------------------------------
(* Mounts.  The card is mounted in every phase after "mount"; the loop     *)
(* mount and the target mount exist only between the commands that make    *)
(* and undo them, or are left behind by a failure in between, with the     *)
(* card below them.                                                        *)
Mounted == Phases \ {"wait_sd", "wait_emmc", "enter_shell", "mount"}
Plain   == Mounted \ {"copy"}

MountInv ==
    /\ step \in Nat
    /\ MountNesting
    /\ pc \in Mounted => "src" \in mounts
    /\ pc \in Plain => "img" \notin mounts
    /\ pc = "copy" => /\ "img" \in mounts <=> step >= 3
                      /\ "img2" \in mounts <=> step \in {4, 5}
                      /\ step <= 6

(* What quit leaves: the nesting, whatever is mounted.                     *)
LEMMA QuitMounts ==
    ASSUME MountInv, Quit PROVE MountInv'
<1>1. pc' = "failed" /\ step' = 1
  BY DEF Quit, Goto
<1>2. MountNesting'
  BY DEF Quit, WithoutSrc, MountInv, MountNesting
<1>. QED  BY <1>1, <1>2 DEF MountInv, Mounted, Plain, Phases

(* The other steps that neither mount nor unmount.                         *)
Stay == /\ pc \in Plain /\ pc' \in Plain \cup {"failed"}
        /\ step' \in Nat /\ mounts' = mounts

LEMMA StayMounts ==
    ASSUME MountInv, Stay PROVE MountInv'
BY DEF Stay, MountInv, MountNesting, Mounted, Plain, Phases

(* Every phase in which the card stays mounted ends in another one or in   *)
(* quit.                                                                   *)
PlainStep ==
    \/ ImagesDir \/ ReadMd5 \/ CheckMd5 \/ Partition \/ CheckSpaces \/ ClearMbr
    \/ Geometry \/ RunFdisk \/ Mkfs \/ CheckPartition \/ ClearEnv
    \/ ClearCache \/ Sync

LEMMA PlainSteps ==
    ASSUME step \in Nat, PlainStep PROVE Stay \/ Quit
<1>. USE DEF Stay, Goto, Loop, Plain, Mounted, Phases
<1>1. CASE ImagesDir       BY <1>1 DEF ImagesDir
<1>2. CASE ReadMd5         BY <1>2 DEF ReadMd5
<1>3. CASE CheckMd5        BY <1>3 DEF CheckMd5
<1>4. CASE Partition       BY <1>4 DEF Partition
<1>5. CASE CheckSpaces     BY <1>5 DEF CheckSpaces
<1>6. CASE ClearMbr        BY <1>6 DEF ClearMbr
<1>7. CASE Geometry        BY <1>7 DEF Geometry
<1>8. CASE RunFdisk        BY <1>8 DEF RunFdisk
<1>9. CASE Mkfs            BY <1>9 DEF Mkfs, MakeFs
<1>10. CASE CheckPartition BY <1>10 DEF CheckPartition
<1>11. CASE ClearEnv       BY <1>11 DEF ClearEnv
<1>12. CASE ClearCache     BY <1>12 DEF ClearCache, MakeFs
<1>13. CASE Sync           BY <1>13 DEF Sync
<1>. QED
  BY <1>1, <1>2, <1>3, <1>4, <1>5, <1>6, <1>7, <1>8, <1>9, <1>10, <1>11, <1>12, <1>13
     DEF PlainStep

LEMMA MountInit == Init => MountInv
BY DEF Init, MountInv, MountNesting, Mounted, Plain, Phases

LEMMA MountNext == MountInv /\ [Next]_vars => MountInv'
<1>. SUFFICES ASSUME MountInv, [Next]_vars PROVE MountInv'
  OBVIOUS
<1>1. ASSUME NEW here \in {"wait_sd", "wait_emmc"}, NEW next \in {"wait_emmc", "enter_shell"},
             WaitDevice(here, next)
      PROVE  MountInv'
  <2>1. mounts' = mounts /\ step' \in Nat /\ pc' \in {"wait_sd", "wait_emmc", "enter_shell", "failed"}
    BY <1>1 DEF WaitDevice, Goto, MountInv
  <2>. QED  BY <2>1 DEF MountInv, MountNesting, Mounted, Plain, Phases
<1>2. CASE EnterShell
  <2>1. mounts' = mounts /\ step' = 1 /\ pc' \in {"mount", "failed"}
    BY <1>2 DEF EnterShell, Goto
  <2>. QED  BY <2>1 DEF MountInv, MountNesting, Mounted, Plain, Phases
<1>3. CASE MountSrc
  <2>1. step' = 1
    BY <1>3 DEF MountSrc, Goto
  <2>2. CASE pc' = "imgdir"
    <3>1. "src" \notin WithoutSrc /\ mounts' = WithoutSrc \cup {"src"}
      BY <1>3, <2>2 DEF MountSrc, Goto
    <3>2. "img" \notin mounts /\ "img2" \notin mounts
      BY <3>1 DEF WithoutSrc, MountInv, MountNesting
    <3>. QED  BY <2>1, <2>2, <3>1, <3>2 DEF MountInv, MountNesting, WithoutSrc, Mounted, Plain, Phases
  <2>3. CASE pc' = "failed"
    <3>1. mounts' = WithoutSrc
      BY <1>3, <2>3 DEF MountSrc, Goto
    <3>. QED  BY <2>1, <2>3, <3>1 DEF MountInv, MountNesting, WithoutSrc, Mounted, Plain, Phases
  <2>. QED  BY <1>3, <2>2, <2>3 DEF MountSrc, Goto
<1>4. CASE PlainStep
  BY <1>4, PlainSteps, StayMounts, QuitMounts DEF MountInv
<1>5. CASE FlashImage
  <2>1. Quit \/ Stay \/ (pc \in Plain /\ mounts' = mounts /\ pc' = "copy" /\ step' = 1)
    BY <1>5 DEF FlashImage, FlashBoot, FlashSystem, Loop, Goto, Stay, MountInv, Mounted, Plain, Phases
  <2>2. CASE pc \in Plain /\ mounts' = mounts /\ pc' = "copy" /\ step' = 1
    BY <2>2 DEF MountInv, MountNesting, Mounted, Plain, Phases
  <2>. QED  BY <2>1, <2>2, StayMounts, QuitMounts
<1>6. CASE CopyUserdata
  <2>. USE DEF MountInv
  <2>1. pc = "copy" /\ step \in Nat /\ step <= 6
    BY <1>6 DEF CopyUserdata
  <2>2. CASE Quit
    BY <2>2, QuitMounts
  <2>3. CASE /\ step \in {2, 3} /\ Loop(6, "clear_cache")
             /\ mounts' = mounts \cup {IF step = 2 THEN "img" ELSE "img2"}
    <3>1. pc' = "copy" /\ step' = step + 1
      BY <2>1, <2>3 DEF Loop
    <3>2. CASE step = 2
      BY <2>1, <2>3, <3>1, <3>2 DEF MountNesting, Mounted, Plain, Phases
    <3>3. CASE step = 3
      BY <2>1, <2>3, <3>1, <3>3 DEF MountNesting, Mounted, Plain, Phases
    <3>. QED  BY <2>3, <3>2, <3>3
  <2>4. CASE step \in {1, 4} /\ Loop(6, "clear_cache") /\ mounts' = mounts
    <3>1. pc' = "copy" /\ step' = step + 1
      BY <2>1, <2>4 DEF Loop
    <3>. QED  BY <2>1, <2>4, <3>1 DEF MountNesting, Mounted, Plain, Phases
  <2>5. CASE /\ step \in {5, 6} /\ Loop(6, "clear_cache")
             /\ mounts' = mounts \ {IF step = 5 THEN "img2" ELSE "img"}
    <3>1. CASE step = 5
      <4>1. pc' = "copy" /\ step' = 6 /\ mounts' = mounts \ {"img2"}
        BY <2>1, <2>5, <3>1 DEF Loop
      <4>. QED  BY <2>1, <3>1, <4>1 DEF MountNesting, Mounted, Plain, Phases
    <3>2. CASE step = 6
      <4>1. pc' = "clear_cache" /\ step' = 1 /\ mounts' = mounts \ {"img"}
        BY <2>5, <3>2 DEF Loop, Goto
      <4>. QED  BY <2>1, <3>2, <4>1 DEF MountNesting, Mounted, Plain, Phases
    <3>. QED  BY <2>5, <3>1, <3>2
  <2>. QED  BY <1>6, <2>2, <2>3, <2>4, <2>5 DEF CopyUserdata, MakeFs
<1>7. CASE UmountSrc
  <2>1. pc = "umount" /\ step' = 1 /\ pc' \in {"success", "failed"} /\ mounts' \in {mounts, mounts \ {"src"}}
    BY <1>7 DEF UmountSrc, Goto
  <2>. QED  BY <2>1 DEF MountInv, MountNesting, Mounted, Plain, Phases
<1>8. CASE PowerLoss \/ Reboot
  <2>1. mounts' = {} /\ pc' = "wait_sd" /\ step' = 1
    BY <1>8 DEF PowerLoss, Reboot, PowerUp, Goto
  <2>. QED  BY <2>1 DEF MountInv, MountNesting, Mounted, Plain, Phases
<1>9. CASE Rerun
  <2>1. mounts' = mounts /\ pc' = "wait_sd" /\ step' = 1
    BY <1>9 DEF Rerun, Goto
  <2>. QED  BY <2>1 DEF MountInv, MountNesting, Mounted, Plain, Phases
<1>10. CASE UNCHANGED vars
  BY <1>10 DEF vars, MountInv, MountNesting, Mounted, Plain, Phases
<1>. QED
  BY <1>1, <1>2, <1>3, <1>4, <1>5, <1>6, <1>7, <1>8, <1>9, <1>10 DEF Next, Script, PlainStep

(* The target partition is mounted only below a loop mount and that only   *)
(* below a mounted card (flash.sh 308-338, 434-438, 482-488).              *)
THEOREM MountNestingHolds == Spec => []MountNesting
<1>1. MountInv => MountNesting
  BY DEF MountInv
<1>. QED  BY <1>1, MountInit, MountNext, PTL DEF Spec

(* No partition of the eMMC is mounted while the table is rewritten        *)
(* (flash.sh 147-216).                                                     *)
THEOREM TargetIdleHolds == Spec => []TargetIdleAtPartitioning
<1>1. MountInv => TargetIdleAtPartitioning
  BY DEF MountInv, MountNesting, TargetIdleAtPartitioning, Mounted, Plain, Phases
<1>. QED  BY <1>1, MountInit, MountNext, PTL DEF Spec

-----------------------------------------------------------------------------
(* Verification.  The images checked so far match; once all are checked,   *)
(* the card is verified and stays so, since it cannot be exchanged while   *)
(* the script runs.                                                        *)
Unchecked == {"wait_sd", "wait_emmc", "enter_shell", "mount", "imgdir", "read_md5", "check_md5"}
Checked   == Phases \ Unchecked

VerifiedInv ==
    /\ card \in Cards
    /\ pc = "check_md5" => /\ card.hasMd5 /\ step \in 1..7
                           /\ \A k \in 1..7 : k < step /\ ImageSeq[k] \in card.images
                                                => card.sum[ImageSeq[k]] = "match"
    /\ pc \in Checked => Verified(card)

LEMMA EveryImageListed ==
    ASSUME NEW c \in Cards, NEW i \in c.images
    PROVE  \E k \in 1..7 : ImageSeq[k] = i
<1>1. c.images \subseteq Images
  BY FlashAssumption DEF CardType
<1>2. i \in BootImages \cup {"system.img", "userdata.img"}
  BY <1>1 DEF Images
<1>. QED  BY <1>2 DEF BootImages, ImageSeq

(* A step that leaves the card in place and goes from a checked phase to a *)
(* checked phase or to the end of the run keeps the invariant.             *)
LEMMA StaysVerified ==
    ASSUME VerifiedInv, card' = card,
           pc' \in Checked => pc \in Checked,
           pc' # "check_md5"
    PROVE  VerifiedInv'
BY DEF VerifiedInv, Verified

LEMMA VerifiedInit == Init => VerifiedInv
BY DEF Init, VerifiedInv, Checked, Unchecked, Phases

(* The phases after the check, and how they go on.                         *)
CheckedStep ==
    \/ Partition \/ CheckSpaces \/ ClearMbr \/ Geometry \/ RunFdisk \/ Mkfs
    \/ CheckPartition \/ ClearEnv \/ FlashImage \/ CopyUserdata
    \/ ClearCache \/ Sync \/ UmountSrc

LEMMA CheckedSteps ==
    ASSUME CheckedStep
    PROVE  card' = card /\ pc \in Checked /\ pc' \in Checked \cup {"success", "failed"}
<1>. USE DEF Goto, Loop, Quit, Keep, Checked, Unchecked, Phases
<1>1. CASE Partition       BY <1>1 DEF Partition
<1>2. CASE CheckSpaces     BY <1>2 DEF CheckSpaces
<1>3. CASE ClearMbr        BY <1>3 DEF ClearMbr
<1>4. CASE Geometry        BY <1>4 DEF Geometry
<1>5. CASE RunFdisk        BY <1>5 DEF RunFdisk
<1>6. CASE Mkfs            BY <1>6 DEF Mkfs, MakeFs
<1>7. CASE CheckPartition  BY <1>7 DEF CheckPartition
<1>8. CASE ClearEnv        BY <1>8 DEF ClearEnv
<1>9. CASE FlashImage      BY <1>9 DEF FlashImage, FlashBoot, FlashSystem
<1>10. CASE CopyUserdata   BY <1>10 DEF CopyUserdata, MakeFs
<1>11. CASE ClearCache     BY <1>11 DEF ClearCache, MakeFs
<1>12. CASE Sync           BY <1>12 DEF Sync
<1>13. CASE UmountSrc      BY <1>13 DEF UmountSrc
<1>. QED
  BY <1>1, <1>2, <1>3, <1>4, <1>5, <1>6, <1>7, <1>8, <1>9, <1>10, <1>11, <1>12, <1>13
     DEF CheckedStep

(* The phases up to the check leave the eMMC alone.                        *)
UncheckedStep ==
    \/ WaitDevice("wait_sd", "wait_emmc") \/ WaitDevice("wait_emmc", "enter_shell")
    \/ EnterShell \/ MountSrc \/ ImagesDir \/ ReadMd5 \/ CheckMd5

LEMMA UncheckedSteps ==
    ASSUME UncheckedStep PROVE card' = card /\ UNCHANGED disk /\ pc \in Unchecked
BY DEF UncheckedStep, WaitDevice, EnterShell, MountSrc, ImagesDir, ReadMd5, CheckMd5, Keep, Unchecked

LEMMA VerifiedNext == VerifiedInv /\ [Next]_vars => VerifiedInv'
<1>. SUFFICES ASSUME VerifiedInv, [Next]_vars PROVE VerifiedInv'
  OBVIOUS
<1>1. CASE CheckedStep
  <2>1. pc' # "check_md5"
    BY <1>1, CheckedSteps DEF Checked, Unchecked, Phases
  <2>. QED  BY <1>1, <2>1, CheckedSteps, StaysVerified
<1>2. CASE WaitDevice("wait_sd", "wait_emmc") \/ WaitDevice("wait_emmc", "enter_shell")
             \/ EnterShell \/ MountSrc \/ ImagesDir
  <2>1. pc' \in {"wait_sd", "wait_emmc", "enter_shell", "mount", "imgdir", "read_md5", "failed"}
    BY <1>2 DEF WaitDevice, EnterShell, MountSrc, ImagesDir, Goto, Quit
  <2>2. card' = card
    BY <1>2, UncheckedSteps DEF UncheckedStep
  <2>. QED  BY <2>1, <2>2, StaysVerified DEF Checked, Unchecked, Phases
<1>3. CASE ReadMd5
  <2>1. card' = card /\ step' = 1 /\ pc' = IF card.hasMd5 THEN "check_md5" ELSE "partition"
    BY <1>3 DEF ReadMd5, Goto, Keep
  <2>. QED  BY <2>1 DEF VerifiedInv, Verified, Checked, Unchecked, Phases
<1>4. CASE CheckMd5
  <2>1. pc = "check_md5" /\ card' = card
    BY <1>4 DEF CheckMd5, Keep
  <2>2. CASE Quit
    <3>1. pc' = "failed"
      BY <2>2 DEF Quit, Goto
    <3>. QED  BY <2>1, <3>1, StaysVerified DEF Checked, Unchecked, Phases
  <2>3. CASE Loop(7, "partition") /\ (ImageSeq[step] \in card.images => card.sum[ImageSeq[step]] = "match")
    <3>1. step \in 1..7 /\ \A k \in 1..7 : k <= step /\ ImageSeq[k] \in card.images
                                             => card.sum[ImageSeq[k]] = "match"
      BY <2>1, <2>3 DEF VerifiedInv
    <3>2. CASE step < 7
      <4>1. pc' = "check_md5" /\ step' = step + 1
        BY <2>1, <2>3, <3>2 DEF Loop
      <4>. QED  BY <2>1, <3>1, <3>2, <4>1 DEF VerifiedInv, Checked, Unchecked, Phases
    <3>3. CASE step = 7
      <4>1. pc' = "partition" /\ step' = 1
        BY <2>3, <3>1, <3>3 DEF Loop, Goto
      <4>2. \A i \in card.images : card.sum[i] = "match"
        BY <3>1, <3>3, EveryImageListed DEF VerifiedInv
      <4>. QED  BY <2>1, <4>1, <4>2 DEF VerifiedInv, Verified
    <3>. QED  BY <3>1, <3>2, <3>3
  <2>. QED  BY <1>4, <2>2, <2>3 DEF CheckMd5
<1>5. CASE PowerLoss \/ Reboot \/ Rerun
  <2>1. card' \in Cards /\ pc' = "wait_sd"
    BY <1>5 DEF PowerLoss, Reboot, Rerun, PowerUp, Goto, VerifiedInv
  <2>. QED  BY <2>1 DEF VerifiedInv, Checked, Unchecked, Phases
<1>6. CASE UNCHANGED vars
  BY <1>6 DEF vars, VerifiedInv, Verified
<1>. QED
  BY <1>1, <1>2, <1>3, <1>4, <1>5, <1>6 DEF Next, Script, CheckedStep

(* Nothing is written to the eMMC unless the card is mounted and, where it *)
(* has an md5sum.txt, all of its images match (flash.sh 507-526).          *)
THEOREM OnlyVerifiedHolds == Spec => OnlyVerifiedImagesWritten
<1>. DEFINE A == ByScript /\ <<content, table>>' # <<content, table>> => Verified(card) /\ "src" \in mounts
<1>1. MountInv /\ VerifiedInv /\ [Next]_vars => [A]_vars
  <2>. SUFFICES ASSUME MountInv, VerifiedInv, Next PROVE A
    OBVIOUS
  <2>1. CASE CheckedStep
    <3>1. pc \in Checked
      BY <2>1, CheckedSteps
    <3>. QED  BY <3>1 DEF VerifiedInv, MountInv, Checked, Unchecked, Mounted, Phases
  <2>2. CASE UncheckedStep
    BY <2>2, UncheckedSteps DEF disk
  <2>3. CASE PowerLoss \/ Reboot \/ Rerun
    BY <2>3 DEF PowerLoss, Reboot, Rerun, PowerUp, Goto, ByScript, Running, Phases
  <2>. QED  BY <2>1, <2>2, <2>3 DEF Next, Script, CheckedStep, UncheckedStep
<1>. QED  BY <1>1, MountInit, MountNext, VerifiedInit, VerifiedNext, PTL DEF Spec, OnlyVerifiedImagesWritten

-----------------------------------------------------------------------------
(* Types.                                                                  *)

(* The planned table is a table of integers: Unit is positive, so that the *)
(* sizes in cylinders are integers.                                        *)
LEMMA SizesAreInts ==
    ASSUME NEW c \in Cards, NEW s \in Spaces PROVE SizesOf(c.space, Unit)[s] \in Int
<1>1. c.space[s] \in Nat
  BY FlashAssumption DEF CardType
<1>2. Unit \in Nat \ {0}
  BY FlashAssumption
<1>3. c.space[s] * SectorsPerMiB \in Int
  BY <1>1 DEF SectorsPerMiB
<1>4. (c.space[s] * SectorsPerMiB) \div Unit \in Int
  BY <1>2, <1>3
<1>. QED  BY <1>4 DEF SizesOf

LEMMA PlanIsTable ==
    ASSUME NEW c \in Cards
    PROVE  DOMAIN PlanTable(c) = Parts /\ \A p \in Parts : PlanTable(c)[p] \in Extent
<1>. DEFINE z == SizesOf(c.space, Unit)
<1>1. \A s \in Spaces : z[s] \in Int
  BY SizesAreInts
<1>2. Unit \in Nat /\ Cyls \in Nat
  BY FlashAssumption
<1>. HIDE DEF z
<1>3. /\ z["boot"] \in Int /\ z["system"] \in Int /\ z["data"] \in Int
      /\ z["cache"] \in Int /\ z["recovery"] \in Int /\ z["wowconfig"] \in Int
  BY <1>1 DEF Spaces
<1>. DEFINE plan == CylinderPlan(z, Cyls)
<1>4. \A p \in Parts : plan[p].first \in Int /\ plan[p].last \in Int
  BY <1>2, <1>3 DEF Parts, CylinderPlan, RecoveryEnd, DataEnd, CacheEnd, WowconfigEnd, ExtEnd, SystemEnd, BootEnd
<1>. HIDE DEF plan
<1>5. \A p \in Parts : (plan[p].first - 1) * Unit \in Int /\ plan[p].last * Unit - 1 \in Int
  BY <1>2, <1>4
<1>6. \A p \in Parts : SectorRange(plan[p]) \in Extent
  BY <1>5 DEF SectorRange, Extent
<1>7. PlanTable(c) = [p \in Parts |-> SectorRange(plan[p])]
  BY DEF PlanTable, plan, z
<1>. QED  BY <1>6, <1>7

LEMMA TablesTyped ==
    ASSUME NEW c \in Cards, IsTable(kernel)
    PROVE  /\ IsTable(NoTable) /\ IsTable(PlanTable(c))
           /\ \A t \in MisfitTables(c) \cup Interrupted(c) : IsTable(t)
<1>1. IsTable(NoTable)
  BY DEF IsTable, NoTable
<1>2. IsTable(PlanTable(c))
  BY PlanIsTable DEF IsTable
<1>3. ASSUME NEW t \in MisfitTables(c) PROVE IsTable(t)
  <2>1. PICK P \in SUBSET {"p1", "p2", "p4"} :
          t = [p \in P |-> IF p = "p1" THEN [lo |-> 0, hi |-> PlanTable(c)["p2"].lo - 1] ELSE PlanTable(c)[p]]
    BY <1>3 DEF MisfitTables
  <2>2. PlanTable(c)["p2"] \in Extent
    BY PlanIsTable DEF Parts
  <2>3. [lo |-> 0, hi |-> PlanTable(c)["p2"].lo - 1] \in Extent
    BY <2>2 DEF Extent
  <2>. QED  BY <2>1, <2>3, PlanIsTable DEF IsTable, Parts
<1>4. ASSUME NEW t \in Interrupted(c) PROVE IsTable(t)
  <2>1. CASE PlanFits(c)
    <3>1. CASE \E P \in SUBSET Parts : t = [p \in P |-> PlanTable(c)[p]]
      BY <3>1, PlanIsTable DEF IsTable
    <3>2. ASSUME NEW old \in Stale(c), NEW new \in SUBSET {"p5", "p6", "p7"}, t = Mixed(c, old, new)
          PROVE  IsTable(t)
      <4>1. IsTable(old)
        BY <3>2, FlashAssumption DEF Stale
      <4>2. \A p \in Parts \ Primary : old[p] \in Extent
        BY <4>1 DEF IsTable, Stale, Parts, Primary
      <4>3. \A p \in Parts : PlanTable(c)[p] \in Extent
        BY PlanIsTable
      <4>. QED  BY <3>2, <4>2, <4>3 DEF Mixed, IsTable
    <3>3. \/ \E P \in SUBSET Parts : t = [p \in P |-> PlanTable(c)[p]]
          \/ \E old \in Stale(c) : \E new \in SUBSET {"p5", "p6", "p7"} : t = Mixed(c, old, new)
      BY <1>4, <2>1 DEF Interrupted, Parts, Primary
    <3>. QED  BY <3>1, <3>2, <3>3
  <2>2. CASE ~PlanFits(c)
    BY <1>3, <1>4, <2>2 DEF Interrupted
  <2>. QED  BY <2>1, <2>2
<1>. QED  BY <1>1, <1>2, <1>3, <1>4

(* The state of the eMMC.                                                  *)
DiskOK ==
    /\ content \in [Regions -> Contents]
    /\ IsTable(table) /\ IsTable(kernel)
    /\ dirty \subseteq Regions \cup {"table"}

LEMMA WriteTyped ==
    ASSUME DiskOK, NEW r \in Regions, NEW e, NEW c \in Contents, Write(r, e, c)
    PROVE  DiskOK'
<1>1. content' \in [Regions -> Contents]
  BY DEF Write, DiskOK, Contents
<1>2. dirty' \subseteq Regions \cup {"table"}
  BY DEF Write, DiskOK
<1>. QED  BY <1>1, <1>2 DEF Write, DiskOK

LEMMA MakeFsTyped ==
    ASSUME DiskOK, NEW p \in Parts, NEW next, MakeFs(p, next)
    PROVE  DiskOK'
<1>1. p \in Regions /\ "empty" \in Contents /\ "junk" \in Contents
  BY DEF Regions, Contents
<1>2. CASE Write(p, kernel[p], "empty") \/ Write(p, kernel[p], "junk")
  BY <1>1, <1>2, WriteTyped
<1>3. CASE UNCHANGED <<content, dirty, table, kernel>>
  BY <1>3 DEF DiskOK
<1>. QED  BY <1>2, <1>3 DEF MakeFs

(* What every step does to the eMMC keeps it well-typed.                   *)
LEMMA DiskNext ==
    ASSUME TypeOK, [Next]_vars PROVE DiskOK'
<1>. USE DEF TypeOK
<1>1. DiskOK /\ card \in Cards
  BY DEF DiskOK
<1>2. {"image", "zero", "junk", "empty", "other"} \subseteq Contents
  BY DEF Contents
<1>3. CASE UNCHANGED disk
  BY <1>1, <1>3 DEF DiskOK, disk
<1>4. CASE UncheckedStep
  BY <1>3, <1>4, UncheckedSteps
<1>5. CASE Partition \/ CheckSpaces \/ Geometry \/ CheckPartition \/ UmountSrc
  BY <1>3, <1>5 DEF Partition, CheckSpaces, Geometry, CheckPartition, UmountSrc
<1>6. CASE ClearMbr
  <2>1. table' \in {table, NoTable} /\ UNCHANGED <<content, kernel>> /\ dirty' = dirty \cup {"table"}
    BY <1>6 DEF ClearMbr
  <2>. QED  BY <1>1, <2>1, TablesTyped DEF DiskOK
<1>7. CASE RunFdisk
  <2>1. ASSUME NEW t, IsTable(t), NewTable(t) PROVE DiskOK'
    <3>1. content' \in [Regions -> Contents]
      BY <1>1, <1>2, <2>1 DEF NewTable, DiskOK
    <3>. QED  BY <2>1, <3>1 DEF NewTable, DiskOK
  <2>2. CASE UNCHANGED <<table, kernel, content, dirty>>
    BY <1>1, <2>2 DEF DiskOK
  <2>3. CASE /\ table' \in {table} \cup Interrupted(card) /\ dirty' = dirty \cup {"table"}
             /\ UNCHANGED <<kernel, content>>
    BY <1>1, <2>3, TablesTyped DEF DiskOK
  <2>4. CASE NewTable(PlanTable(card))
    BY <1>1, <2>1, <2>4, TablesTyped
  <2>5. CASE \E t \in MisfitTables(card) : NewTable(t)
    BY <1>1, <2>1, <2>5, TablesTyped
  <2>. QED  BY <1>7, <2>2, <2>3, <2>4, <2>5 DEF RunFdisk
<1>8. CASE Mkfs
  <2>1. MkfsSeq[step] \in Parts
    BY <1>8 DEF Mkfs, MkfsSeq, Parts, Running, Phases, Steps
  <2>2. MakeFs(MkfsSeq[step], Loop(4, "clear_env"))
    BY <1>8 DEF Mkfs
  <2>. QED  BY <1>1, <2>1, <2>2, MakeFsTyped
<1>9. CASE ClearEnv
  <2>1. "env" \in Regions
    BY DEF Regions
  <2>2. CASE Write("env", EnvExtent, "zero") \/ Write("env", EnvExtent, "junk")
    BY <1>1, <1>2, <2>1, <2>2, WriteTyped
  <2>3. CASE UNCHANGED <<content, dirty, table, kernel>>
    BY <1>1, <2>3 DEF DiskOK
  <2>. QED  BY <1>9, <2>2, <2>3 DEF ClearEnv
<1>10. CASE FlashImage
  <2>1. CASE UNCHANGED <<content, dirty, table, kernel>>
    BY <1>1, <2>1 DEF DiskOK
  <2>3. CASE FlashSystem
    <3>. DEFINE image == [lo |-> kernel["p2"].lo,
                          hi |-> kernel["p2"].lo + Sectors(card.size["system.img"]) - 1]
    <3>1. "p2" \in Regions
      BY DEF Regions, Parts
    <3>2. CASE Write("p2", image, "image") \/ Write("p2", image, "junk") \/ Write("p2", kernel["p2"], "junk")
      BY <1>1, <1>2, <3>1, <3>2, WriteTyped
    <3>. QED  BY <2>1, <2>3, <3>2 DEF FlashSystem
  <2>4. ASSUME NEW i \in BootImages, FlashBoot(i) PROVE DiskOK'
    <3>1. i \in Regions
      BY <2>4 DEF Regions
    <3>2. Write(i, BootExtent(i, card.size[i]), "image") \/ Write(i, BootExtent(i, card.size[i]), "junk")
      BY <2>4 DEF FlashBoot
    <3>. QED  BY <1>1, <1>2, <3>1, <3>2, WriteTyped
  <2>. QED  BY <1>3, <1>10, <2>3, <2>4 DEF FlashImage
<1>11. CASE CopyUserdata
  <2>1. "p5" \in Regions /\ "p5" \in Parts
    BY DEF Regions, Parts
  <2>2. CASE MakeFs("p5", Loop(6, "clear_cache"))
    BY <1>1, <2>1, <2>2, MakeFsTyped
  <2>3. CASE /\ content' \in {content, [content EXCEPT !["p5"] = "image"], [content EXCEPT !["p5"] = "junk"]}
             /\ dirty' \in {dirty, dirty \ {"p5"}, dirty \cup {"p5"}}
             /\ UNCHANGED <<table, kernel>>
    BY <1>1, <1>2, <2>1, <2>3 DEF DiskOK
  <2>. QED  BY <1>11, <2>2, <2>3 DEF CopyUserdata
<1>12. CASE ClearCache
  <2>1. "p6" \in Parts
    BY DEF Parts
  <2>2. MakeFs("p6", Goto("sync"))
    BY <1>12 DEF ClearCache
  <2>. QED  BY <1>1, <2>1, <2>2, MakeFsTyped
<1>13. CASE Sync
  BY <1>1, <1>13 DEF Sync, DiskOK
<1>14. ASSUME NEW c \in Cards, PowerUp(c) PROVE DiskOK'
  <2>1. PICK lost \in SUBSET (dirty \ {"table"}),
             t \in {table, kernel, NoTable} \cup Interrupted(card) :
          /\ table' = t /\ kernel' = t
          /\ content' = [r \in Regions |->
                           IF r \in lost \/ Moved(r, t) THEN "junk"
                           ELSE Relabel(content[r], c)]
    BY <1>14 DEF PowerUp
  <2>2. \A r \in Regions : Relabel(content[r], c) \in Contents
    BY <1>1, <1>2 DEF Relabel, DiskOK
  <2>3. content' \in [Regions -> Contents]
    BY <1>2, <2>1, <2>2
  <2>4. IsTable(t)
    BY <1>1, TablesTyped DEF DiskOK
  <2>5. dirty' = {}
    BY <1>14 DEF PowerUp
  <2>. QED  BY <2>1, <2>3, <2>4, <2>5 DEF DiskOK
<1>15. CASE PowerLoss \/ Reboot
  BY <1>14, <1>15 DEF PowerLoss, Reboot
<1>16. CASE Rerun
  <2>1. PICK c \in Cards : content' = [r \in Regions |-> Relabel(content[r], c)]
    BY <1>1, <1>16 DEF Rerun
  <2>2. content' \in [Regions -> Contents]
    BY <1>1, <1>2, <2>1 DEF Relabel, DiskOK
  <2>. QED  BY <1>1, <1>16, <2>2 DEF Rerun, DiskOK
<1>17. CASE UNCHANGED vars
  BY <1>3, <1>17 DEF vars, disk
<1>. QED
  BY <1>4, <1>5, <1>6, <1>7, <1>8, <1>9, <1>10, <1>11, <1>12, <1>13, <1>15, <1>16, <1>17
     DEF Next, Script, UncheckedStep

(* Control: every phase hands over to the next one, within its list.       *)
CtlOK ==
    /\ card \in Cards
    /\ pc \in Phases \cup {"success", "failed"}
    /\ step \in 1 .. (IF Running THEN Steps[pc] ELSE 1)
    /\ mounts \subseteq {"src", "img", "img2"}
    /\ len \in [BootImages -> Nat]
    /\ faults \in 0..MaxFaults

(* The first step of any phase, and the end of a run, are within bounds.   *)
LEMMA GotoTyped ==
    ASSUME pc' \in Phases \cup {"success", "failed"}, step' = 1
    PROVE  step' \in 1 .. (IF Running THEN Steps[pc] ELSE 1)'
<1>1. Polls \in Nat \ {0}
  BY FlashAssumption
<1>2. \A q \in Phases : Steps[q] \in Nat \ {0}
  BY <1>1 DEF Steps
<1>. QED  BY <1>2 DEF Running

(* A loop that goes on stays within its list.                              *)
LEMMA LoopTyped ==
    ASSUME CtlOK, pc \in Phases, step < Steps[pc], step' = step + 1, pc' = pc
    PROVE  step' \in 1 .. (IF Running THEN Steps[pc] ELSE 1)'
<1>1. Steps[pc] \in Nat
  BY FlashAssumption DEF Steps
<1>. QED  BY <1>1 DEF CtlOK, Running

LEMMA FaultTyped ==
    ASSUME CtlOK, Fault \/ NoFault PROVE faults' \in 0..MaxFaults
<1>1. faults \in 0..MaxFaults /\ MaxFaults \in Nat
  BY FlashAssumption DEF CtlOK
<1>. QED  BY <1>1 DEF Fault, NoFault

LEMMA PcNext ==
    ASSUME CtlOK, [Next]_vars
    PROVE  pc' \in Phases \cup {"success", "failed"} /\ step' \in 1 .. (IF Running THEN Steps[pc] ELSE 1)'
<1>1. CASE WaitDevice("wait_sd", "wait_emmc") \/ WaitDevice("wait_emmc", "enter_shell")
  <2>1. pc \in Phases /\ Steps[pc] = Polls
    BY <1>1 DEF WaitDevice, Phases, Steps
  <2>2. \/ step < Polls /\ step' = step + 1 /\ pc' = pc
        \/ step' = 1 /\ pc' \in {"wait_emmc", "enter_shell", "failed"}
    BY <1>1 DEF WaitDevice, Goto
  <2>3. pc' \in Phases \cup {"success", "failed"}
    BY <2>1, <2>2 DEF Phases
  <2>. QED  BY <2>1, <2>2, <2>3, GotoTyped, LoopTyped
<1>2. CASE EnterShell \/ MountSrc \/ ImagesDir \/ ReadMd5 \/ Partition \/ CheckSpaces \/ ClearMbr
           \/ Geometry \/ RunFdisk \/ CheckPartition \/ ClearEnv \/ ClearCache \/ Sync \/ UmountSrc
  <2>1. step' = 1
    BY <1>2 DEF EnterShell, MountSrc, ImagesDir, ReadMd5, Partition, CheckSpaces, ClearMbr, Geometry,
                RunFdisk, CheckPartition, ClearEnv, ClearCache, MakeFs, Sync, UmountSrc, Goto, Quit
  <2>2. pc' \in Phases \cup {"success", "failed"}
    BY <1>2 DEF EnterShell, MountSrc, ImagesDir, ReadMd5, Partition, CheckSpaces, ClearMbr, Geometry,
                RunFdisk, CheckPartition, ClearEnv, ClearCache, MakeFs, Sync, UmountSrc, Goto, Quit, Phases
  <2>. QED  BY <2>1, <2>2, GotoTyped
<1>3. CASE CheckMd5 \/ Mkfs \/ FlashImage \/ CopyUserdata
  <2>1. pc \in Phases /\ Steps[pc] = CASE pc = "mkfs" -> 4 [] pc = "copy" -> 6 [] OTHER -> 7
    BY <1>3 DEF CheckMd5, Mkfs, FlashImage, CopyUserdata, Phases, Steps
  <2>2. \/ step < Steps[pc] /\ step' = step + 1 /\ pc' = pc
        \/ step' = 1 /\ pc' \in {"partition", "clear_env", "clear_cache", "copy", "failed"}
    <3>1. CASE CheckMd5      BY <2>1, <3>1 DEF CheckMd5, Loop, Goto, Quit
    <3>2. CASE Mkfs          BY <2>1, <3>2 DEF Mkfs, MakeFs, Loop, Goto, Quit
    <3>3. CASE FlashImage    BY <2>1, <3>3 DEF FlashImage, FlashBoot, FlashSystem, Loop, Goto, Quit
    <3>4. CASE CopyUserdata  BY <2>1, <3>4 DEF CopyUserdata, MakeFs, Loop, Goto, Quit
    <3>. QED  BY <1>3, <3>1, <3>2, <3>3, <3>4
  <2>3. pc' \in Phases \cup {"success", "failed"}
    BY <2>1, <2>2 DEF Phases
  <2>. QED  BY <2>1, <2>2, <2>3, GotoTyped, LoopTyped
<1>4. CASE PowerLoss \/ Reboot \/ Rerun
  <2>1. pc' = "wait_sd" /\ step' = 1
    BY <1>4 DEF PowerLoss, Reboot, Rerun, PowerUp, Goto
  <2>2. pc' \in Phases
    BY <2>1 DEF Phases
  <2>. QED  BY <2>1, <2>2, GotoTyped
<1>5. CASE UNCHANGED vars
  BY <1>5 DEF vars, CtlOK, Running
<1>. QED  BY <1>1, <1>2, <1>3, <1>4, <1>5 DEF Next, Script

LEMMA CtlNext == CtlOK /\ [Next]_vars => CtlOK'
<1>. SUFFICES ASSUME CtlOK, [Next]_vars PROVE CtlOK'
  OBVIOUS
<1>1. card' \in Cards
  <2>1. CASE CheckedStep
    BY <2>1, CheckedSteps DEF CtlOK
  <2>2. CASE UncheckedStep
    BY <2>2, UncheckedSteps DEF CtlOK
  <2>3. CASE PowerLoss \/ Reboot \/ Rerun \/ UNCHANGED vars
    BY <2>3 DEF PowerLoss, Reboot, Rerun, PowerUp, vars, CtlOK
  <2>. QED  BY <2>1, <2>2, <2>3 DEF Next, Script, CheckedStep, UncheckedStep
<1>2. mounts' \subseteq {"src", "img", "img2"}
  <2>1. CASE Quit
    BY <2>1 DEF Quit, WithoutSrc, CtlOK
  <2>2. CASE mounts' \in {mounts, {}, WithoutSrc, WithoutSrc \cup {"src"}, mounts \ {"src"}}
    BY <2>2 DEF WithoutSrc, CtlOK
  <2>3. CASE CopyUserdata
    BY <2>1, <2>2, <2>3 DEF CopyUserdata, MakeFs, CtlOK
  <2>4. CASE PlainStep
    BY <2>1, <2>2, <2>4, PlainSteps DEF Stay, CtlOK
  <2>5. CASE FlashImage
    BY <2>1, <2>2, <2>5 DEF FlashImage, FlashBoot, FlashSystem
  <2>6. CASE PowerLoss \/ Reboot \/ Rerun \/ UNCHANGED vars \/ MountSrc \/ UmountSrc \/ EnterShell
               \/ WaitDevice("wait_sd", "wait_emmc") \/ WaitDevice("wait_emmc", "enter_shell")
    BY <2>2, <2>6 DEF PowerLoss, Reboot, Rerun, PowerUp, vars, MountSrc, UmountSrc, EnterShell, WaitDevice
  <2>. QED  BY <2>3, <2>4, <2>5, <2>6 DEF Next, Script, PlainStep
<1>3. len' \in [BootImages -> Nat]
  <2>1. CASE len' = len
    BY <2>1 DEF CtlOK
  <2>2. ASSUME NEW i \in BootImages, FlashBoot(i) PROVE len' \in [BootImages -> Nat]
    <3>1. card.size \in [Images -> Nat] /\ i \in Images
      BY <2>2, FlashAssumption DEF CtlOK, CardType, Images
    <3>2. card.size[i] \in Nat
      BY <3>1
    <3>. QED  BY <2>2, <3>2 DEF FlashBoot, CtlOK
  <2>3. CASE FlashImage
    BY <2>1, <2>2, <2>3 DEF FlashImage, FlashSystem, disk
  <2>4. CASE UncheckedStep
    BY <2>1, <2>4, UncheckedSteps DEF disk
  <2>5. CASE CheckedStep /\ ~FlashImage
    BY <2>1, <2>5 DEF CheckedStep, Partition, CheckSpaces, ClearMbr, Geometry, RunFdisk, Mkfs,
                      CheckPartition, ClearEnv, CopyUserdata, ClearCache, Sync, UmountSrc, disk
  <2>6. CASE PowerLoss \/ Reboot \/ Rerun \/ UNCHANGED vars
    BY <2>1, <2>6 DEF PowerLoss, Reboot, Rerun, PowerUp, vars
  <2>. QED  BY <2>3, <2>4, <2>5, <2>6 DEF Next, Script, CheckedStep, UncheckedStep
<1>4. faults' \in 0..MaxFaults
  <2>1. CASE WaitDevice("wait_sd", "wait_emmc") \/ WaitDevice("wait_emmc", "enter_shell")
    BY <2>1, FaultTyped DEF WaitDevice
  <2>2. CASE EnterShell \/ MountSrc \/ ImagesDir \/ ReadMd5 \/ CheckMd5
    BY <2>2, FaultTyped DEF EnterShell, MountSrc, ImagesDir, ReadMd5, CheckMd5
  <2>3. CASE Partition \/ CheckSpaces \/ ClearMbr \/ Geometry \/ RunFdisk
    BY <2>3, FaultTyped DEF Partition, CheckSpaces, ClearMbr, Geometry, RunFdisk
  <2>4. CASE Mkfs \/ CheckPartition \/ ClearEnv \/ ClearCache \/ Sync \/ UmountSrc
    BY <2>4, FaultTyped DEF Mkfs, MakeFs, CheckPartition, ClearEnv, ClearCache, Sync, UmountSrc
  <2>5. CASE FlashImage \/ CopyUserdata
    BY <2>5, FaultTyped DEF FlashImage, FlashBoot, FlashSystem, CopyUserdata, MakeFs
  <2>6. CASE PowerLoss \/ Reboot \/ Rerun
    BY <2>6, FaultTyped DEF PowerLoss, Reboot, Rerun, NoFault
  <2>7. CASE UNCHANGED vars
    BY <2>7 DEF vars, CtlOK
  <2>. QED  BY <2>1, <2>2, <2>3, <2>4, <2>5, <2>6, <2>7 DEF Next, Script
<1>. QED  BY <1>1, <1>2, <1>3, <1>4, PcNext DEF CtlOK

(* Every variable of the flashing script keeps its type, and every loop    *)
(* stays inside its list (flash.sh 213-216, 323, 367, 517-523, 549-555).   *)
THEOREM TypeCorrect == Spec => []TypeOK
<1>1. TypeOK <=> CtlOK /\ DiskOK
  BY DEF TypeOK, CtlOK, DiskOK
<1>2. Init => TypeOK
  <2>. SUFFICES ASSUME Init PROVE TypeOK
    OBVIOUS
  <2>2. Polls \in Nat \ {0} /\ MaxFaults \in Nat /\ OldLen \in [BootImages -> Nat]
    BY FlashAssumption
  <2>3. pc \in Phases /\ Steps[pc] = Polls
    BY DEF Init, Phases, Steps
  <2>4. CtlOK
    <3>1. step \in 1 .. (IF Running THEN Steps[pc] ELSE 1)
      BY <2>2, <2>3 DEF Init, Running
    <3>2. mounts \subseteq {"src", "img", "img2"}
      BY DEF Init
    <3>3. card \in Cards /\ len \in [BootImages -> Nat] /\ faults \in 0..MaxFaults
      BY <2>2 DEF Init
    <3>. QED  BY <2>3, <3>1, <3>2, <3>3 DEF CtlOK
  <2>5. DiskOK
    BY FlashAssumption DEF Init, DiskOK, Contents
  <2>. QED  BY <1>1, <2>4, <2>5
<1>3. TypeOK /\ [Next]_vars => TypeOK'
  <2>. SUFFICES ASSUME TypeOK, [Next]_vars PROVE TypeOK'
    OBVIOUS
  <2>1. CtlOK' /\ DiskOK'
    BY <1>1, CtlNext, DiskNext
  <2>. QED  BY <2>1 DEF TypeOK, CtlOK, DiskOK
<1>. QED  BY <1>2, <1>3, PTL DEF Spec

-----------------------------------------------------------------------------
(* Repartitioning.  The table is the planned one from the fdisk run on;    *)
(* the other way to the flashing phases, over check_partition, is only     *)
(* taken without the repartition flag.                                     *)
AfterFdisk == {"mkfs", "clear_env", "flash", "copy", "clear_cache", "sync", "umount", "success"}

RepartInv ==
    /\ RepartitionInForce
    /\ pc = "check_partition" => ~card.repartition

(* Steps of the flashing phases leave both tables alone.                   *)
LateStep ==
    \/ Mkfs \/ ClearEnv \/ FlashImage \/ CopyUserdata \/ ClearCache \/ Sync \/ UmountSrc

LEMMA LateSteps ==
    ASSUME LateStep
    PROVE  /\ pc \in AfterFdisk /\ UNCHANGED <<card, table, kernel>>
           /\ pc' # "check_partition"
<1>. USE DEF AfterFdisk, Keep, Write, disk, Goto, Loop, Quit
<1>1. CASE Mkfs          BY <1>1 DEF Mkfs, MakeFs
<1>2. CASE ClearEnv      BY <1>2 DEF ClearEnv
<1>3. CASE FlashImage    BY <1>3 DEF FlashImage, FlashBoot, FlashSystem
<1>4. CASE CopyUserdata  BY <1>4 DEF CopyUserdata, MakeFs
<1>5. CASE ClearCache    BY <1>5 DEF ClearCache, MakeFs
<1>6. CASE Sync          BY <1>6 DEF Sync
<1>7. CASE UmountSrc     BY <1>7 DEF UmountSrc
<1>. QED  BY <1>1, <1>2, <1>3, <1>4, <1>5, <1>6, <1>7 DEF LateStep

LEMMA RepartNext == RepartInv /\ [Next]_vars => RepartInv'
<1>. SUFFICES ASSUME RepartInv, [Next]_vars PROVE RepartInv'
  OBVIOUS
<1>1. CASE LateStep
  <2>1. table' = table /\ kernel' = kernel /\ card' = card /\ pc \in AfterFdisk /\ pc' # "check_partition"
    BY <1>1, LateSteps
  <2>2. PlanFits(card)' = PlanFits(card) /\ PlanTable(card)' = PlanTable(card)
    BY <2>1 DEF PlanFits, PlanTable
  <2>. QED  BY <2>1, <2>2 DEF RepartInv, RepartitionInForce, AfterFdisk
<1>2. CASE RunFdisk
  <2>1. card' = card
    BY <1>2 DEF RunFdisk, Keep
  <2>2. PlanFits(card)' = PlanFits(card) /\ PlanTable(card)' = PlanTable(card)
    BY <2>1 DEF PlanFits, PlanTable
  <2>3. pc' \in {"mkfs", "failed"}
    BY <1>2 DEF RunFdisk, Goto, Quit
  <2>4. pc' = "mkfs" /\ PlanFits(card) => table' = PlanTable(card) /\ kernel' = PlanTable(card)
    BY <1>2 DEF RunFdisk, NewTable, Goto, Quit
  <2>. QED  BY <2>1, <2>2, <2>3, <2>4 DEF RepartInv, RepartitionInForce
<1>3. CASE Partition
  <2>1. card' = card /\ pc' = IF card.repartition THEN "space" ELSE "check_partition"
    BY <1>3 DEF Partition, Goto, Keep
  <2>. QED  BY <2>1 DEF RepartInv, RepartitionInForce
<1>4. CASE CheckPartition
  <2>1. card' = card /\ ~card.repartition /\ pc' \in {"clear_env", "failed"}
    BY <1>4 DEF CheckPartition, Goto, Quit, Keep, RepartInv
  <2>. QED  BY <2>1 DEF RepartInv, RepartitionInForce
<1>5. CASE UncheckedStep \/ CheckSpaces \/ ClearMbr \/ Geometry \/ PowerLoss \/ Reboot \/ Rerun
  <2>1. pc' \in {"wait_sd", "wait_emmc", "enter_shell", "mount", "imgdir", "read_md5", "check_md5",
                "partition", "clear_mbr", "geometry", "fdisk", "failed"}
    <3>1. CASE UncheckedStep
      BY <3>1 DEF UncheckedStep, WaitDevice, EnterShell, MountSrc, ImagesDir, ReadMd5, CheckMd5,
                  Goto, Loop, Quit
    <3>2. CASE CheckSpaces \/ ClearMbr \/ Geometry
      BY <3>2 DEF CheckSpaces, ClearMbr, Geometry, Goto, Quit
    <3>3. CASE PowerLoss \/ Reboot \/ Rerun
      BY <3>3 DEF PowerLoss, Reboot, Rerun, PowerUp, Goto
    <3>. QED  BY <1>5, <3>1, <3>2, <3>3
  <2>. QED  BY <2>1 DEF RepartInv, RepartitionInForce
<1>6. CASE UNCHANGED vars
  <2>1. card' = card /\ pc' = pc /\ table' = table /\ kernel' = kernel
    BY <1>6 DEF vars
  <2>2. PlanFits(card)' = PlanFits(card) /\ PlanTable(card)' = PlanTable(card)
    BY <2>1 DEF PlanFits, PlanTable
  <2>. QED  BY <2>1, <2>2 DEF RepartInv, RepartitionInForce
<1>. QED
  BY <1>1, <1>2, <1>3, <1>4, <1>5, <1>6 DEF Next, Script, LateStep, UncheckedStep

(* A repartitioning run on a device that is large enough makes its file    *)
(* systems and writes its images on the planned table, the kernel's        *)
(* included (flash.sh 191-216).                                            *)
THEOREM RepartitionHolds == Spec => []RepartitionInForce
<1>1. Init => RepartInv
  BY DEF Init, RepartInv, RepartitionInForce
<1>2. RepartInv => RepartitionInForce
  BY DEF RepartInv
<1>. QED  BY <1>1, <1>2, RepartNext, PTL DEF Spec

-----------------------------------------------------------------------------
(***************************************************************************)
(* What flash.sh leaves on the eMMC: success means that everything is in   *)
(* its place, and an update reaches nothing else, for every card and every *)
(* geometry.                                                               *)
(***************************************************************************)

(* Where things lie.                                                       *)

LEMMA BootFacts ==
    /\ Offset["u-boot-no-padding.bin"] = 1 /\ MaxKiB["u-boot-no-padding.bin"] = 1023
    /\ Offset["uImage"] = 1024 /\ MaxKiB["uImage"] = 3072
    /\ Offset["uramdisk.img"] = 4096 /\ MaxKiB["uramdisk.img"] = 1024
    /\ Offset["uImage-recovery"] = 5120 /\ MaxKiB["uImage-recovery"] = 3072
    /\ Offset["uramdisk-recovery.img"] = 8192 /\ MaxKiB["uramdisk-recovery.img"] = 8192
BY DEF Offset, MaxKiB, BootImages

LEMMA SectorsBound ==
    ASSUME NEW b \in Nat
    PROVE  Sectors(b) \in Nat /\ KiB(b) \in Nat /\ Sectors(b) <= 2 * KiB(b)
BY DEF Sectors, KiB

(* An image within the limit of its slot ends before the next slot and, if *)
(* it is not u-boot, begins behind the environment.                        *)
LEMMA SlotBounds ==
    ASSUME NEW i \in BootImages, NEW b \in Nat, KiB(b) <= MaxKiB[i]
    PROVE  /\ BootExtent(i, b).lo \in Int /\ BootExtent(i, b).hi \in Int
           /\ BootExtent(i, b).lo = 2 * Offset[i]
           /\ BootExtent(i, b).hi < 2 * (Offset[i] + MaxKiB[i])
<1>1. Sectors(b) \in Nat /\ KiB(b) \in Nat /\ Sectors(b) <= 2 * KiB(b)
  BY SectorsBound
<1>2. Offset[i] \in Nat /\ MaxKiB[i] \in Nat
  BY BootFacts DEF BootImages
<1>. QED  BY <1>1, <1>2 DEF BootExtent

LEMMA SlotsApart ==
    ASSUME NEW i \in BootImages, NEW j \in BootImages, i # j, NEW a \in Nat, NEW b \in Nat,
           KiB(a) <= MaxKiB[i], KiB(b) <= MaxKiB[j]
    PROVE  ~Overlap(BootExtent(i, a), BootExtent(j, b))
<1>1. /\ BootExtent(i, a).lo \in Int /\ BootExtent(i, a).hi \in Int
      /\ BootExtent(i, a).lo = 2 * Offset[i] /\ BootExtent(i, a).hi < 2 * (Offset[i] + MaxKiB[i])
  BY SlotBounds
<1>2. /\ BootExtent(j, b).lo \in Int /\ BootExtent(j, b).hi \in Int
      /\ BootExtent(j, b).lo = 2 * Offset[j] /\ BootExtent(j, b).hi < 2 * (Offset[j] + MaxKiB[j])
  BY SlotBounds
<1>3. Offset[i] + MaxKiB[i] <= Offset[j] \/ Offset[j] + MaxKiB[j] <= Offset[i]
  BY BootFacts DEF BootImages
<1>4. Offset[i] \in Nat /\ MaxKiB[i] \in Nat /\ Offset[j] \in Nat /\ MaxKiB[j] \in Nat
  BY BootFacts DEF BootImages
<1>. QED  BY <1>1, <1>2, <1>3, <1>4 DEF Overlap

LEMMA EnvApart ==
    ASSUME NEW i \in BootImages, NEW b \in Nat, KiB(b) <= MaxKiB[i],
           i = "u-boot-no-padding.bin" => KiB(b) <= 767
    PROVE  ~Overlap(EnvExtent, BootExtent(i, b)) /\ ~Overlap(BootExtent(i, b), EnvExtent)
<1>1. Sectors(b) \in Nat /\ KiB(b) \in Nat /\ Sectors(b) <= 2 * KiB(b)
  BY SectorsBound
<1>2. BootExtent(i, b).lo = 2 * Offset[i] /\ BootExtent(i, b).hi = 2 * Offset[i] + Sectors(b) - 1
  BY DEF BootExtent
<1>3. EnvExtent.lo = 1536 /\ EnvExtent.hi = 2047
  BY DEF EnvExtent
<1>4. CASE i = "u-boot-no-padding.bin"
  BY <1>1, <1>2, <1>3, <1>4, BootFacts DEF Overlap
<1>5. CASE i # "u-boot-no-padding.bin"
  <2>1. Offset[i] \in Nat /\ Offset[i] >= 1024
    BY <1>5, BootFacts DEF BootImages
  <2>. QED  BY <1>1, <1>2, <1>3, <2>1 DEF Overlap
<1>. QED  BY <1>4, <1>5

LEMMA Monotone ==
    ASSUME NEW a \in Int, NEW b \in Int, NEW u \in Nat, a <= b
    PROVE  a * u \in Int /\ b * u \in Int /\ a * u <= b * u
OBVIOUS

(* A plan that fits has no overlapping partitions.                         *)
LEMMA PlanDisjoint ==
    ASSUME NEW c \in Cards, PlanFits(c)
    PROVE  Disjoint(PlanTable(c))
<1>. DEFINE z == SizesOf(c.space, Unit)
<1>1. \A s \in Spaces : z[s] \in Int
  BY SizesAreInts
<1>2. Unit \in Nat /\ Cyls \in Nat
  BY FlashAssumption
<1>3. Fits(z, Cyls)
  BY DEF PlanFits
<1>4. DOMAIN PlanTable(c) = Parts
  BY PlanIsTable
<1>. DEFINE plan == CylinderPlan(z, Cyls)
<1>5. PlanTable(c) = [p \in Parts |-> SectorRange(plan[p])]
  BY DEF PlanTable
<1>. HIDE DEF z
<1>6. /\ z["boot"] \in Int /\ z["system"] \in Int /\ z["data"] \in Int
      /\ z["cache"] \in Int /\ z["recovery"] \in Int /\ z["wowconfig"] \in Int
  BY <1>1 DEF Spaces
<1>7. /\ z["system"] >= 0 /\ z["data"] >= 1 /\ z["cache"] >= 1 /\ z["recovery"] >= 1 /\ z["wowconfig"] >= 1
      /\ RecoveryEnd(z) < Cyls
  BY <1>3 DEF Fits
<1>8. \A p \in Parts : plan[p].first \in Int /\ plan[p].last \in Int
  BY <1>2, <1>6 DEF Parts, CylinderPlan, RecoveryEnd, DataEnd, CacheEnd, WowconfigEnd, ExtEnd, SystemEnd, BootEnd
<1>9. \A p, q \in Parts : p # q => plan[p].last < plan[q].first \/ plan[q].last < plan[p].first
  BY <1>2, <1>6, <1>7
     DEF Parts, CylinderPlan, RecoveryEnd, DataEnd, CacheEnd, WowconfigEnd, ExtEnd, SystemEnd, BootEnd
<1>. HIDE DEF plan
<1>10. ASSUME NEW p \in Parts, NEW q \in Parts, plan[p].last < plan[q].first
       PROVE  SectorRange(plan[p]).hi < SectorRange(plan[q]).lo /\ SectorRange(plan[p]).hi \in Int
                /\ SectorRange(plan[q]).lo \in Int
  <2>. DEFINE a == plan[p].last
              b == plan[q].first - 1
  <2>1. a \in Int /\ b \in Int /\ a <= b
    BY <1>8, <1>10
  <2>2. SectorRange(plan[p]).hi = a * Unit - 1 /\ SectorRange(plan[q]).lo = b * Unit
    BY DEF SectorRange
  <2>. HIDE DEF a, b
  <2>3. a * Unit \in Int /\ b * Unit \in Int /\ a * Unit <= b * Unit
    BY <1>2, <2>1, Monotone
  <2>. QED  BY <2>2, <2>3
<1>11. \A p \in Parts : SectorRange(plan[p]) \in Extent
  BY <1>5, PlanIsTable
<1>12. ASSUME NEW p \in Parts, NEW q \in Parts, p # q
       PROVE  ~Overlap(SectorRange(plan[p]), SectorRange(plan[q]))
  <2>1. /\ SectorRange(plan[p]).lo \in Int /\ SectorRange(plan[p]).hi \in Int
        /\ SectorRange(plan[q]).lo \in Int /\ SectorRange(plan[q]).hi \in Int
    BY <1>11 DEF Extent
  <2>2. SectorRange(plan[p]).hi < SectorRange(plan[q]).lo \/ SectorRange(plan[q]).hi < SectorRange(plan[p]).lo
    BY <1>9, <1>10, <1>12
  <2>. QED  BY <2>1, <2>2 DEF Overlap
<1>. QED  BY <1>4, <1>5, <1>12 DEF Disjoint

-----------------------------------------------------------------------------
(* Updates.  A run without the repartition flag never gets to do_partition *)
(* and writes only after check_partition has found its images small        *)
(* enough.                                                                 *)
Late == {"clear_env", "flash", "copy", "clear_cache", "sync", "umount", "success"}
Partitioning == {"space", "clear_mbr", "geometry", "fdisk", "mkfs"}

UpdateInv ==
    /\ pc \in Partitioning => card.repartition
    /\ pc = "check_partition" => ~card.repartition
    /\ pc \in Late /\ ~card.repartition => WithinLimits(card)
    /\ pc = "copy" => "userdata.img" \in card.images

LEMMA UpdateInit == Init => UpdateInv
BY DEF Init, UpdateInv, Late, Partitioning

LEMMA UpdateNext == UpdateInv /\ [Next]_vars => UpdateInv'
<1>. SUFFICES ASSUME UpdateInv, [Next]_vars PROVE UpdateInv'
  OBVIOUS
<1>. USE DEF UpdateInv, Late, Partitioning
<1>1. CASE UncheckedStep
  <2>1. card' = card /\ pc' \in {"wait_sd", "wait_emmc", "enter_shell", "mount", "imgdir", "read_md5",
                                 "check_md5", "partition", "failed"}
    BY <1>1, UncheckedSteps DEF UncheckedStep, WaitDevice, EnterShell, MountSrc, ImagesDir, ReadMd5, CheckMd5,
                Goto, Loop, Quit
  <2>. QED  BY <2>1
<1>2. CASE Partition
  BY <1>2 DEF Partition, Goto, Keep
<1>3. CASE CheckSpaces \/ ClearMbr \/ Geometry \/ RunFdisk \/ Mkfs
  <2>1. card' = card /\ pc \in Partitioning /\ pc' \in Partitioning \cup {"clear_env", "failed"}
    <3>1. CASE CheckSpaces BY <3>1 DEF CheckSpaces, Goto, Quit, Keep
    <3>2. CASE ClearMbr    BY <3>2 DEF ClearMbr, Goto, Quit, Keep
    <3>3. CASE Geometry    BY <3>3 DEF Geometry, Goto, Quit, Keep
    <3>4. CASE RunFdisk    BY <3>4 DEF RunFdisk, Goto, Quit, Keep
    <3>5. CASE Mkfs        BY <3>5 DEF Mkfs, MakeFs, Goto, Loop, Quit, Keep
    <3>. QED  BY <1>3, <3>1, <3>2, <3>3, <3>4, <3>5
  <2>. QED  BY <2>1
<1>4. CASE CheckPartition
  <2>1. card' = card /\ pc = "check_partition" /\ ((pc' = "clear_env" /\ WithinLimits(card)) \/ pc' = "failed")
    BY <1>4 DEF CheckPartition, PartitionsOk, Goto, Quit, Keep
  <2>2. WithinLimits(card)' = WithinLimits(card)
    BY <2>1 DEF WithinLimits
  <2>. QED  BY <2>1, <2>2
<1>5. CASE ClearEnv \/ FlashImage \/ CopyUserdata \/ ClearCache \/ Sync \/ UmountSrc
  <2>1. card' = card /\ pc \in Late /\ pc' \in Late \cup {"failed"}
    <3>1. CASE ClearEnv      BY <3>1 DEF ClearEnv, Goto, Quit, Keep
    <3>2. CASE FlashImage    BY <3>2 DEF FlashImage, FlashBoot, FlashSystem, Goto, Loop, Quit, Keep
    <3>3. CASE CopyUserdata  BY <3>3 DEF CopyUserdata, MakeFs, Goto, Loop, Quit, Keep
    <3>4. CASE ClearCache    BY <3>4 DEF ClearCache, MakeFs, Goto, Quit, Keep
    <3>5. CASE Sync          BY <3>5 DEF Sync, Goto, Quit, Keep
    <3>6. CASE UmountSrc     BY <3>6 DEF UmountSrc, Goto, Keep
    <3>. QED  BY <1>5, <3>1, <3>2, <3>3, <3>4, <3>5, <3>6
  <2>2. pc' = "copy" => "userdata.img" \in card.images
    BY <1>5 DEF ClearEnv, FlashImage, FlashBoot, FlashSystem, CopyUserdata, MakeFs, ClearCache, Sync, UmountSrc,
                Goto, Loop, Quit
  <2>3. WithinLimits(card)' = WithinLimits(card)
    BY <2>1 DEF WithinLimits
  <2>. QED  BY <2>1, <2>2, <2>3
<1>6. CASE PowerLoss \/ Reboot \/ Rerun
  <2>1. pc' = "wait_sd"
    BY <1>6 DEF PowerLoss, Reboot, Rerun, PowerUp, Goto
  <2>. QED  BY <2>1
<1>7. CASE UNCHANGED vars
  BY <1>7 DEF vars, WithinLimits
<1>. QED  BY <1>1, <1>2, <1>3, <1>4, <1>5, <1>6, <1>7 DEF Next, Script, UncheckedStep

LEMMA TypeOfCard ==
    ASSUME card \in Cards
    PROVE  /\ card.images \subseteq Images
           /\ \A i \in Images : card.size[i] \in Nat
BY FlashAssumption DEF CardType

LEMMA KeptSlot ==
    ASSUME TypeOK, SlotsKept, NEW i \in BootImages
    PROVE  /\ len[i] \in Nat /\ KiB(len[i]) <= MaxKiB[i]
           /\ i = "u-boot-no-padding.bin" => KiB(len[i]) <= 767
<1>1. len[i] \in Nat
  BY DEF TypeOK
<1>2. KiB(len[i]) <= IF i = "u-boot-no-padding.bin" THEN 767 ELSE MaxKiB[i]
  BY DEF SlotsKept
<1>3. KiB(len[i]) \in Nat
  BY <1>1, SectorsBound
<1>. QED  BY <1>1, <1>2, <1>3, BootFacts

LEMMA PartExtents ==
    ASSUME TypeOK, NEW p \in DOMAIN kernel
    PROVE  p \in Parts /\ kernel[p].lo \in Int /\ kernel[p].hi \in Int
BY DEF TypeOK, IsTable, Extent

(* Inside a partition a write reaches no other region.                     *)
LEMMA PartWriteConfined ==
    ASSUME TypeOK, BootAreaFree(kernel), Disjoint(kernel), SlotsKept,
           NEW p \in DOMAIN kernel, NEW e, e.lo = kernel[p].lo, e.hi \in Int, e.hi <= kernel[p].hi,
           NEW r \in Regions, r # p
    PROVE  ~Lies(r, e)
<1>1. kernel[p].lo \in Int /\ kernel[p].hi \in Int /\ kernel[p].lo >= 32768
  BY PartExtents DEF BootAreaFree
<1>2. ASSUME r \in BootImages PROVE ~Overlap(BootExtent(r, len[r]), e)
  <2>1. /\ BootExtent(r, len[r]).hi \in Int
        /\ BootExtent(r, len[r]).hi < 2 * (Offset[r] + MaxKiB[r])
    BY <1>2, KeptSlot, SlotBounds
  <2>2. Offset[r] + MaxKiB[r] \in Nat /\ Offset[r] + MaxKiB[r] <= 16384
    BY <1>2, BootFacts DEF BootImages
  <2>. QED  BY <1>1, <2>1, <2>2 DEF Overlap
<1>3. ~Overlap(EnvExtent, e)
  BY <1>1 DEF Overlap, EnvExtent
<1>4. ASSUME r \in DOMAIN kernel PROVE ~Overlap(kernel[r], e)
  <2>1. ~Overlap(kernel[p], kernel[r]) /\ kernel[r].lo \in Int /\ kernel[r].hi \in Int
    BY <1>4, PartExtents DEF Disjoint
  <2>. QED  BY <1>1, <2>1 DEF Overlap
<1>. QED  BY <1>2, <1>3, <1>4 DEF Lies

(* So does one inside a boot slot, or of the environment.                  *)
LEMMA BootWriteConfined ==
    ASSUME TypeOK, BootAreaFree(kernel), SlotsKept,
           NEW i \in BootImages, NEW b \in Nat, KiB(b) <= MaxKiB[i],
           i = "u-boot-no-padding.bin" => KiB(b) <= 767,
           NEW r \in Regions, r # i
    PROVE  ~Lies(r, BootExtent(i, b))
<1>1. ASSUME r \in BootImages PROVE ~Overlap(BootExtent(r, len[r]), BootExtent(i, b))
  BY <1>1, KeptSlot, SlotsApart
<1>2. ~Overlap(EnvExtent, BootExtent(i, b))
  BY EnvApart
<1>3. ASSUME r \in DOMAIN kernel PROVE ~Overlap(kernel[r], BootExtent(i, b))
  <2>1. kernel[r].lo \in Int /\ kernel[r].lo >= 32768
    BY <1>3, PartExtents DEF BootAreaFree
  <2>2. BootExtent(i, b).hi \in Int /\ BootExtent(i, b).hi < 2 * (Offset[i] + MaxKiB[i])
    BY SlotBounds
  <2>3. Offset[i] + MaxKiB[i] \in Nat /\ Offset[i] + MaxKiB[i] <= 16384
    BY BootFacts DEF BootImages
  <2>. QED  BY <2>1, <2>2, <2>3 DEF Overlap
<1>. QED  BY <1>1, <1>2, <1>3 DEF Lies

LEMMA EnvWriteConfined ==
    ASSUME TypeOK, BootAreaFree(kernel), SlotsKept, NEW r \in Regions, r # "env"
    PROVE  ~Lies(r, EnvExtent)
<1>1. ASSUME r \in BootImages PROVE ~Overlap(BootExtent(r, len[r]), EnvExtent)
  BY <1>1, KeptSlot, EnvApart
<1>2. ASSUME r \in DOMAIN kernel PROVE ~Overlap(kernel[r], EnvExtent)
  <2>1. kernel[r].lo \in Int /\ kernel[r].lo >= 32768
    BY <1>2, PartExtents DEF BootAreaFree
  <2>. QED  BY <2>1 DEF Overlap, EnvExtent
<1>. QED  BY <1>1, <1>2 DEF Lies

(* An update changes nothing but what the card brings, the cache and, when *)
(* asked for, the environment, on success and on failure alike (flash.sh   *)
(* 268-291, 549-563).                                                      *)
THEOREM UpdateConfinedHolds == Spec => UpdateConfined
<1>. DEFINE A == ByScript /\ ~card.repartition /\ BelowEnv(card) /\ BootAreaFree(kernel) /\ Disjoint(kernel) /\ SlotsKept
                 => /\ \A r \in Regions \ Updated(card) : content'[r] = content[r]
                    /\ table' = table
<1>1. TypeOK /\ UpdateInv /\ [Next]_vars => [A]_vars
  <2>. SUFFICES ASSUME TypeOK, UpdateInv, Next, ByScript, ~card.repartition, BelowEnv(card),
                       BootAreaFree(kernel), Disjoint(kernel), SlotsKept
                PROVE  /\ \A r \in Regions \ Updated(card) : content'[r] = content[r]
                       /\ table' = table
    OBVIOUS
  <2>0. card \in Cards /\ card.images \subseteq Images /\ \A i \in Images : card.size[i] \in Nat
    BY TypeOfCard DEF TypeOK
  <2>1. CASE UNCHANGED <<content, table>>
    BY <2>1
  <2>2. ASSUME NEW x \in Updated(card), NEW e, NEW c, Write(x, e, c),
               \A r \in Regions : r # x => ~Lies(r, e)
        PROVE  /\ \A r \in Regions \ Updated(card) : content'[r] = content[r]
               /\ table' = table
    BY <2>2 DEF Write
  <2>3. ASSUME NEW p \in {"p5", "p6"}, p \in Updated(card), NEW next, MakeFs(p, next)
        PROVE  /\ \A r \in Regions \ Updated(card) : content'[r] = content[r]
               /\ table' = table
    <3>1. CASE p \notin DOMAIN kernel
      BY <2>1, <2>3, <3>1 DEF MakeFs
    <3>2. CASE p \in DOMAIN kernel
      <4>1. kernel[p].lo \in Int /\ kernel[p].hi \in Int
        BY <3>2, PartExtents
      <4>2. \A r \in Regions : r # p => ~Lies(r, kernel[p])
        BY <3>2, <4>1, PartWriteConfined
      <4>3. Write(p, kernel[p], "empty") \/ Write(p, kernel[p], "junk")
        BY <2>3, <3>2 DEF MakeFs
      <4>. QED  BY <2>2, <2>3, <4>2, <4>3
    <3>. QED  BY <3>1, <3>2
  <2>4. CASE UncheckedStep
    BY <2>1, <2>4, UncheckedSteps DEF disk
  <2>5. CASE Partition \/ CheckSpaces \/ Geometry \/ CheckPartition \/ Sync \/ UmountSrc
    BY <2>1, <2>5 DEF Partition, CheckSpaces, Geometry, CheckPartition, Sync, UmountSrc, disk
  <2>6. CASE ClearMbr \/ RunFdisk \/ Mkfs
    BY <2>6 DEF ClearMbr, RunFdisk, Mkfs, UpdateInv, Partitioning
  <2>7. CASE ClearEnv
    <3>1. CASE ~card.clearubootenv
      BY <2>1, <2>7, <3>1 DEF ClearEnv
    <3>2. CASE card.clearubootenv
      <4>1. "env" \in Updated(card)
        BY <3>2 DEF Updated
      <4>2. Write("env", EnvExtent, "zero") \/ Write("env", EnvExtent, "junk")
        BY <2>7, <3>2 DEF ClearEnv
      <4>3. \A r \in Regions : r # "env" => ~Lies(r, EnvExtent)
        BY EnvWriteConfined
      <4>. QED  BY <2>2, <4>1, <4>2, <4>3
    <3>. QED  BY <3>1, <3>2
  <2>8. CASE FlashImage
    <3>. DEFINE i == ImageSeq[step]
    <3>1. CASE UNCHANGED disk
      BY <2>1, <3>1 DEF disk
    <3>2. CASE i \in card.images \cap BootImages /\ FlashBoot(i)
      <4>. DEFINE e == BootExtent(i, card.size[i])
      <4>1. i \in BootImages /\ i \in card.images /\ card.size[i] \in Nat /\ i \in Updated(card)
        BY <2>0, <3>2 DEF Updated, RegionOf, BootImages, Images
      <4>2. KiB(card.size[i]) <= MaxKiB[i] /\ (i = "u-boot-no-padding.bin" => KiB(card.size[i]) <= 767)
        BY <2>8, <4>1 DEF UpdateInv, Late, WithinLimits, BelowEnv, FlashImage
      <4>3. \A r \in Regions : r # i => ~Lies(r, e)
        BY <4>1, <4>2, BootWriteConfined
      <4>4. Write(i, e, "image") \/ Write(i, e, "junk")
        BY <3>2 DEF FlashBoot
      <4>. HIDE DEF i, e
      <4>. QED  BY <2>2, <4>1, <4>3, <4>4
    <3>3. CASE i \in card.images /\ i = "system.img" /\ FlashSystem
      <4>. DEFINE last == kernel["p2"].lo + Sectors(card.size["system.img"]) - 1
                  image == [lo |-> kernel["p2"].lo, hi |-> last]
      <4>1. "p2" \in Updated(card)
        BY <3>3 DEF Updated, RegionOf
      <4>2. CASE "p2" \notin DOMAIN kernel
        BY <2>1, <3>3, <4>2 DEF FlashSystem
      <4>3. CASE "p2" \in DOMAIN kernel
        <5>1. kernel["p2"].lo \in Int /\ kernel["p2"].hi \in Int /\ Sectors(card.size["system.img"]) \in Nat
          BY <2>0, <4>3, PartExtents, SectorsBound DEF Images
        <5>2. \/ last <= kernel["p2"].hi /\ (Write("p2", image, "image") \/ Write("p2", image, "junk"))
              \/ Write("p2", kernel["p2"], "junk")
          BY <3>3, <4>3 DEF FlashSystem
        <5>3. \A r \in Regions : r # "p2" => ~Lies(r, kernel["p2"])
          BY <4>3, <5>1, PartWriteConfined
        <5>4. image.lo = kernel["p2"].lo /\ image.hi = last /\ last \in Int
          BY <5>1
        <5>. HIDE DEF image, last
        <5>5. last <= kernel["p2"].hi => \A r \in Regions : r # "p2" => ~Lies(r, image)
          BY <4>3, <5>1, <5>4, PartWriteConfined
        <5>. QED  BY <2>2, <4>1, <5>2, <5>3, <5>5
      <4>. QED  BY <4>2, <4>3
    <3>. QED  BY <2>8, <3>1, <3>2, <3>3 DEF FlashImage
  <2>9. CASE CopyUserdata
    <3>1. "p5" \in Updated(card)
      BY <2>9 DEF CopyUserdata, UpdateInv, Updated, RegionOf
    <3>2. CASE MakeFs("p5", Loop(6, "clear_cache"))
      BY <2>3, <3>1, <3>2
    <3>3. CASE table' = table /\ content' \in {content, [content EXCEPT !["p5"] = "image"], [content EXCEPT !["p5"] = "junk"]}
      BY <3>1, <3>3 DEF TypeOK
    <3>. QED  BY <2>9, <3>2, <3>3 DEF CopyUserdata
  <2>10. CASE ClearCache
    <3>1. "p6" \in Updated(card) /\ MakeFs("p6", Goto("sync"))
      BY <2>10 DEF ClearCache, Updated
    <3>. QED  BY <2>3, <3>1
  <2>11. CASE PowerLoss \/ Reboot \/ Rerun
    BY <2>11 DEF PowerLoss, Reboot, Rerun, PowerUp, Goto, ByScript
  <2>. QED  BY <2>4, <2>5, <2>6, <2>7, <2>8, <2>9, <2>10, <2>11 DEF Next, Script, UncheckedStep
<1>. QED  BY <1>1, UpdateInit, UpdateNext, TypeCorrect, PTL DEF Spec, UpdateConfined

-----------------------------------------------------------------------------
(* Success.  The premise of SuccessIntact, fixed from fdisk on.            *)
Sound == IF card.repartition THEN PlanFits(card) /\ WithinLimits(card)
         ELSE kernel = table /\ Disjoint(kernel)

(* What has been flashed so far.                                           *)
Flashed(i) ==
    \/ pc = "flash" /\ \E k \in 1..7 : k < step /\ ImageSeq[k] = i
    \/ pc = "copy" /\ (i = "userdata.img" => step > 4)
    \/ pc \in {"clear_cache", "sync", "umount", "success"}
Intact(i) ==
    /\ i \in BootImages => len[i] = card.size[i]
    /\ (\A p \in DOMAIN kernel : Apart(i, p)) => content[RegionOf(i)] = "image"
Untouched(p) == (\A i \in card.images : Apart(i, p)) /\ (card.clearubootenv => EnvApartFrom(p))
EnvClear == card.clearubootenv /\ BelowEnv(card) /\ \A p \in DOMAIN kernel : EnvApartFrom(p)

Established ==
    /\ \A i \in card.images : Flashed(i) => Intact(i)
    /\ pc = "mkfs" /\ step > 1 => content["p1"] = "empty"
    /\ pc \in Late /\ card.repartition => \A p \in {"p1", "p7"} : Untouched(p) => content[p] = "empty"
    /\ pc \in Late \ {"clear_env"} /\ EnvClear => content["env"] = "zero"
    /\ pc \in {"sync", "umount", "success"} => content["p6"] = "empty"

IntactInv == pc \in Late \cup {"mkfs"} /\ Sound => Established

EndInv ==
    /\ pc \in {"umount", "success"} => dirty = {}
    /\ pc = "success" => mounts = {}

LEMMA SoundFacts ==
    ASSUME TypeOK, RepartInv, UpdateInv, Sound, pc \in Late \cup {"mkfs"}
    PROVE  /\ WithinLimits(card) /\ Disjoint(kernel)
           /\ card.repartition => DOMAIN kernel = Parts
<1>1. CASE card.repartition
  <2>1. kernel = PlanTable(card) /\ card \in Cards /\ PlanFits(card)
    BY <1>1 DEF RepartInv, RepartitionInForce, Sound, Late, TypeOK
  <2>. QED  BY <1>1, <2>1, PlanDisjoint, PlanIsTable DEF Sound
<1>2. CASE ~card.repartition
  <2>1. pc \in Late
    BY <1>2 DEF UpdateInv, Partitioning
  <2>. QED  BY <1>2, <2>1 DEF Sound, UpdateInv
<1>. QED  BY <1>1, <1>2

(* A write inside partition p spares the other partitions, images apart    *)
(* from p and, if it is, the environment.                                  *)
LEMMA PartWriteSpares ==
    ASSUME TypeOK, Disjoint(kernel), NEW p \in DOMAIN kernel,
           NEW e, e.lo = kernel[p].lo, e.hi \in Int, e.hi <= kernel[p].hi, NEW c, Write(p, e, c)
    PROVE  /\ content'[p] = c
           /\ \A q \in Parts : q # p => content'[q] = content[q]
           /\ \A i \in BootImages : i \in card.images /\ len[i] = card.size[i] /\ Apart(i, p) => content'[i] = content[i]
           /\ EnvApartFrom(p) => content'["env"] = content["env"]
<1>1. p \in Parts /\ kernel[p].lo \in Int /\ kernel[p].hi \in Int
  BY PartExtents
<1>2. Parts \cap BootImages = {} /\ "env" \notin Parts /\ "env" \notin BootImages
  BY DEF Parts, BootImages
<1>3. \A x \in Regions : content'[x] = IF x = p THEN c ELSE IF Lies(x, e) THEN "junk" ELSE content[x]
  BY DEF Write
<1>4. Parts \subseteq Regions /\ BootImages \subseteq Regions /\ "env" \in Regions /\ DOMAIN kernel \subseteq Parts
  BY DEF Regions, TypeOK, IsTable
<1>5. content'[p] = c
  BY <1>1, <1>3, <1>4
<1>6. ASSUME NEW q \in Parts, q # p PROVE content'[q] = content[q]
  <2>1. ASSUME q \in DOMAIN kernel PROVE ~Overlap(kernel[q], e)
    <3>1. ~Overlap(kernel[p], kernel[q]) /\ kernel[q].lo \in Int /\ kernel[q].hi \in Int
      BY <1>6, <2>1, PartExtents DEF Disjoint
    <3>. QED  BY <1>1, <3>1 DEF Overlap
  <2>3. ~Lies(q, e)
    BY <1>2, <2>1 DEF Lies
  <2>. QED  BY <1>3, <1>4, <1>6, <2>3
<1>7. ASSUME NEW i \in BootImages, i \in card.images, len[i] = card.size[i], Apart(i, p) PROVE content'[i] = content[i]
  <2>1. len[i] \in Nat /\ Offset[i] \in Nat
    BY BootFacts DEF TypeOK, BootImages
  <2>2. BootExtent(i, len[i]).lo \in Int /\ BootExtent(i, len[i]).hi \in Int
    BY <2>1, SectorsBound DEF BootExtent
  <2>3. ~Overlap(BootExtent(i, len[i]), kernel[p])
    BY <1>7 DEF Apart
  <2>4. ~Overlap(BootExtent(i, len[i]), e)
    BY <1>1, <2>2, <2>3 DEF Overlap
  <2>5. ~Lies(i, e) /\ i # p
    BY <1>1, <1>2, <1>4, <2>4 DEF Lies
  <2>. QED  BY <1>3, <1>4, <2>5
<1>8. ASSUME EnvApartFrom(p) PROVE content'["env"] = content["env"]
  <2>1. ~Overlap(EnvExtent, e)
    BY <1>1, <1>8 DEF EnvApartFrom, Overlap, EnvExtent
  <2>2. ~Lies("env", e)
    BY <1>2, <1>4, <2>1 DEF Lies
  <2>. QED  BY <1>1, <1>2, <1>3, <1>4, <2>2
<1>. QED  BY <1>5, <1>6, <1>7, <1>8

(* A write into the slot of image i spares the other images, partitions    *)
(* apart from i and the environment if u-boot stays below it.              *)
LEMMA BootWriteSpares ==
    ASSUME TypeOK, WithinLimits(card), NEW i \in BootImages, i \in card.images, NEW c,
           Write(i, BootExtent(i, card.size[i]), c)
    PROVE  /\ content'[i] = c
           /\ \A j \in BootImages : j \in card.images /\ j # i /\ len[j] = card.size[j] => content'[j] = content[j]
           /\ \A p \in Parts : p \in DOMAIN kernel /\ Apart(i, p) => content'[p] = content[p]
           /\ BelowEnv(card) => content'["env"] = content["env"]
<1>. DEFINE e == BootExtent(i, card.size[i])
<1>1. Parts \cap BootImages = {} /\ "env" \notin Parts /\ "env" \notin BootImages /\ BootImages \subseteq Images
  BY DEF Parts, BootImages, Images
<1>2. \A x \in Regions : content'[x] = IF x = i THEN c ELSE IF Lies(x, e) THEN "junk" ELSE content[x]
  BY DEF Write
<1>3. Parts \subseteq Regions /\ BootImages \subseteq Regions /\ "env" \in Regions /\ DOMAIN kernel \subseteq Parts
  BY DEF Regions, TypeOK, IsTable
<1>4. \A j \in BootImages : card.size[j] \in Nat
  BY <1>1, TypeOfCard DEF TypeOK
<1>5. \A j \in BootImages : j \in card.images => KiB(card.size[j]) <= MaxKiB[j]
  BY DEF WithinLimits
<1>6. ASSUME NEW j \in BootImages, j \in card.images, j # i, len[j] = card.size[j] PROVE content'[j] = content[j]
  <2>1. ~Overlap(BootExtent(j, len[j]), e)
    BY <1>4, <1>5, <1>6, SlotsApart
  <2>2. ~Lies(j, e)
    BY <1>1, <1>3, <2>1 DEF Lies
  <2>. QED  BY <1>2, <1>3, <1>6, <2>2
<1>7. ASSUME NEW p \in Parts, p \in DOMAIN kernel, Apart(i, p) PROVE content'[p] = content[p]
  <2>1. ~Overlap(kernel[p], e)
    BY <1>7 DEF Apart, Overlap
  <2>2. ~Lies(p, e)
    BY <1>1, <2>1 DEF Lies
  <2>. QED  BY <1>1, <1>2, <1>3, <2>2
<1>8. ASSUME BelowEnv(card) PROVE content'["env"] = content["env"]
  <2>1. ~Overlap(EnvExtent, e)
    BY <1>4, <1>5, <1>8, EnvApart DEF BelowEnv
  <2>2. ~Lies("env", e)
    BY <1>1, <1>3, <2>1 DEF Lies
  <2>. QED  BY <1>1, <1>2, <1>3, <2>2
<1>9. content'[i] = c
  BY <1>2, <1>3
<1>. QED  BY <1>6, <1>7, <1>8, <1>9

(* The same, in terms of the invariant.                                    *)
LEMMA PartStep ==
    ASSUME TypeOK, RepartInv, UpdateInv, Sound, pc \in Late \cup {"mkfs"},
           UNCHANGED <<card, table, kernel, len>>, NEW p \in DOMAIN kernel,
           NEW e, e.lo = kernel[p].lo, e.hi \in Int, e.hi <= kernel[p].hi, NEW c, Write(p, e, c)
    PROVE  /\ content'[p] = c
           /\ \A i \in card.images : RegionOf(i) # p /\ Intact(i) => Intact(i)'
           /\ \A q \in Parts : q # p => content'[q] = content[q]
           /\ EnvClear => content'["env"] = content["env"]
<1>1. Disjoint(kernel)
  BY SoundFacts
<1>2. /\ content'[p] = c
      /\ \A q \in Parts : q # p => content'[q] = content[q]
      /\ \A i \in BootImages : i \in card.images /\ len[i] = card.size[i] /\ Apart(i, p) => content'[i] = content[i]
      /\ EnvApartFrom(p) => content'["env"] = content["env"]
  BY <1>1, PartWriteSpares
<1>3. ASSUME NEW i \in card.images, RegionOf(i) # p, Intact(i) PROVE Intact(i)'
  <2>1. i \in Images
    BY TypeOfCard DEF TypeOK
  <2>2. (\A q \in DOMAIN kernel : Apart(i, q))' <=> (\A q \in DOMAIN kernel : Apart(i, q))
    BY DEF Apart
  <2>3. CASE i \in BootImages
    <3>1. RegionOf(i) = i
      BY <2>3 DEF RegionOf, BootImages
    <3>2. (\A q \in DOMAIN kernel : Apart(i, q)) => content'[i] = content[i]
      BY <1>2, <1>3, <2>3 DEF Intact
    <3>. QED  BY <1>3, <2>2, <2>3, <3>1, <3>2 DEF Intact
  <2>4. CASE i \notin BootImages
    <3>1. RegionOf(i) \in Parts
      BY <2>1, <2>4 DEF Images, RegionOf, Parts
    <3>. QED  BY <1>2, <1>3, <2>2, <2>4, <3>1 DEF Intact
  <2>. QED  BY <2>3, <2>4
<1>. QED  BY <1>2, <1>3 DEF EnvClear

LEMMA BootStep ==
    ASSUME TypeOK, RepartInv, UpdateInv, Sound, pc \in Late,
           UNCHANGED <<card, table, kernel>>, NEW i \in BootImages, i \in card.images,
           len' = [len EXCEPT ![i] = card.size[i]], Write(i, BootExtent(i, card.size[i]), "image")
    PROVE  /\ \A j \in card.images \cap BootImages : j = i \/ Intact(j) => Intact(j)'
           /\ \A p \in Parts : card.repartition /\ Apart(i, p) => content'[p] = content[p]
           /\ EnvClear => content'["env"] = content["env"]
<1>1. WithinLimits(card) /\ (card.repartition => DOMAIN kernel = Parts)
  BY SoundFacts
<1>2. /\ content'[i] = "image"
      /\ \A j \in BootImages : j \in card.images /\ j # i /\ len[j] = card.size[j] => content'[j] = content[j]
      /\ \A p \in Parts : p \in DOMAIN kernel /\ Apart(i, p) => content'[p] = content[p]
      /\ BelowEnv(card) => content'["env"] = content["env"]
  BY <1>1, BootWriteSpares
<1>3. ASSUME NEW j \in card.images \cap BootImages, j = i \/ Intact(j) PROVE Intact(j)'
  <2>1. RegionOf(j) = j
    BY DEF RegionOf, BootImages
  <2>2. (\A q \in DOMAIN kernel : Apart(j, q))' <=> (\A q \in DOMAIN kernel : Apart(j, q))
    BY DEF Apart
  <2>3. len'[j] = card'.size[j]
    BY <1>3 DEF Intact, TypeOK
  <2>4. (\A q \in DOMAIN kernel : Apart(j, q)) => content'[j] = "image"
    BY <1>2, <1>3, <2>1 DEF Intact
  <2>. QED  BY <2>1, <2>2, <2>3, <2>4 DEF Intact
<1>. QED  BY <1>1, <1>2, <1>3 DEF EnvClear

(* Of the ground the invariant stands on nothing moves.                    *)
LEMMA SameGround ==
    ASSUME UNCHANGED <<card, table, kernel>>
    PROVE  /\ Sound' <=> Sound
           /\ EnvClear' <=> EnvClear
           /\ \A p : Untouched(p)' <=> Untouched(p)
<1>1. PlanFits(card)' = PlanFits(card) /\ WithinLimits(card)' = WithinLimits(card)
      /\ Disjoint(kernel)' = Disjoint(kernel) /\ BelowEnv(card)' = BelowEnv(card)
  BY DEF PlanFits, WithinLimits, Disjoint, BelowEnv
<1>2. \A p : EnvApartFrom(p)' <=> EnvApartFrom(p)
  BY DEF EnvApartFrom
<1>3. \A i, p : Apart(i, p)' <=> Apart(i, p)
  BY DEF Apart
<1>4. Sound' <=> Sound
  BY <1>1 DEF Sound
<1>5. EnvClear' <=> EnvClear
  BY <1>1, <1>2 DEF EnvClear
<1>6. \A p : Untouched(p)' <=> Untouched(p)
  BY <1>2, <1>3 DEF Untouched
<1>. QED  BY <1>4, <1>5, <1>6

-----------------------------------------------------------------------------
(* One lemma per step of the flashing phases.                              *)
Ground == TypeOK /\ MountInv /\ RepartInv /\ UpdateInv /\ Sound /\ Established

LEMMA MkfsEstablishes ==
    ASSUME Ground, Mkfs, pc' # "failed" PROVE Established'
<1>. DEFINE p == MkfsSeq[step]
<1>1. /\ pc = "mkfs" /\ UNCHANGED <<card, table, kernel, len>> /\ step \in 1..4
      /\ p \in DOMAIN kernel /\ Write(p, kernel[p], "empty") /\ Loop(4, "clear_env")
  BY DEF Ground, Mkfs, MakeFs, Keep, Write, Quit, Goto, TypeOK, Running, Phases, Steps
<1>2. kernel[p].lo \in Int /\ kernel[p].hi \in Int /\ p \in Parts
  BY <1>1, PartExtents DEF Ground
<1>3. /\ content'[p] = "empty"
      /\ \A q \in Parts : q # p => content'[q] = content[q]
  BY <1>1, <1>2, PartStep DEF Ground
<1>4. (step = 1 => p = "p1") /\ (step = 4 => p = "p7")
  BY DEF MkfsSeq
<1>5. \/ step < 4 /\ pc' = "mkfs" /\ step' = step + 1
      \/ step = 4 /\ pc' = "clear_env" /\ step' = 1
  BY <1>1 DEF Loop, Goto
<1>6. "p1" \in Parts /\ "p7" \in Parts
  BY DEF Parts
<1>. HIDE DEF p
<1>7. content'["p1"] = "empty"
  BY <1>1, <1>3, <1>4, <1>6 DEF Ground, Established
<1>8. step = 4 => content'["p7"] = "empty"
  BY <1>3, <1>4
<1>9. \A i : ~Flashed(i)'
  BY <1>5 DEF Flashed
<1>. QED  BY <1>5, <1>7, <1>8, <1>9 DEF Established, Late

LEMMA ClearEnvEstablishes ==
    ASSUME Ground, ClearEnv, pc' # "failed" PROVE Established'
<1>1. /\ pc = "clear_env" /\ pc' = "flash" /\ step' = 1 /\ UNCHANGED <<card, table, kernel, len>>
      /\ \/ ~card.clearubootenv /\ content' = content
         \/ card.clearubootenv /\ Write("env", EnvExtent, "zero")
  BY DEF ClearEnv, Keep, Write, Quit, Goto
<1>2. \A i : ~Flashed(i)'
  BY <1>1 DEF Flashed
<1>3. ASSUME card.repartition, NEW p \in {"p1", "p7"}, Untouched(p) PROVE content'[p] = "empty"
  <2>1. content[p] = "empty"
    BY <1>1, <1>3 DEF Ground, Established, Late
  <2>2. CASE card.clearubootenv
    <3>1. p \in Regions /\ p # "env" /\ p \notin BootImages
      BY DEF Regions, Parts, BootImages
    <3>2. ~Overlap(EnvExtent, kernel[p])
      BY <1>3, <2>2 DEF Untouched, EnvApartFrom
    <3>3. ~Lies(p, EnvExtent)
      BY <3>1, <3>2 DEF Lies, Overlap
    <3>. QED  BY <1>1, <2>1, <2>2, <3>1, <3>3 DEF Write
  <2>. QED  BY <1>1, <2>1, <2>2
<1>4. EnvClear => content'["env"] = "zero"
  BY <1>1 DEF EnvClear, Write, Regions
<1>5. (EnvClear' <=> EnvClear) /\ \A p : Untouched(p)' <=> Untouched(p)
  BY <1>1, SameGround
<1>. QED  BY <1>1, <1>2, <1>3, <1>4, <1>5 DEF Established, Late

(* A step with the image at hand done, or absent, keeps what was flashed.  *)
LEMMA FlashedNext ==
    ASSUME Ground, pc = "flash", UNCHANGED card, Loop(7, "clear_cache"),
           NEW i \in card.images, Flashed(i)'
    PROVE  Flashed(i) \/ i = ImageSeq[step]
<1>1. step \in 1..7
  BY DEF Ground, TypeOK, Running, Phases, Steps
<1>2. \/ step < 7 /\ step' = step + 1 /\ pc' = "flash"
      \/ step = 7 /\ pc' = "clear_cache"
  BY <1>1 DEF Loop, Goto
<1>3. PICK k \in 1..7 : ImageSeq[k] = i
  BY EveryImageListed DEF Ground, TypeOK
<1>4. CASE step < 7
  <2>1. PICK m \in 1..7 : m < step + 1 /\ ImageSeq[m] = i
    BY <1>2, <1>4 DEF Flashed
  <2>. QED  BY <1>1, <2>1 DEF Flashed
<1>5. CASE step = 7
  BY <1>1, <1>3, <1>5 DEF Flashed
<1>. QED  BY <1>1, <1>4, <1>5

LEMMA FlashEstablishes ==
    ASSUME Ground, FlashImage, pc' # "failed" PROVE Established'
<1>. DEFINE i == ImageSeq[step]
<1>0. pc = "flash" /\ UNCHANGED <<card, table, kernel>> /\ step \in 1..7 /\ pc \in Late
  BY LateSteps DEF FlashImage, LateStep, Ground, TypeOK, Running, Phases, Steps, Late
<1>1. (EnvClear' <=> EnvClear) /\ \A p : Untouched(p)' <=> Untouched(p)
  BY <1>0, SameGround
<1>2. SUFFICES
        /\ \A j \in card.images : Flashed(j)' => Intact(j)'
        /\ card.repartition => \A p \in {"p1", "p7"} : Untouched(p) => content'[p] = content[p]
        /\ EnvClear => content'["env"] = content["env"]
        /\ pc' \in {"flash", "copy", "clear_cache"}
  BY <1>0, <1>1 DEF Ground, Established, Late
<1>3. CASE i \notin card.images /\ Loop(7, "clear_cache") /\ UNCHANGED disk
  <2>1. pc' \in {"flash", "clear_cache"}
    BY <1>0, <1>3 DEF Loop, Goto
  <2>2. \A j \in card.images : Flashed(j)' => Flashed(j)
    BY <1>0, <1>3, FlashedNext
  <2>3. \A j : Intact(j)' <=> Intact(j)
    BY <1>0, <1>3 DEF Intact, Apart, disk
  <2>. QED  BY <1>0, <1>3, <2>1, <2>2, <2>3 DEF Ground, Established, disk
<1>4. CASE i \in card.images \cap BootImages /\ FlashBoot(i)
  <2>1. /\ len' = [len EXCEPT ![i] = card.size[i]] /\ Write(i, BootExtent(i, card.size[i]), "image")
        /\ Loop(7, "clear_cache")
    BY <1>4 DEF FlashBoot, Quit, Goto
  <2>2. pc' \in {"flash", "clear_cache"}
    BY <1>0, <2>1 DEF Loop, Goto
  <2>3. /\ \A j \in card.images \cap BootImages : j = i \/ Intact(j) => Intact(j)'
        /\ \A p \in Parts : card.repartition /\ Apart(i, p) => content'[p] = content[p]
        /\ EnvClear => content'["env"] = content["env"]
    BY <1>0, <1>4, <2>1, BootStep DEF Ground
  <2>4. step < 6
    BY <1>0, <1>4 DEF ImageSeq, BootImages
  <2>5. ASSUME NEW j \in card.images, Flashed(j)' PROVE Intact(j)'
    <3>1. Flashed(j) \/ j = i
      BY <1>0, <2>1, <2>5, FlashedNext
    <3>2. j \in BootImages
      BY <1>0, <1>4, <2>4, <3>1 DEF Flashed, ImageSeq, BootImages
    <3>. QED  BY <2>3, <3>1, <3>2 DEF Ground, Established
  <2>6. \A p \in {"p1", "p7"} : Untouched(p) => Apart(i, p)
    BY <1>4 DEF Untouched
  <2>. QED  BY <2>2, <2>3, <2>5, <2>6 DEF Parts
<1>5. CASE i \in card.images /\ i = "system.img" /\ FlashSystem
  <2>. DEFINE last == kernel["p2"].lo + Sectors(card.size["system.img"]) - 1
              image == [lo |-> kernel["p2"].lo, hi |-> last]
  <2>1. /\ len' = len /\ "p2" \in DOMAIN kernel /\ last <= kernel["p2"].hi /\ Write("p2", image, "image")
        /\ Loop(7, "clear_cache")
    BY <1>5 DEF FlashSystem, Quit, Goto
  <2>2. pc' \in {"flash", "clear_cache"}
    BY <1>0, <2>1 DEF Loop, Goto
  <2>3. card.size["system.img"] \in Nat
    BY TypeOfCard DEF Ground, TypeOK, Images
  <2>4. image.lo = kernel["p2"].lo /\ image.hi = last /\ last \in Int
    BY <2>1, <2>3, PartExtents, SectorsBound DEF Ground
  <2>. HIDE DEF image, last
  <2>5. /\ content'["p2"] = "image"
        /\ \A j \in card.images : RegionOf(j) # "p2" /\ Intact(j) => Intact(j)'
        /\ \A q \in Parts : q # "p2" => content'[q] = content[q]
        /\ EnvClear => content'["env"] = content["env"]
    BY <1>0, <2>1, <2>4, PartStep DEF Ground
  <2>6. ASSUME NEW j \in card.images, Flashed(j)' PROVE Intact(j)'
    <3>1. Flashed(j) \/ j = i
      BY <1>0, <2>1, <2>6, FlashedNext
    <3>2. CASE j = "system.img"
      BY <2>5, <3>2 DEF Intact, RegionOf, BootImages
    <3>3. CASE j # "system.img"
      <4>1. j \in Images
        BY TypeOfCard DEF Ground, TypeOK
      <4>2. RegionOf(j) # "p2"
        BY <3>3, <4>1 DEF RegionOf, Images, BootImages
      <4>. QED  BY <1>5, <2>5, <3>1, <3>3, <4>2 DEF Ground, Established
    <3>. QED  BY <3>2, <3>3
  <2>. QED  BY <2>2, <2>5, <2>6 DEF Parts
<1>6. CASE i \in card.images /\ i = "userdata.img" /\ Goto("copy") /\ UNCHANGED disk
  <2>1. pc' = "copy" /\ step' = 1 /\ step = 7
    BY <1>0, <1>6 DEF Goto, ImageSeq
  <2>2. ASSUME NEW j \in card.images, Flashed(j)' PROVE Flashed(j)
    <3>1. j # "userdata.img"
      BY <2>1, <2>2 DEF Flashed
    <3>2. PICK k \in 1..7 : ImageSeq[k] = j
      BY EveryImageListed DEF Ground, TypeOK
    <3>3. k # 7
      BY <3>1, <3>2 DEF ImageSeq
    <3>. QED  BY <1>0, <2>1, <3>2, <3>3 DEF Flashed
  <2>3. \A j : Intact(j)' <=> Intact(j)
    BY <1>0, <1>6 DEF Intact, Apart, disk
  <2>. QED  BY <1>0, <1>6, <2>1, <2>2, <2>3 DEF Ground, Established, disk
<1>. QED  BY <1>3, <1>4, <1>5, <1>6 DEF FlashImage

LEMMA CopyEstablishes ==
    ASSUME Ground, CopyUserdata, pc' # "failed" PROVE Established'
<1>0. /\ pc = "copy" /\ UNCHANGED <<card, table, kernel, len>> /\ step \in 1..6 /\ pc \in Late
      /\ Loop(6, "clear_cache")
  <2>1. pc = "copy" /\ UNCHANGED <<card, table, kernel>> /\ step \in 1..6
    BY LateSteps DEF CopyUserdata, LateStep, Ground, TypeOK, Running, Phases, Steps
  <2>2. Loop(6, "clear_cache")
    BY DEF CopyUserdata, MakeFs, Quit, Goto
  <2>. QED  BY <2>1, <2>2 DEF CopyUserdata, Late
<1>1. (EnvClear' <=> EnvClear) /\ \A p : Untouched(p)' <=> Untouched(p)
  BY <1>0, SameGround
<1>2. \/ step < 6 /\ pc' = "copy" /\ step' = step + 1
      \/ step = 6 /\ pc' = "clear_cache"
  BY <1>0 DEF Loop, Goto
<1>3. \A j \in card.images : Flashed(j)' => Flashed(j) \/ (j = "userdata.img" /\ step = 4)
  BY <1>0, <1>2 DEF Flashed
<1>4. SUFFICES
        /\ \A j \in card.images : Flashed(j)' => Intact(j)'
        /\ \A p \in {"p1", "p7"} : content'[p] = content[p]
        /\ EnvClear => content'["env"] = content["env"]
  BY <1>0, <1>1, <1>2 DEF Ground, Established, Late
<1>5. CASE step = 1
  <2>1. "p5" \in DOMAIN kernel /\ Write("p5", kernel["p5"], "empty")
    BY <1>5 DEF CopyUserdata, MakeFs, Quit, Goto
  <2>2. kernel["p5"].lo \in Int /\ kernel["p5"].hi \in Int
    BY <2>1, PartExtents DEF Ground
  <2>3. /\ \A j \in card.images : RegionOf(j) # "p5" /\ Intact(j) => Intact(j)'
        /\ \A q \in Parts : q # "p5" => content'[q] = content[q]
        /\ EnvClear => content'["env"] = content["env"]
    BY <1>0, <2>1, <2>2, PartStep DEF Ground
  <2>4. ASSUME NEW j \in card.images, Flashed(j)' PROVE Intact(j)'
    <3>1. Flashed(j) /\ j # "userdata.img"
      BY <1>0, <1>3, <1>5, <2>4 DEF Flashed
    <3>2. j \in Images
      BY TypeOfCard DEF Ground, TypeOK
    <3>3. RegionOf(j) # "p5"
      BY <3>1, <3>2 DEF RegionOf, Images, BootImages
    <3>. QED  BY <2>3, <3>1, <3>3 DEF Ground, Established
  <2>. QED  BY <2>3, <2>4 DEF Parts
<1>6. CASE step = 4
  <2>1. content' = [content EXCEPT !["p5"] = "image"]
    BY <1>6 DEF CopyUserdata, Quit, Goto
  <2>2. DOMAIN content = Regions /\ {"p1", "p5", "p7", "env"} \subseteq Regions
    BY DEF Ground, TypeOK, Regions, Parts
  <2>3. ASSUME NEW j \in card.images, Flashed(j)' PROVE Intact(j)'
    <3>1. CASE j = "userdata.img"
      BY <2>1, <2>2, <3>1 DEF Intact, RegionOf, BootImages
    <3>2. CASE j # "userdata.img"
      <4>1. Intact(j)
        BY <1>3, <2>3, <3>2 DEF Ground, Established
      <4>2. j \in Images
        BY TypeOfCard DEF Ground, TypeOK
      <4>3. RegionOf(j) # "p5"
        BY <3>2, <4>2 DEF RegionOf, Images, BootImages
      <4>4. (\A q \in DOMAIN kernel : Apart(j, q))' <=> (\A q \in DOMAIN kernel : Apart(j, q))
        BY <1>0 DEF Apart
      <4>5. content'[RegionOf(j)] = content[RegionOf(j)]
        BY <2>1, <4>3
      <4>. QED  BY <1>0, <4>1, <4>4, <4>5 DEF Intact
    <3>. QED  BY <3>1, <3>2
  <2>. QED  BY <2>1, <2>2, <2>3
<1>7. CASE step \notin {1, 4}
  <2>1. content' = content
    BY <1>0, <1>7 DEF CopyUserdata
  <2>2. \A j : Intact(j)' <=> Intact(j)
    BY <1>0, <2>1 DEF Intact, Apart
  <2>. QED  BY <1>3, <1>7, <2>1, <2>2 DEF Ground, Established
<1>. QED  BY <1>5, <1>6, <1>7

LEMMA ClearCacheEstablishes ==
    ASSUME Ground, ClearCache, pc' # "failed" PROVE Established'
<1>0. /\ pc = "clear_cache" /\ pc' = "sync" /\ UNCHANGED <<card, table, kernel, len>> /\ pc \in Late
      /\ "p6" \in DOMAIN kernel /\ Write("p6", kernel["p6"], "empty")
  BY DEF ClearCache, MakeFs, Write, Quit, Goto, Keep, Late
<1>1. (EnvClear' <=> EnvClear) /\ \A p : Untouched(p)' <=> Untouched(p)
  BY <1>0, SameGround
<1>2. kernel["p6"].lo \in Int /\ kernel["p6"].hi \in Int
  BY <1>0, PartExtents DEF Ground
<1>3. /\ content'["p6"] = "empty"
      /\ \A j \in card.images : RegionOf(j) # "p6" /\ Intact(j) => Intact(j)'
      /\ \A q \in Parts : q # "p6" => content'[q] = content[q]
      /\ EnvClear => content'["env"] = content["env"]
  BY <1>0, <1>2, PartStep DEF Ground
<1>4. ASSUME NEW j \in card.images PROVE Intact(j)'
  <2>1. Intact(j)
    BY <1>0 DEF Ground, Established, Flashed
  <2>2. j \in Images
    BY TypeOfCard DEF Ground, TypeOK
  <2>3. RegionOf(j) # "p6"
    BY <2>2 DEF RegionOf, Images, BootImages
  <2>. QED  BY <1>3, <2>1, <2>3
<1>. QED  BY <1>0, <1>1, <1>3, <1>4 DEF Ground, Established, Late, Parts

LEMMA EndEstablishes ==
    ASSUME Ground, Sync \/ UmountSrc, pc' # "failed" PROVE Established'
<1>0. /\ pc \in {"sync", "umount"} /\ pc' \in {"umount", "success"}
      /\ UNCHANGED <<card, table, kernel, len, content>>
  BY DEF Sync, UmountSrc, Quit, Goto, Keep, disk
<1>1. (EnvClear' <=> EnvClear) /\ \A p : Untouched(p)' <=> Untouched(p)
  BY <1>0, SameGround
<1>2. \A j : Intact(j)' <=> Intact(j)
  BY <1>0 DEF Intact, Apart
<1>3. \A j : Flashed(j)
  BY <1>0 DEF Flashed
<1>. QED  BY <1>0, <1>1, <1>2, <1>3 DEF Ground, Established, Late

-----------------------------------------------------------------------------
(* Steps that lead to none of the phases the invariant speaks about.       *)
LEMMA EarlySteps ==
    ASSUME UncheckedStep \/ Partition \/ CheckSpaces \/ ClearMbr \/ Geometry \/ PowerLoss \/ Reboot \/ Rerun
    PROVE  pc' \notin Late \cup {"mkfs"}
<1>1. CASE UncheckedStep
  BY <1>1 DEF UncheckedStep, WaitDevice, EnterShell, MountSrc, ImagesDir, ReadMd5, CheckMd5, Goto, Loop, Quit, Late
<1>2. CASE Partition \/ CheckSpaces \/ ClearMbr \/ Geometry
  BY <1>2 DEF Partition, CheckSpaces, ClearMbr, Geometry, Goto, Quit, Late
<1>3. CASE PowerLoss \/ Reboot \/ Rerun
  BY <1>3 DEF PowerLoss, Reboot, Rerun, PowerUp, Goto, Late
<1>. QED  BY <1>1, <1>2, <1>3

LEMMA IntactNext ==
    TypeOK /\ MountInv /\ RepartInv /\ UpdateInv /\ IntactInv /\ [Next]_vars => IntactInv'
<1>. SUFFICES ASSUME TypeOK, MountInv, RepartInv, UpdateInv, IntactInv, [Next]_vars,
                     pc' \in Late \cup {"mkfs"}, Sound'
              PROVE  Established'
  BY DEF IntactInv
<1>1. CASE UncheckedStep \/ Partition \/ CheckSpaces \/ ClearMbr \/ Geometry \/ PowerLoss \/ Reboot \/ Rerun
  BY <1>1, EarlySteps
<1>2. CASE RunFdisk
  <2>1. pc' = "mkfs" /\ step' = 1
    BY <1>2 DEF RunFdisk, Goto, Quit, Late
  <2>. QED  BY <2>1 DEF Established, Flashed, Late
<1>3. CASE CheckPartition
  <2>1. pc' = "clear_env" /\ ~card'.repartition
    BY <1>3 DEF CheckPartition, Goto, Quit, Late, Keep, UpdateInv
  <2>. QED  BY <2>1 DEF Established, Flashed, Late
<1>4. CASE LateStep
  <2>1. UNCHANGED <<card, table, kernel>> /\ pc \in Late \cup {"mkfs"} /\ pc' # "failed"
    BY <1>4, LateSteps DEF AfterFdisk, Late
  <2>2. Sound
    BY <2>1, SameGround
  <2>3. Ground
    BY <2>1, <2>2 DEF Ground, IntactInv
  <2>. QED  BY <1>4, <2>1, <2>3, MkfsEstablishes, ClearEnvEstablishes, FlashEstablishes, CopyEstablishes,
               ClearCacheEstablishes, EndEstablishes DEF LateStep
<1>5. CASE UNCHANGED vars
  <2>1. UNCHANGED <<card, pc, step, table, kernel, content, len>>
    BY <1>5 DEF vars
  <2>2. (Sound' <=> Sound) /\ (EnvClear' <=> EnvClear) /\ \A p : Untouched(p)' <=> Untouched(p)
    BY <2>1, SameGround
  <2>3. \A j : (Intact(j)' <=> Intact(j)) /\ (Flashed(j)' <=> Flashed(j))
    BY <2>1 DEF Intact, Apart, Flashed
  <2>. QED  BY <2>1, <2>2, <2>3 DEF IntactInv, Established
<1>. QED  BY <1>1, <1>2, <1>3, <1>4, <1>5 DEF Next, Script, LateStep, UncheckedStep

LEMMA EndNext == MountInv /\ MountInv' /\ TypeOK /\ EndInv /\ [Next]_vars => EndInv'
<1>. SUFFICES ASSUME MountInv, MountInv', TypeOK, EndInv, [Next]_vars PROVE EndInv'
  OBVIOUS
<1>. USE DEF EndInv, Mounted, Phases
<1>1. CASE UncheckedStep
  <2>1. pc' \notin {"umount", "success"}
    <3>1. CASE ImagesDir
      BY <3>1 DEF ImagesDir, Goto, Quit
    <3>2. CASE ReadMd5 \/ CheckMd5
      BY <3>2 DEF ReadMd5, CheckMd5, Goto, Loop, Quit, Keep
    <3>3. CASE WaitDevice("wait_sd", "wait_emmc") \/ WaitDevice("wait_emmc", "enter_shell") \/ EnterShell \/ MountSrc
      BY <3>3 DEF WaitDevice, EnterShell, MountSrc, Goto
    <3>. QED  BY <1>1, <3>1, <3>2, <3>3 DEF UncheckedStep
  <2>. QED  BY <2>1
<1>2. CASE Partition \/ CheckSpaces \/ ClearMbr \/ Geometry \/ RunFdisk \/ CheckPartition
  <2>1. pc' \notin {"umount", "success"}
    BY <1>2 DEF Partition, CheckSpaces, ClearMbr, Geometry, RunFdisk, CheckPartition, Goto, Quit, Keep
  <2>. QED  BY <2>1
<1>3. CASE Mkfs \/ ClearEnv \/ FlashImage \/ CopyUserdata \/ ClearCache
  <2>1. pc' \in {"mkfs", "clear_env", "flash", "copy", "clear_cache", "sync", "failed"}
    <3>1. CASE Mkfs          BY <3>1 DEF Mkfs, MakeFs, Loop, Goto, Quit
    <3>2. CASE ClearEnv      BY <3>2 DEF ClearEnv, Goto, Quit
    <3>3. CASE FlashImage    BY <3>3 DEF FlashImage, FlashBoot, FlashSystem, Loop, Goto, Quit
    <3>4. CASE CopyUserdata  BY <3>4 DEF CopyUserdata, MakeFs, Loop, Goto, Quit
    <3>5. CASE ClearCache    BY <3>5 DEF ClearCache, MakeFs, Goto, Quit
    <3>. QED  BY <1>3, <3>1, <3>2, <3>3, <3>4, <3>5
  <2>. QED  BY <2>1
<1>4. CASE Sync
  BY <1>4 DEF Sync, Goto, Quit, Keep
<1>5. CASE UmountSrc
  <2>1. "img" \notin mounts /\ "img2" \notin mounts /\ mounts \subseteq {"src", "img", "img2"}
    BY <1>5 DEF UmountSrc, MountInv, MountNesting, Plain, TypeOK
  <2>2. pc' = "success" => mounts' = {}
    BY <1>5, <2>1 DEF UmountSrc, Goto
  <2>. QED  BY <1>5, <2>2 DEF UmountSrc, Goto, Keep, disk
<1>6. CASE PowerLoss \/ Reboot \/ Rerun
  BY <1>6 DEF PowerLoss, Reboot, Rerun, PowerUp, Goto
<1>7. CASE UNCHANGED vars
  BY <1>7 DEF vars
<1>. QED  BY <1>1, <1>2, <1>3, <1>4, <1>5, <1>6, <1>7 DEF Next, Script, UncheckedStep

(* "flash success!" is true: every image of the card is in its place and   *)
(* synced, the new partitions and the cache are formatted, and nothing is  *)
(* left mounted (flash.sh 549-585).                                        *)
THEOREM SuccessIntactHolds == Spec => []SuccessIntact
<1>. DEFINE I == TypeOK /\ MountInv /\ RepartInv /\ UpdateInv /\ IntactInv /\ EndInv
<1>1. Init => MountInv /\ RepartInv /\ UpdateInv /\ IntactInv /\ EndInv
  <2>1. Init => pc = "wait_sd"
    BY DEF Init
  <2>. QED  BY <2>1, MountInit, UpdateInit
            DEF RepartInv, RepartitionInForce, IntactInv, EndInv, Late, Mounted
<1>2. TypeOK /\ MountInv /\ RepartInv /\ UpdateInv /\ IntactInv /\ EndInv /\ [Next]_vars
      => (MountInv /\ RepartInv /\ UpdateInv /\ IntactInv /\ EndInv)'
  BY MountNext, RepartNext, UpdateNext, IntactNext, EndNext
<1>3. I => SuccessIntact
  <2>. SUFFICES ASSUME I, pc = "success", Sound
                PROVE  /\ \A i \in card.images : (\A p \in DOMAIN kernel : Apart(i, p)) => content[RegionOf(i)] = "image"
                       /\ content["p6"] = "empty"
                       /\ card.repartition => \A p \in {"p1", "p7"} : Untouched(p) => content[p] = "empty"
                       /\ EnvClear => content["env"] = "zero"
                       /\ dirty = {} /\ mounts = {}
    BY DEF SuccessIntact, Sound, Untouched, EnvClear
  <2>1. Established
    BY DEF IntactInv, Late
  <2>2. \A i \in card.images : Intact(i)
    BY <2>1 DEF Established, Flashed
  <2>3. dirty = {} /\ mounts = {}
    BY DEF EndInv
  <2>. QED  BY <2>1, <2>2, <2>3 DEF Established, Intact, Late
<1>. QED  BY <1>1, <1>2, <1>3, TypeCorrect, PTL DEF Spec
=============================================================================
