# Verification of the SD flash tool

The repository builds a RAM disk that boots an i.MX board from an SD card and
installs the images found on the card on the board's eMMC.  This directory
holds TLA+ models of the parts that decide whether a device comes out of that
intact, the TLC configurations that check them and TLAPS proofs about them.

## 1. Inventory

| part | source | state it keeps | operations |
|---|---|---|---|
| flashing script | `root/etc/init.d/flash.sh` | progress, mounts; through commands: the eMMC's regions, its partition table and the kernel's copy of it | wait for devices, mount, verify sums, repartition or check, clear environment, flash, clear cache, sync, unmount |
| partition arithmetic | `flash.sh` `do_partition` | none | spaces (MiB) to cylinder ranges to answers for fdisk |
| fdisk dialogue | `src/busybox-1.17.3/util-linux/fdisk.c` | table being edited, prompt | `n`, `t`, `w`, end of input |
| display server | `src/ui/ui_server.c` | text list, screen, cursor, spinner; shared by two threads: `prog_enable`, `prog_lock`, `prog_cond`, socket queue | show a message, scroll, start/stop/turn the spinner |
| display client | `src/ui/ui_client.c` | none | send one message |
| boot script | `root/etc/init.d/rcS` | none | start the server, wait for its socket, run the flashing script, reboot or tell the operator |
| init process | `src/busybox-1.17.3/init/init.c`, `root/etc/inittab` | list of actions with pids, pending signal | run and wait for commands, keep shells alive, reload, stop, halt, restart |
| boot records | `fdisk.c` `add_partition`, `write_table`, `read_extended` | MBR and one record per logical partition on the device | place, write, read back |
| RAM disk packer | `src/mkbootfs/mkbootfs.c`, `mkimg.sh` | path buffers, running size, output files | walk, print, compress, wrap |
| release script | `mkrelease.sh` | the directory `update` | check, create, copy, sum, flag |
| `mkdevs.sh`, build files, rest of busybox | | | not modelled, section 8 |

On a workstation `mkimg.sh` packs the RAM disk and `mkrelease.sh` lays out the
card.  On the board init runs `rcS` to its end, then the rescue shells.  `rcS`
starts `ui_server` and runs `flash.sh`; both scripts call `ui_client` for each message,
which sends a datagram to the server's socket.  `flash.sh` pipes
answers into `fdisk` and otherwise runs `dd`, `mke2fs`, `mount`, `cp` and
`sync`.  Nothing but the eMMC and the card survives a power cycle.

What is hard here:

* *Failure.*  Any command can fail, power can go at any time, a failed run
  leaves mounts or half a partition table behind, and the operator simply starts
  again, perhaps with another card.
* *Two partition tables.*  The one on the device and the one in the kernel are
  changed at different moments and read by different commands.
* *A blind dialogue.*  `part_cmds` answers prompts it does not see.
* *Fixed offsets.*  Sizes, offsets and limits are constants in three places.
* *Signals.*  init is interrupted anywhere, its handlers walk the list the main
  loop may be changing, and children end whenever they like.
* *Shared directories.*  Releases are put together from files that a build may
  replace meanwhile, by scripts that do not check every command.
* *Two threads* with a flag that is written outside its lock, and one bounded
  queue for messages and spinner ticks.

What makes the parts correct: success means every image is intact and synced; a
bad image is noticed before the first write; an update touches only what it
updates; any failure can be recovered from by starting again; fdisk writes the
planned table, whole or at least in planned pieces; init starts each command when
it should, once, and carries out what it is asked for; the RAM disk holds what could
be read of the tree and a release one build; the screen shows the messages as a terminal would and the spinner
leaves no trace.  The hazards behind these properties are listed, line by line,
in `PROJECT.json`.

## 2. Modules

| module | models | used by |
|---|---|---|
| `PartitionPlan` | arithmetic and `part_cmds` of `do_partition` | `Fdisk`, `FlashTool` |
| `Fdisk` | fdisk fed with `part_cmds` | `Fdisk_proofs` |
| `FlashTool` | `flash.sh`, power loss, reboot, rerun, change of card | `MCFlash`, `FlashTool_proofs` |
| `MCFlash` | a 4 GB eMMC and a set of cards | |
| `Terminal` | abstract: numbered messages on a screen of `Rows` lines | `UiServer` |
| `UiServer` | `ui_server.c` with both threads, and `ui_client.c` | `UiServer_proofs` |
| `BootRecords`, `MCRecords` | boot records of logical partitions, sector by sector | `BootRecords_proofs`; `FlashTool` takes its torn tables from here |
| `InitProc`, `MCInit` | busybox init with its signal handlers | `InitProc_proofs` |
| `Boot`, `MCBoot` | `rcS` composed with `Terminal` | `Boot_proofs` |
| `MkBootfs`, `MCBootfs` | `mkbootfs.c` and `mkimg.sh` | `MkBootfs_proofs` |
| `Release`, `MCRelease` | `mkrelease.sh` | `Release_proofs` |
| `FlashTool_proofs` | control of `flash.sh` (types, mounts, verification, tables), then content of the eMMC (`SuccessIntact`, `UpdateConfined`) | |
| `Fdisk_proofs`, `BootRecords_proofs`, `UiServer_proofs`, `InitProc_proofs`, `Boot_proofs`, `MkBootfs_proofs`, `Release_proofs` | theorems of the component | |

Definitions whose name says what goes wrong (`ForcedUmount`, `ReadsIntOrDefault`,
`TickAlways`, ...) stand directly before the definition they vary.  They are
seeded bugs, used only to confirm that a property notices them.

### FlashTool

`pc` is the phase of the script, `step` the index of the loop in it.  The eMMC is
a set of regions: five boot slots, the u-boot environment and the partitions 1,
2, 4 to 7.  `content` says of each region whether it holds the card's image
(`image`), something older (`other`), zeros, an empty file system, or `junk`.
Positions are real sectors computed from the script's offsets, the image sizes
and the kernel's table; a write turns every other region it reaches into junk, so
overlaps are found by arithmetic and not assumed.  `table` is the table on the
device, `kernel` the kernel's, `dirty` what is written and not synced.

Each action is one command or check of the script with its success and its
failure exit; a failure through `quit` also tries to unmount the card, which does
not succeed while `userdata.img` is loop-mounted.  `Fault` takes one from a bounded
supply and stands for an I/O error, a key pressed at the shell prompt, a device
that does not appear at once, or power loss.  `PowerUp` loses any subset of the
unsynced writes; an unsynced table may come up as the new, the kernel's, no
table or, from the middle of fdisk, one of `Interrupted`: a prefix of the new table,
or a mixture whose later logical partitions are those of an older table, found
through boot records that were not overwritten yet.  Entries that fdisk makes of a sector
without a record (`Astray` of `BootRecords`) are not among them: the kernel takes
none from such a sector, and fdisk's reader serves `check_partition` only.  A partition
that comes up elsewhere than the kernel had it holds junk (`Moved`).
`Rerun` is the operator starting `flash.sh` from the shell.

`RunFdisk` uses the outcomes module `Fdisk` establishes: the planned table when the
plan fits (`PlanRealised`), otherwise a table without logical partitions or none at
all (`OvercommitOutcome`), always with exit status 0.  `check_img_space_var` has no
effect in the model because its `eval` has none in the shell.  The commands that move
the log to the card (502-505) are unchecked and nothing depends on them; they are left out.

Constants: `Cards`, the geometry `Unit` and `Cyls`, the tables and slot lengths the
device starts with, `Polls` (10 in the script) and `MaxFaults`.
`FlashAssumption` types them.  `SpacesAssumption` asks for at least one cylinder per
space and four for the boot area.  The script tests neither.  Smaller boot areas
are outside the model: with a boot area of one cylinder an over-committed plan
can be written completely, with partition 1 over the boot area.  An empty
`wowconfig_space`, which the script does not test for, is excluded the same way.

### Fdisk

One action per prompt; `input` is the list of answers not read yet.  The rules for
which cylinders a partition may take are those of `add_partition`, in whole
cylinders: the script never changes fdisk's display unit, and the tracks in
front of logical partitions stay inside a cylinder.  The key letters in
`part_cmds` that may reach the command prompt after the dialogue has lost step
(`p`, `e`, `b`, digits) do nothing there.

### BootRecords

The plan's answers are taken as given (`PlanRealised`); what `Fdisk` leaves out is added:
the record of partition 5 in the first sector of the extended partition, the others
a track ahead of their partition, links that count from the extended partition and
data that counts from the record.  `AddLogical` is the search of `add_partition`,
`WriteSector` puts one sector into the page cache, and the device gets all of them
(`Reread`), those written so far (`WriteFails`) or any subset (`PowerLoss`).  Records of
earlier runs stay on the device until something overwrites them: `Start` clears
only the MBR, as `do_partition` does, and `Use` is the use of the partitions, which
may destroy any record inside one.  `Chain` is what `read_extended` follows: `Place[k]` is
the sector the k-th link leads to, whatever it holds.  fdisk parses that sector
unchecked; `get_boot` misses the flag 0x55AA only afterwards, and warns.  The model
gives no contents to a sector without a record: there the chain is `Astray`, `Logicals` has
what was read from records before it, and anything may follow (`Use` may then
overwrite any record).  The kernel's reader stops at such a sector.  `whole` is a history
variable: the layouts some run has written completely.

`GeometryAssumption` asks for three heads and two sectors per track; the property fails
for less, because `wowconfig` of one cylinder then has no room for the two records
in it.  An eMMC reports 4 heads and 16 sectors.

### InitProc

init is one thread.  A step ends wherever a handler or another process can make a
difference; `wait` is a call and a sleep, since a signal only interrupts the sleep.
`pc` says where the thread is, `point` which `check_delayed_sigs` it reaches next,
`target` whom `waitfor` waits for, `list` is `init_action_list`.  Two
statements are two steps because a handler may come in between: `RunEntry` starts a child and unblocks
the signals (343), `Record` stores its pid (464); `Unlink` takes the entry of a known
command off the list into `moving`, `Parse` appends it (493-506).  Handlers that never
return (`Halt`, `Restart`) take over `pc`; `stop_handler` sets `stopped` and gives the
thread back with `Continue`.  `Boot` is the first reading of inittab, line by line, before
the handlers are set up; a re-executed init goes through it again.  Children are a
small process table; the kernel does not hand out the pid just waited for at once,
and never one in use; the instances have enough pids for every start.  A command in `Daemons` leaves a
background process behind when it ends, as `rcS` does with `ui_server`; that is what
makes `waitfor` meet strangers.  `strays`, `missed` and `ran` are history variables for
the properties: `stop_handler` has waited for a child; the pids it waited for while no entry
held them; the commands that have ended.

### Boot

`clock` counts the seconds `rcS` sleeps, `since` is its value when `ui_server` bound its
socket: any second, or never, and the server may also end (`Die`).  `[ -f ]` is false for
a socket, so the loop always takes five turns.  The screen is module `Terminal`, which
`UiServer` implements (`ImplementsTerminal`).

### MkBootfs

The recursion of `_archive_dir` and `_archive` is a stack of frames; `in` and `out` are
shared by all of them and cut back, as in the code.  The names a frame has not visited
yet are a set, from which `Visit` takes the least in the order of `strcmp`: `qsort`
and the loop over its result.  Sizes and positions are bytes.  Every `die` is a disjunct;
directories are opened and never closed.  `ReadDir` returns all entries or, on an error that
the loop takes for the end of the directory (137), any of them; `WriteFails` is output
that does not reach the pipe, of which the program takes no notice.  `unread` and `lost` remember both.
`Gzip` and `MkImage` are `mkimg.sh`, with the exit status the shell gives a pipe and a list
(`mkimage && rm`: either may fail).

### Release

Each run of the script has its own `pc`; directories, files, sums and flags are
shared.  A file's content is the number of its build.  `Build` replaces the sources
between two steps, in place (hard links follow, a copy under way is mixed) or as
new files.  A failing command and an interrupt take from the same supply of faults.

### UiServer

The main thread's work between two accesses to shared state is one step:
`Message` is everything `show_message` does up to `start_progress`, which follows
in two steps.  `progress_thread` has one action for its socket and one per lock, test,
send and sleep.  Reads of `prog_enable` outside the lock see the value at that moment.
`sendto` blocks on a full queue and fails on an unbound socket (state `dead`);
any other error of `socket` or `sendto` ends the thread, too (`ThreadFails`, state `failed`).  minui is not in
the repository; `gr_fill` is taken to clear the cell whose corners the code
passes.

`ImplementsTerminal` maps the screen to `Terminal`: row k holds the messages drawn at
height k * CHAR_HEIGHT, `open` is `cur_x # 0`, and each step of the server is a step
of the terminal or a stutter.

## 3. Runs

| run | what it shows |
|---|---|
| `flash_mixed` | Six cards in any order, two faults: `MountNesting`, `TargetIdleAtPartitioning`, `RepartitionInForce`, `SuccessIntact`, `OnlyVerifiedImagesWritten`, `UpdateConfined`, `TypeOK` |
| `flash_faulty` | Cards that fail late, cards with all seven images exactly at their limits and one with the smallest boot area, one fault: `SuccessIntact` |
| `flash_recovery` | A card with a smaller cache than the device has: `EveryRunEnds`; `Recovers`: repeated power cycles with a sound card always reach success again, also from a table mixed of old and new records |
| `fdisk` | All size combinations over {0, 1, 4} and all devices up to 16 cylinders: `PlanRealised`, `NoOverlap`, `OvercommitOutcome`, `Terminates` |
| `ui` | Four messages, two rows, a queue of two, one failing system call: `ProgressTracksLine`, `NoStaleGlyph`, `ScreenMatchesText`, `ThreadAlive`, `ImplementsTerminal`, `SpinnerTurns`, `MessagesShown` |
| `records` | Five layouts in three runs of fdisk, each cut short anywhere, partitions used in between: `RecordsApart`, `ReadBack`; `TornFromPlans`: what a torn table may show |
| `init_shipped` | The repository's inittab, three signals, one failing fork: `ShellWaitsForSysinit`, `Respawned`, `HaltCarriedOut` |
| `init_reload` | Versions of inittab with different lines and types, SIGHUP, SIGTSTP, SIGQUIT, SIGTERM, one failing fork: `PidsTrue`, `InittabInForce`, `ShutdownOnce`, `ShutdownComplete` |
| `boot` | A display that is up in time, late or never: `NothingLost`, `FailureOnScreen`, `OutcomeReached` |
| `mkbootfs` | 279 command lines, two I/O errors: `Complete`, `Readable`, `Reproducible`, `DiesForCause` |
| `release_shared` | Two runs, two rebuilds, one fault: `AcceptedIsOneBuild`, `OneRun` |
| `flash_stale_kernel` | expects a violation of `SuccessSurvivesReboot`, see below |

`flash_stale_kernel` shows that the code does not do what `rcS` 32 announces ("flash
success, system will be reboot").  A repartitioning run writes the new table, the
kernel's re-read fails, and the script stops.  Started again from the shell with an update
card, `check_partition` reads the new table from the device while `mount` and `mke2fs` use
the kernel's old one; the run succeeds, and after the reboot the partition is elsewhere.

### Deviations the other properties allow for

Where the code does less than its messages, comments or readme say, the property states
what it does do.  Each of these is reachable in the models:

| claim | what happens | where it shows |
|---|---|---|
| readme: *repartition* creates the partitions anew | a plan larger than the device ends in success without logical partitions, or with a cleared table | `PlanFits` in `SuccessIntact`, `RepartitionInForce`; `OvercommitOutcome` |
| `flash.sh` 259: "too large, can't flash" | with *repartition* sizes are not checked | `WithinLimits` in `SuccessIntact` |
| `flash.sh` 123: "enlarge image space" | the `eval` in line 124 assigns nothing | `CheckSpaces`; `BigSystemCard` fails in dd |
| readme: *clearubootenv* clears the environment | a u-boot of 768 to 1023 KiB overwrites it again | `BelowEnv` |
| `flash.sh` 32: boot area and system side by side | the system partition begins two cylinders inside the boot area and, with `boot_space=16`, over the end of the recovery RAM disk | `Apart` |
| `flash.sh` 585: "flash success!" | a table mixed of two runs passes `check_partition`; the cache is made over userdata | `Disjoint` |
| `init.c` 640: the flag is "acted upon" | SIGHUP just before `waitpid` waits for the next child to end | `signal = "none"` in `InittabInForce` |
| `init.c` 754: `waitfor` is resilient | it sleeps on when `stop_handler` was faster and another child lives | `Overslept` |
| `init.c` 50: "restart on exit" | a failed fork leaves pid -1, and the entry is never run again | `EntryWith(c, -1)` |
| `init.c` 457: "If pid != 0, it is already running" | a child that `stop_handler` reaps before its pid is stored, or while its entry is off the list, leaves its dead pid there, and the entry is not run again | `missed` in `PidsTrue`, `DeadPid` in `Respawned` |
| `init.c` 61: shutdown commands are started first | SIGTERM during a reload finds entries without a type | `ShutdownComplete` is about the list found |
| `mkbootfs.c` 21: directories named root are ignored | files are, too | `Wanted` |
| `mkbootfs.c` 137: the loop ends with the directory | or with an error of `readdir`; the rest of the directory is missing, and the status is 0 | `unread` in `Complete` |
| readme: `mkimg.sh` produces the image | the status of the pipe is gzip's, and output errors go unnoticed: half an archive gives an image and status 0 | `lost` and "died" in `Complete` |
| `mkimg.sh` 12: fails with mkimage | and with `rm`, when the image is whole | `MkImage` |
| `fdisk.c` 1445: a sector without the flag is warned about | after its contents were taken for a record: entries nobody planned | `Astray` in `TornFromPlans` |
| `mkrelease.sh` 18, 124 | the flags are created unchecked | last conjunct of `OneRun` |

### Bounds

* `MaxFaults = 2` lets a fault in one run meet a fault in the next one, which is what
  the leftovers of a failed run need; one is taken for `flash_faulty`, where the cards
  themselves make the script fail.  The number of runs is not bounded.
* `Polls = 2` instead of 10 has a poll that fails and one that is the last.
* The geometry is that of a 4 GB eMMC, sizes are real and sit on the limits.
* Sizes 0, 1 and 4 in the fdisk run give empty, one-cylinder and longer ranges,
  and 16 cylinders hold plans that fit exactly, nearly and not at all.
* Two rows of 18 pixels on a height of 40 scroll from the third line on and leave
  a remainder; a queue of two is full with one message and one tick.
* Three runs of fdisk let a torn run meet records of two earlier ones.  The layouts
  differ in one size each, so that the extended partition moves, keeps its start
  or changes only its end.  Three heads and two sectors are the smallest geometry
  of the assumption, where tracks and partitions touch.
* Two I/O errors let one that `mkbootfs` does not notice meet another one, there or in
  `mkimg.sh`.
* Three signals in `init_shipped` are one each to stop, reload and halt; the two of
  `init_reload` form every pair.  There the daemon of `rcS` is left out; `syslog`, which nobody
  waits for either, takes its place.  The pids are never used up.
* Traces of 3, 7 and 12 messages with four rows scroll or do not; a queue of two
  makes a sender wait.
* The trees have three levels, an empty directory, names that are prefixes of others
  and both kinds of skipped names; `MaxFiles = 5` files and directories open at a time
  are enough for one tree and not for two.
* Two rebuilds give files of three different builds.

`CHECK_DEADLOCK FALSE` is used where the program stops: fdisk exits, the machine goes
down, the scripts and `mkbootfs` end, and the display rests when no more messages
come.  The flash runs check for deadlock.

### Fairness

`Spec` of `FlashTool` has weak fairness of the script as a whole: it is one process and
each command it runs returns.  `Recovers` needs more, namely an operator who
sooner or later power-cycles a failed device (`PatientSpec`, strong fairness of
`Reboot`, since reruns may come between); it is only claimed under that name.
`UiServer` has weak fairness of the main thread, and strong fairness of
`progress_thread` and of `start_progress` taking the lock: a thread that finds a
lock or a place in the queue free again and again gets it some time.
`SpuriousWakeup`, errors and clients have none.
`InitProc` has weak fairness of init itself, of the SIGCONT that ends a stop, and of the
end of the process `waitfor` waits for: shutdown and sysinit commands come to an
end (`EveryRunEnds`), while shells and daemons may run for ever.  No signal and no
failure is fair.  `Boot` has weak fairness of the scripts and of the server, not of
`Die`.  The other modules state only safety.

## 4. Assumptions inside properties

`SuccessIntact` holds under conditions that the script does not establish and that the
property therefore names: with *repartition* the plan fits and images respect
their limits; without it the kernel's table is the one on the device and its
partitions do not overlap (`Disjoint`), which a torn repartition may leave behind.  An
image in a boot slot that a partition reaches into is excepted (`Apart`), the others are
not.  The empty file systems of p1 and p7 are claimed for partitions that neither an
image nor, when it is to be cleared, the environment reaches into (`EnvApartFrom`).
`UpdateConfined` assumes a free boot area, partitions that do not overlap, a u-boot that
stays below the environment, and of what is in the boot slots already that it fits
its slot (`SlotsKept`): what a larger one reached into would be overwritten by its
neighbour's update.

A command may stand in several versions of inittab with different types.
`ShellWaitsForSysinit`, `ShutdownOnce` and the count in `PidsTrue` are about commands that no
version lists with a type of another group (`Only`): a shell that an edited inittab
lists as sysinit, too, is started as both.
`InittabInForce` leaves out Ctrl-Alt-Del, which may overwrite a pending SIGHUP, as a
comment in `init.c` admits.  `PidsTrue` excepts the pid of a child that
`stop_handler` has reaped while no entry on the list held it (`missed`).  `Respawned` names the
only three states in which a shell stays away: a failed fork, such a dead pid, and
`Overslept`.  `ShutdownComplete` is about the list the handler finds and runs without a
failed fork; the list may lack an entry that is being moved.
`SpinnerTurns` holds until a system call fails the spinner's thread.  `TornFromPlans` is about the
partitions that fdisk reads from boot records, and says where its chain may leave them.
`Complete` is about what `readdir` has returned.
`NothingLost` is about a server that is up before the fifth second.  `AcceptedIsOneBuild` takes
a rebuild as one step: a build that is caught half done can give a mixed release
with matching sums, and nothing in the script could notice.

## 5. Proofs

Proved by TLAPS for all values of the constants that satisfy the assumptions of the
modules (section 2; TLC evaluates them on every instance).  Each proof has an inductive
invariant, a lemma that `Init` establishes it, one lemma or step per action that the
action preserves it, and a last step that combines them.

### flash.sh: `FlashTool_proofs`

For any cards, geometry, old tables, number of faults and polls.

* `MountNestingHolds`, `TargetIdleHolds`.  Neither property is inductive.  `MountInv` adds
  that the card is mounted from phase *mount* on, that the loop mount is absent in
  every such phase but *copy*, and which mounts exist at each step of *copy*.  A failure
  keeps nesting because `umount /src` fails under a loop mount; a rerun that finds
  the card mounted cannot pass *mount*.
* `OnlyVerifiedHolds`, an action property.  `VerifiedInv`: at step k of the check, the first
  k - 1 images match; after it the card is verified and stays so because it is not
  exchanged during a run.  Together with `MountInv` every write is covered.
* `RepartitionHolds`.  `RepartInv` adds that *check_partition* is only reached without the
  flag; later phases change neither table.
* `TypeCorrect`.  Split into `DiskOK` (regions and tables, with lemmas for the tables
  fdisk may write, `Write` and `MakeFs`) and `CtlOK` (control, with lemmas for leaving and
  continuing a loop).
* `UpdateConfinedHolds`, an action property.  `UpdateInv` says that a run without the flag
  never gets into a partitioning phase and that its images were found within their
  limits before the first write.  The rest is arithmetic: the five slots, the
  environment and disjoint partitions have disjoint extents (`SlotsApart`, `EnvApart`,
  `PartExtents`), so that a write reaches no region but its own.
* `SuccessIntactHolds`.  `IntactInv`: from *mkfs* on, under the conditions of the property
  (`Sound`), what the steps so far were to establish still holds (`Established`): every image
  already flashed is whole unless a partition reaches into it, the new file systems are
  empty, the environment is clear, the cache empty.  One lemma per phase shows that its
  step adds its own part and spares the others; `PlanDisjoint` gives the disjoint
  partitions of a plan that fits.  `EndInv` has the sync and the mounts.

### fdisk: `Fdisk_proofs`

For any device and any sizes of the spaces.

* `NoOverlapHolds`.  `PartsInv` (partitions lie on the device, logical ones have an extended
  one) and `AddInv` (a partition under construction has a free number and, once its start
  is accepted, a start that no partition of its kind takes).  `FreeRange` is the core:
  from a free start up to `ReachOf` there is no other partition.  Nothing is used of the
  lines read, so that it holds after the dialogue has lost step, too.
* `PlanRealisedHolds`.  `ScriptInv` follows the dialogue line by line: after i of the 32 lines
  fdisk is at the prompt the script means and has defined the planned partitions so far.
  A block of lines for one partition has one exception (`Asked`): a partition that can only have one
  cylinder is complete with its first answer, and the second one falls to the command
  prompt, which ignores it.  `RoomyIs` shows by the arithmetic of the plan that the start
  asked for is free, the end in reach, and that AUTO means the planned cylinder.
* `OvercommitHolds`.  Once the plan is too large the dialogue may lose step in many ways, depending
  on where the device ends.  `LostInv` covers them all in a coarser view: after i lines, only p1,
  p2 and p4 can exist or be under construction.  *Slot* is entered by the p of lines 2, 7 and 12
  or the e of line 17 (`LostKind`; fdisk never chooses a slot by itself, as p3 is free and p1
  and p4 do not both exist before line 17), and the lines it then reads name slots 2, 4, 1 or,
  after the e, none before line 30: too late, because lines 31 and 32 are no cylinder
  numbers, and nothing begun there is completed (`LostSlot`, `LostFinishes`).  The hard case is p1 beside p4: line 14 is beyond the device
  and refused, line 15 (AUTO) gives cylinder 1, from which there is room for more than one
  cylinder as every other partition starts at 3 or later (`LostFirst`); so *Last cylinder* reads
  the n of line 16 and the e of line 17 in vain.
* `MinIs`, that a nonempty set of naturals has a least element, comes from the
  library's well-founded induction; `MinOf` is a `CHOOSE`.

### Boot records: `BootRecords_proofs`

For any geometry of the assumption, any layouts that fit and any number of runs.

* `RecordsApartHolds`.  `AddedInv`: the partitions added so far are the first ones of `Placed`, the
  three records and partitions of the layout written out in sectors.  `FirstAdded`, `SecondAdded`
  and `ThirdAdded` follow the search, the room and the place of the record for each.  `Settle` is
  recursive without a measure (a bump may well go on for ever outside reachable
  states); `LoopExists` shows that a function with this equation exists all the same, from
  the orbits of the bumps, so that the definition may be unfolded.
* `ReadBackHolds`, `TornHolds`.  Neither is inductive, since what a reader finds depends on records
  of any earlier run.  `DeviceInv`: every record on the device is the k-th of a
  layout used so far, unaltered and at its place; after a complete run all three of this layout's are
  there.  `SameKind` makes that enough: the records of p5 begin a cylinder, those of p7 lie
  one sector further and those of p6 a track ahead of a cylinder, so that a sector
  tells which number of record it can hold, whatever the layout.  `Walk` follows the
  chain: the k-th sector is where some run was to have its k-th record, and holds one or
  is where the chain goes astray; there is no fourth one.  `RecordPlanIs` places the records, and for a
  layout that was complete once (`whole`) and never changed, they are still all there.  `Applied` is the
  effect of any subset of the writes; `PrimariesOut` and `LogicalsOut` show that use of the partitions
  takes no record of a complete table.

### ui_server: `UiServer_proofs`

For any screen, message lengths and queue length.

* `ProgressTracksLineHolds`, `NoStaleGlyphHolds`, `ThreadAliveHolds`: the invariant ties
  `prog_enable` and the spinner's cell to the cursor in each state of
  the main thread and says who holds the lock, and that before the socket is bound
  the flag is off and the thread has not passed its first test.
* `ScreenMatchesTextHolds`.  `TextInv`: heights decrease along the list, the cursor is below or
  behind every text.  `ScreenInv`: the screen is the image of the texts in view.
  `draw_message` stops at the first text above the screen, which misses nothing because the
  heights decrease (`DrawAll`); clearing the spinner's cell erases nothing (`NothingErased`).
* `TerminalImplemented`: `Spec` implies `ImplementsTerminal`, the specification of `Terminal` under the mapping.
  `RowInv` adds that the cursor stands on a whole row and that every row above it is
  filled; hence the rows on the screen form a sequence (`LinesKnown`).  A message continues the last line, adds one,
  or scrolls (`Continued`, `Added`, `Scrolled`); every other step leaves the rows alone.

### init: `InitProc_proofs`

For any set of inittabs, commands, pids, signals and failing forks.

* Lemma `Moves` sorts every step into twelve moves on the list and the children (`Reaps`, `Starts`,
  `Records`, `Fails`, `Disables`, `Reads`, `Unlinks`, `Relinks`, `Removes`, `Ends`, `Restarts`, `Calm`); the other
  lemmas are about the moves.
* `TypeCorrect`; `PidsTrueHolds`, `ShellWaitsHolds`, `ShutdownOnceHolds`, `ShutdownCompleteHolds`.  `ListInv`: a
  command has one entry, with a type some inittab gives it.  `MovingInv`: an entry off the list is
  that of the line being read, and no entry on the list has its command.  `ControlInv`: what `want`, `target` and `down` are at
  each place of the code.  `StaleInv`: during a reload a supervised command that has lost
  its type is on a line still to be read.  `Quiet`: no child is left where init re-reads
  inittab or goes off.  `RunInv`: who may run in which phase.  `PidInv`: pids, also the
  one about to be stored and that of the entry being moved, belong to children of that command
  or are in `missed`, and supervised children are recorded.  `DownInv`: the shutdown
  entries passed so far have run.
* `InittabHolds`.  The property compares the list with inittab itself: per command the last line
  counts, in the order of these lines.  `FileInv` follows the reading: after n lines the list
  has what the first n call for (`Follows`; `Almost`, but for the entry being moved), behind or among entries without a type; while stale
  entries are removed it has all of it (`Covers`); and a SIGHUP that changes inittab meanwhile is
  pending or about to be acted upon.  `NewLast` and `RemoveAtFacts` say where the entries go.

### mkbootfs: `MkBootfs_proofs`

For any command line of finite trees, any names and lengths, any limit on open files.

* `Shape` and `Buffers`: the buffers hold the path of the innermost directory, each frame the
  lengths up to its own.  Under them an entry that is printed has the right path and
  length (`VisitIs`), so that "ACK!" is out of reach.  This needs that `StrLen` adds up names and
  slashes; the recursion is shown to have one solution by least counterexample (`SumsExist`,
  `SumsAgree`).
* `Left` is what is still to be visited: the other arguments, and whatever is at or below a name
  that some frame holds.  `LeftTaken` shows that a visit takes one path out of it, its own, although
  the names of a whole directory are put on the stack; `LeftReturn` and `LeftOpens` that
  other steps take none.
* `ArchiveComplete`.  `Coverage`: as many entries as paths visited, one for each of them, and as
  many directories open as visited and arguments begun.  A path at or below a name that `readdir`
  withheld (`Missed`) is taken out of what is left when its directory is opened.  When the stack and the arguments are used
  up nothing is left.  `DeathHasCause` compares the number of open directories with the limit.
* `ArchiveReproducible`.  `Order`: every entry precedes what is left.  `TakenPrecedes`, from `Descent` and
  the choice of the least name, keeps it.
* `ArchiveReadable`.  `Ends`: the running total is where the last entry ends; `Descent`: each directory on the
  way down is in the archive.

### rcS and mkrelease.sh: `Boot_proofs`, `Release_proofs`

* `NothingLostHolds`, `FailureOnScreenHolds`, for any rows, queue length and sequences of messages.
  `WaitInv` relates the clock, the server and losses.  `BannerInv` follows the banner through
  what is still to be sent, the queue and the screen, as one sequence (`At`).  Of `flash.sh` it is assumed
  that its last message ends its line (`BootAssumption`), as all its exits do.
* `OneRunHolds`, `AcceptedHolds`, for any number of runs, builds and faults.  `OwnerInv`: whoever has
  passed the mkdir of *update* is its owner, and all files are the owner's.  `ProgressInv`: what
  exists at each step.  `SumsInv`: once everything is copied there is a build `b` such that
  all sums are of it or later, and the images either no longer change and are not newer, or
  change together, or one of them can never match again.

### Only model-checked

* All liveness properties: TLAPS 1.4.5 does not handle fairness or ENABLED.

## 6. How to run

    tlc -config FlashMixed.cfg MCFlash        # also FlashFaulty, FlashRecovery, FlashStaleKernel
    tlc -config Fdisk.cfg Fdisk
    tlc -config UiServer.cfg UiServer
    tlc -config Records.cfg MCRecords
    tlc -config InitShipped.cfg MCInit        # also InitReload
    tlc -config Boot.cfg MCBoot
    tlc -config Mkbootfs.cfg MCBootfs
    tlc -config ReleaseShared.cfg MCRelease
    tlapm FlashTool_proofs.tla                # also Fdisk_proofs, BootRecords_proofs,
                                              # UiServer_proofs, InitProc_proofs, Boot_proofs,
                                              # MkBootfs_proofs, Release_proofs

Every module has a `TypeOK`.  The one of `FlashTool` is checked by `flash_mixed`; the others
hold on the instances above.  Those of `FlashTool`, `InitProc` and `MkBootfs` are theorems, those of `Boot` and `Release`
part of the invariants there.

## 7. Plan

Done in the order of importance: `PartitionPlan`, `Fdisk`, `FlashTool`, `UiServer` with
`Terminal`, first proofs; then `BootRecords`, `InitProc`, `Boot`, `MkBootfs`, `Release`; then the
proofs of section 5.  Every safety property the passing runs check has a theorem; the
liveness properties stay with TLC.

An abstract specification of flashing (old, undefined, complete) was considered and
left out: under the conditions of section 4 it says no more than `SuccessIntact` and
`UpdateConfined`, and without them `flash.sh` does not implement it.

## 8. Not modelled

* `mkdevs.sh`, `fstab`, `profile` (straight-line set-up) and build files: no behaviour to
  check.  `android_filesystem_config.h`: `fix_stat` discards what it computes.
* busybox except for fdisk's dialogue and boot records, and init: vendored, over 250,000
  lines, of which the flash system uses a handful of applets; they appear through
  exit status and effect.  Within fdisk: other commands, other disk labels, expert
  mode.  Within init: consoles, utmp, the text of an inittab line, running as
  anything but process 1.
* Content of messages and logs, colours, wall-clock time, device node creation,
  a card pulled out while it is mounted.
