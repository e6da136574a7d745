------------------------------- MODULE Release -------------------------------
(***************************************************************************)
(* mkrelease.sh, which puts the directory update together that flash.sh    *)
(* later finds on the SD card.  Several runs may share source and output   *)
(* directory, a build may replace the sources at any time, a command may   *)
(* fail and a run may be interrupted.                                      *)
(*                                                                         *)
(* The content of a file is the number of the build it comes from; 0 is a  *)
(* file that is cut short or mixed from two builds.                        *)
(***************************************************************************)
EXTENDS Naturals, Sequences, FiniteSets

CONSTANTS
    Runs,        \* runs of the script
    Option,      \* their options: [good, ln, init]
    SourceSets,  \* the files that may be in the source directory
    OldUpdate,   \* BOOLEAN values: is there an update directory before?
    MaxBuilds,   \* bound: number of the last build
    MaxFaults    \* bound: failing commands and interrupted runs

flash_img == <<"uImage", "uramdisk.img", "uImage-recovery", "uramdisk-recovery.img", "system.img", "userdata.img">>
images    == <<"u-boot.img">> \o flash_img
FlashImages  == {flash_img[k] : k \in DOMAIN flash_img}
SourceImages == {images[k] : k \in DOMAIN images}
Needed == SourceImages \cup {"uramdisk-flash.img"}
Flags  == {"repartition", "clearubootenv"}

(* The files of a release, by directory, in the order the copies are made. *)
In(d, n) == [dir |-> d, name |-> n]
Copies == << In("bin", "uImage"), In("bin", "uramdisk.img"),
             In("images", "uImage"), In("images", "uramdisk.img"),
             In("images", "uImage-recovery"), In("images", "uramdisk-recovery.img"),
             In("images", "system.img"), In("images", "userdata.img"),
             In("boot", "u-boot.img") >>
Directories == <<"update", "boot", "bin", "images">>

ASSUME ReleaseAssumption ==
    /\ Runs \cap {"before", "nobody"} = {}
    /\ Option \in [Runs -> [good : BOOLEAN, ln : BOOLEAN, init : BOOLEAN]]
    /\ OldUpdate \subseteq BOOLEAN
    /\ MaxBuilds \in Nat \ {0} /\ MaxFaults \in Nat

VARIABLES
    sources, \* files in the source directory, constant in a behaviour
    build,   \* the build the sources come from
    pc,      \* where each run is
    step,    \* its loop index
    owner,   \* the run that made update, "before" or "nobody"
    dirs,    \* the directories that exist
    files,   \* the files of the release: [by, build, whole, linked]
    sums,    \* the lines of images/md5sum.txt: name to build
    list,    \* images/md5sum.txt exists
    flags,   \* flag files in images
    faults

vars == <<sources, build, pc, step, owner, dirs, files, sums, list, flags, faults>>
made == <<owner, dirs, files, sums, list, flags>>

Ended == {"failed", "success", "killed"}

Goto(r, p) == pc' = [pc EXCEPT ![r] = p] /\ step' = [step EXCEPT ![r] = 1]
Again(r)   == step' = [step EXCEPT ![r] = @ + 1] /\ UNCHANGED pc
Loop(r, n, p) == IF step[r] < n THEN Again(r) ELSE Goto(r, p)
Fault == faults > 0 /\ faults' = faults - 1
Put(f, x, v) == [y \in DOMAIN f \cup {x} |-> IF y = x THEN v ELSE f[y]]
Absent == [x \in {} |-> 0]

-----------------------------------------------------------------------------
(* The checks of the arguments and of the source directory.                *)
Check(r) ==
    /\ pc[r] = "check"
    /\ IF Option[r].good /\ Needed \subseteq sources THEN Goto(r, "dest") ELSE Goto(r, "failed")
    /\ UNCHANGED <<made, faults>>

(* test -d "$dest" && err_exit                                             *)
CheckDest(r) ==
    /\ pc[r] = "dest"
    /\ IF "update" \in dirs THEN Goto(r, "failed") ELSE Goto(r, "mkdir")
    /\ UNCHANGED <<made, faults>>

MkdirParents(r) ==
    /\ pc[r] = "mkdir"
    /\ LET d == Directories[step[r]]
       IN  dirs' = dirs \cup {d} /\ owner' = IF d = "update" THEN r ELSE owner
    /\ Loop(r, 4, "copy") /\ UNCHANGED <<files, sums, list, flags, faults>>

(* mkdir && mkdir && mkdir && mkdir || err_exit: one that exists fails.    *)
Mkdir(r) ==
    /\ pc[r] = "mkdir"
    /\ LET d == Directories[step[r]]
       IN  \/ /\ d \notin dirs /\ dirs' = dirs \cup {d}
              /\ owner' = IF d = "update" THEN r ELSE owner
              /\ Loop(r, 4, "copy") /\ UNCHANGED faults
           \/ /\ d \in dirs \/ faults > 0
              /\ faults' = IF d \in dirs THEN faults ELSE faults - 1
              /\ Goto(r, "failed") /\ UNCHANGED <<dirs, owner>>
    /\ UNCHANGED <<files, sums, list, flags>>

(* A copy is started: $CPCMD for the images to flash, cp for the others.   *)
Links(r, f) == f.dir = "images" /\ Option[r].ln
StartCopy(r) ==
    /\ pc[r] = "copy"
    /\ LET f == Copies[step[r]]
       IN  IF Links(r, f)
           THEN \/ /\ files' = Put(files, f, [by |-> r, build |-> build, whole |-> TRUE, linked |-> TRUE])
                   /\ Loop(r, Len(Copies), "sum") /\ UNCHANGED faults
                \/ Fault /\ Goto(r, "failed") /\ UNCHANGED files
           ELSE /\ files' = Put(files, f, [by |-> r, build |-> build, whole |-> FALSE, linked |-> FALSE])
                /\ pc' = [pc EXCEPT ![r] = "copying"] /\ UNCHANGED <<step, faults>>
    /\ UNCHANGED <<owner, dirs, sums, list, flags>>

(* cp ends, or fails and leaves what it has written: err_exit.             *)
EndCopy(r) ==
    /\ pc[r] = "copying"
    /\ LET f == Copies[step[r]]
       IN  \/ /\ files' = [files EXCEPT ![f].whole = TRUE] /\ UNCHANGED faults
              /\ IF step[r] < Len(Copies)
                 THEN pc' = [pc EXCEPT ![r] = "copy"] /\ step' = [step EXCEPT ![r] = @ + 1]
                 ELSE Goto(r, "sum")
           \/ Fault /\ Goto(r, "failed") /\ UNCHANGED files
    /\ UNCHANGED <<owner, dirs, sums, list, flags>>

SumOfCopies(r) ==
    /\ pc[r] = "sum" /\ "md5sum.txt" \notin sources
    /\ LET i == images[step[r]]
           f == [dir |-> "images", name |-> i]
       IN  /\ sums' = Put(sums, i, IF f \in DOMAIN files THEN files[f].build ELSE build)
           /\ list' = TRUE
    /\ Loop(r, Len(images), "flags") /\ UNCHANGED <<owner, dirs, files, flags, faults>>

(* md5sum.txt: the one of the sources is copied, or a line is appended for *)
(* each source image.  Nobody looks at what the commands return: a copy    *)
(* may be missing or cut short, an image that cannot be read gets a line   *)
(* without a sum, which flash.sh reads as no line.                         *)
Sum(r) ==
    /\ pc[r] = "sum"
    /\ IF "md5sum.txt" \in sources
       THEN /\ \/ /\ sums' = [i \in SourceImages |-> build] /\ list' = TRUE /\ UNCHANGED faults
               \/ Fault /\ UNCHANGED <<sums, list>>
               \/ /\ Fault /\ list' = TRUE
                  /\ \E k \in 0..Len(images) - 1 : sums' = [i \in {images[j] : j \in 1..k} |-> build]
            /\ Goto(r, "flags")
       ELSE /\ \/ sums' = Put(sums, images[step[r]], build) /\ list' = TRUE /\ UNCHANGED faults
               \/ Fault /\ list' \in {list, TRUE} /\ UNCHANGED sums
            /\ Loop(r, Len(images), "flags")
    /\ UNCHANGED <<owner, dirs, files, flags>>

(* touch, touch, unchecked; the script then reports success.               *)
Touch(r) ==
    /\ pc[r] = "flags"
    /\ IF Option[r].init
       THEN \/ flags' = Flags /\ UNCHANGED faults
            \/ Fault /\ \E x \in Flags : flags' = Flags \ {x}
       ELSE UNCHANGED <<flags, faults>>
    /\ Goto(r, "success") /\ UNCHANGED <<owner, dirs, files, sums, list>>

(* External: the operator interrupts a run.                                *)
Kill(r) == pc[r] \notin Ended /\ Fault /\ Goto(r, "killed") /\ UNCHANGED made

Run(r) == /\ Check(r) \/ CheckDest(r) \/ Mkdir(r) \/ StartCopy(r) \/ EndCopy(r)
             \/ Sum(r) \/ Touch(r) \/ Kill(r)
          /\ UNCHANGED <<sources, build>>

(* External: a build writes the sources (and their md5sum.txt) anew, all   *)
(* between two steps of the script, in place or as new files.  In place,   *)
(* links follow and a copy under way is mixed; new files leave both as     *)
(* they are.                                                               *)
Build ==
    /\ build < MaxBuilds /\ build' = build + 1
    /\ \/ files' = [f \in DOMAIN files |->
                      IF files[f].linked THEN [files[f] EXCEPT !.build = build']
                      ELSE IF ~files[f].whole THEN [files[f] EXCEPT !.build = 0] ELSE files[f]]
       \/ files' = [f \in DOMAIN files |-> [files[f] EXCEPT !.linked = FALSE]]
    /\ UNCHANGED <<sources, pc, step, owner, dirs, sums, list, flags, faults>>

Init ==
    /\ sources \in SourceSets /\ build = 1
    /\ pc = [r \in Runs |-> "check"] /\ step = [r \in Runs |-> 1]
    /\ \E old \in OldUpdate : /\ owner = (IF old THEN "before" ELSE "nobody")
                              /\ dirs = (IF old THEN {"update"} ELSE {})
    /\ files = Absent /\ sums = Absent /\ list = FALSE /\ flags = {}
    /\ faults = MaxFaults

Next == (\E r \in Runs : Run(r)) \/ Build

Spec == Init /\ [][Next]_vars

-----------------------------------------------------------------------------
Names == {Copies[k] : k \in DOMAIN Copies}

(* Runs, directories and files stay those of mkrelease.sh.                 *)
TypeOK ==
    /\ build \in 1..MaxBuilds
    /\ pc \in [Runs -> {"check", "dest", "mkdir", "copy", "copying", "sum", "flags"} \cup Ended]
    /\ step \in [Runs -> 1..Len(Copies)]
    /\ owner \in Runs \cup {"before", "nobody"}
    /\ dirs \subseteq {Directories[k] : k \in DOMAIN Directories}
    /\ DOMAIN files \subseteq Names
    /\ \A f \in DOMAIN files : files[f] \in [by : Runs, build : 0..MaxBuilds, whole : BOOLEAN, linked : BOOLEAN]
    /\ DOMAIN sums \subseteq SourceImages /\ \A i \in DOMAIN sums : sums[i] \in 1..MaxBuilds
    /\ list \in BOOLEAN /\ flags \subseteq Flags /\ faults \in 0..MaxFaults

InImages == {f \in DOMAIN files : f.dir = "images"}

(* flash.sh finds md5sum.txt and every image on the card has the sum in it *)
(* (flash.sh 406-428, 507-523).                                            *)
Accepted == list /\ \A f \in InImages : f.name \in DOMAIN sums /\ files[f].whole /\ files[f].build = sums[f.name]

(* However builds, failures and interruptions fall between the steps, a    *)
(* directory that the md5 check of flash.sh accepts holds all six images,  *)
(* whole and of one build (mkrelease.sh 99-116: the sums are taken from    *)
(* the sources after the last copy).                                       *)
AcceptedIsOneBuild ==
    Accepted => /\ {f.name : f \in InImages} = FlashImages
                /\ \A f, g \in InImages : files[f].build = files[g].build

(* All of a release comes from the run that made the directory, and runs   *)
(* that lose the race for it, or find it there, leave it alone: the mkdir  *)
(* decides, not the test before it (mkrelease.sh 82-92).  A run that       *)
(* reports success has made it and every directory and copy in it, none    *)
(* cut short (89-105), and the flags of an initial release unless a touch  *)
(* failed, which nobody tests (118-124).                                   *)
OneRun ==
    /\ \A f \in DOMAIN files : files[f].by = owner
    /\ \A r \in Runs : pc[r] = "success" =>
         /\ owner = r /\ Cardinality(dirs) = Len(Directories)
         /\ DOMAIN files = Names /\ \A f \in Names : files[f].whole
         /\ faults = MaxFaults => flags = IF Option[r].init THEN Flags ELSE {}
=============================================================================
