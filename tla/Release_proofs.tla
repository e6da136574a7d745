--------------------------- MODULE Release_proofs ---------------------------
(***************************************************************************)
(* mkrelease.sh for any number of concurrent runs, builds and failures:    *)
(* one run makes a release, and what flash.sh accepts is of one build.     *)
(***************************************************************************)
EXTENDS Release, TLAPS, FiniteSetTheorems

(* Runs behind the mkdir of update, the step that decides the race.        *)
Copying == {"copy", "copying"}
Complete == {"sum", "flags", "success"}
Passed(r) == pc[r] \in Copying \cup Complete \/ (pc[r] = "mkdir" /\ step[r] > 1)

(* The directory belongs to the one run that has passed, and to it alone.  *)
OwnerInv ==
    /\ \A r \in Runs : Passed(r) => owner = r
    /\ owner = "nobody" => "update" \notin dirs
    /\ "update" \notin dirs => owner = "nobody"
    /\ \A f \in DOMAIN files : files[f].by = owner

(* Directories and copies exist as far as the owner's loops have come.     *)
Made(k) == Copies[k] \in DOMAIN files /\ files[Copies[k]].whole
ProgressInv ==
    \A r \in Runs :
      /\ pc[r] = "mkdir" => step[r] \in 1..4 /\ \A k \in 1 .. step[r] - 1 : Directories[k] \in dirs
      /\ pc[r] \in Copying \cup Complete => \A k \in 1..4 : Directories[k] \in dirs
      /\ pc[r] \in Copying => \A k \in 1 .. step[r] - 1 : Made(k)
      /\ pc[r] = "copying" => Copies[step[r]] \in DOMAIN files
      /\ pc[r] = "sum" => step[r] \in 1..7
      /\ pc[r] \in Complete => \A k \in 1..9 : Made(k)

(* Flags are the owner's last act.                                         *)
FlagsInv ==
    /\ flags # {} => owner \in Runs /\ pc[owner] = "success"
    /\ \A r \in Runs : pc[r] = "success" /\ faults = MaxFaults =>
         flags = IF Option[r].init THEN Flags ELSE {}

(* A link has the content of the latest build.  A link that a build has    *)
(* cut off, and any copy, is older than or as old as that.                 *)
AgeInv ==
    \A f \in InImages :
      /\ files[f].build <= build
      /\ files[f].linked => files[f].whole /\ files[f].build = build
      /\ Option[owner].ln /\ ~files[f].linked => files[f].build < build
      /\ ~Option[owner].ln => ~files[f].linked

(* Once all copies are made, at build b say, sums are of b or later, while *)
(* the copies are of b or earlier, or all of them change together, or one  *)
(* of them has been left behind for good.                                  *)
Settled(b) ==
    /\ \A i \in DOMAIN sums : sums[i] >= b
    /\ \/ \A f \in InImages : ~files[f].linked /\ files[f].build <= b
       \/ \A f, g \in InImages : files[f].linked = files[g].linked /\ files[f].build = files[g].build
       \/ \E f \in InImages : ~files[f].linked /\ files[f].build < b
SumsInv ==
    /\ ~list => DOMAIN sums = {}
    /\ \A r \in Runs : Passed(r) /\ pc[r] \notin Complete => ~list
    /\ list \/ (\E r \in Runs : pc[r] \in Complete) =>
         (\A k \in 1..9 : Made(k)) /\ \E b \in 1..build : Settled(b)

Inv == TypeOK /\ OwnerInv /\ ProgressInv /\ FlagsInv /\ AgeInv /\ SumsInv

LEMMA CopiesFacts ==
    /\ Len(Copies) = 9 /\ DOMAIN Copies = 1..9
    /\ \A k \in 1..9 : Copies[k] \in [dir : {"bin", "images", "boot"}, name : SourceImages]
    /\ \A j, k \in 1..9 : Copies[j] = Copies[k] => j = k
    /\ {f.name : f \in {g \in Names : g.dir = "images"}} = FlashImages
<1>. USE DEF Copies, In
<1>2. SourceImages = {"u-boot.img", "uImage", "uramdisk.img", "uImage-recovery", "uramdisk-recovery.img", "system.img", "userdata.img"}
  BY DEF SourceImages, images, flash_img
<1>3. FlashImages = {"uImage", "uramdisk.img", "uImage-recovery", "uramdisk-recovery.img", "system.img", "userdata.img"}
  BY DEF FlashImages, flash_img
<1>4. Len(Copies) = 9 /\ DOMAIN Copies = 1..9
  OBVIOUS
<1>5. \A k \in 1..9 : Copies[k] \in [dir : {"bin", "images", "boot"}, name : SourceImages]
  BY <1>2
<1>6. \A j, k \in 1..9 : Copies[j] = Copies[k] => j = k
  OBVIOUS
<1>7. {f.name : f \in {g \in Names : g.dir = "images"}} = FlashImages
  BY <1>3, <1>4 DEF Names
<1>. QED  BY <1>4, <1>5, <1>6, <1>7

LEMMA NamesFacts ==
    /\ \A k \in 1..9 : Copies[k] \in Names
    /\ \A f \in Names : \E k \in 1..9 : f = Copies[k]
BY CopiesFacts DEF Names

LEMMA ImagesFacts ==
    /\ Len(images) = 7
    /\ \A k \in 1..7 : images[k] \in SourceImages
BY DEF images, SourceImages, flash_img

LEMMA DirectoriesFacts ==
    /\ Len(Directories) = 4 /\ DOMAIN Directories = 1..4
    /\ \A k \in 1..4 : Directories[k] = "update" <=> k = 1
    /\ {Directories[k] : k \in DOMAIN Directories} = {"update", "boot", "bin", "images"}
BY DEF Directories

(* The type invariant, one element at a time.                              *)
LEMMA TypeFacts ==
    ASSUME TypeOK
    PROVE  /\ build \in Nat /\ 1 <= build
           /\ \A r \in Runs : step[r] \in 1..9
           /\ \A f \in DOMAIN files : /\ files[f].by \in Runs /\ files[f].build \in Nat
                                      /\ files[f].whole \in BOOLEAN /\ files[f].linked \in BOOLEAN
           /\ \A i \in DOMAIN sums : sums[i] \in Nat
           /\ faults \in Nat /\ faults <= MaxFaults
<1>. USE CopiesFacts, ReleaseAssumption DEF TypeOK
<1>1. build \in Nat /\ 1 <= build
  OBVIOUS
<1>2. \A r \in Runs : step[r] \in 1..9
  OBVIOUS
<1>3. \A f \in DOMAIN files : /\ files[f].by \in Runs /\ files[f].build \in Nat
                              /\ files[f].whole \in BOOLEAN /\ files[f].linked \in BOOLEAN
  OBVIOUS
<1>4. \A i \in DOMAIN sums : sums[i] \in Nat
  OBVIOUS
<1>5. faults \in Nat /\ faults <= MaxFaults
  OBVIOUS
<1>. QED  BY <1>1, <1>2, <1>3, <1>4, <1>5

LEMMA InitInv == Init => Inv
<1>. SUFFICES ASSUME Init PROVE Inv
  OBVIOUS
<1>. USE ReleaseAssumption, CopiesFacts, DirectoriesFacts
<1>1. TypeOK
  <2>1. build \in 1..MaxBuilds /\ faults \in 0..MaxFaults /\ step \in [Runs -> 1..Len(Copies)]
    BY DEF Init
  <2>2. pc \in [Runs -> {"check", "dest", "mkdir", "copy", "copying", "sum", "flags"} \cup Ended]
    BY DEF Init
  <2>3. owner \in Runs \cup {"before", "nobody"} /\ dirs \subseteq {"update", "boot", "bin", "images"}
    BY DEF Init
  <2>4. DOMAIN files = {} /\ DOMAIN sums = {} /\ list \in BOOLEAN /\ flags \subseteq Flags
    BY DEF Init, Absent
  <2>. QED  BY <2>1, <2>2, <2>3, <2>4 DEF TypeOK
<1>2. OwnerInv
  BY DEF Init, OwnerInv, Passed, Copying, Complete, Absent
<1>3. ProgressInv
  BY DEF Init, ProgressInv, Copying, Complete
<1>4. FlagsInv
  BY DEF Init, FlagsInv
<1>5. AgeInv
  BY DEF Init, AgeInv, InImages, Absent
<1>6. SumsInv
  BY DEF Init, SumsInv, Absent, Complete
<1>. QED  BY <1>1, <1>2, <1>3, <1>4, <1>5, <1>6 DEF Inv

(* A run that has not got past the mkdir of update, or gives up, changes   *)
(* nothing but its own program counter and the faults left.                *)
LEMMA LeaveInv ==
    ASSUME Inv, NEW r \in Runs, NEW p \in {"dest", "mkdir", "failed", "killed"},
           pc[r] \notin Ended, Goto(r, p), UNCHANGED <<made, sources, build>>,
           faults' \in Nat, faults' <= faults
    PROVE  Inv'
<1>. USE TypeFacts, ReleaseAssumption DEF Inv
<1>1. /\ pc' = [pc EXCEPT ![r] = p] /\ step' = [step EXCEPT ![r] = 1]
      /\ owner' = owner /\ dirs' = dirs /\ files' = files /\ sums' = sums /\ list' = list
      /\ flags' = flags /\ build' = build
  BY DEF Goto, made
<1>2. /\ pc \in [Runs -> {"check", "dest", "mkdir", "copy", "copying", "sum", "flags"} \cup Ended]
      /\ step \in [Runs -> 1..9]
  BY CopiesFacts DEF TypeOK
<1>3. /\ pc'[r] = p /\ step'[r] = 1 /\ pc[r] # "success"
      /\ \A q \in Runs : q # r => pc'[q] = pc[q] /\ step'[q] = step[q]
  BY <1>1, <1>2 DEF Ended
<1>4. TypeOK'
  <2>1. pc' \in [Runs -> {"check", "dest", "mkdir", "copy", "copying", "sum", "flags"} \cup Ended]
    BY <1>1, <1>2 DEF Ended
  <2>2. step' \in [Runs -> 1..9]
    BY <1>1, <1>2
  <2>3. faults' \in 0..MaxFaults
    OBVIOUS
  <2>. QED  BY <1>1, <2>1, <2>2, <2>3, CopiesFacts DEF TypeOK
<1>5. OwnerInv'
  BY <1>1, <1>3 DEF OwnerInv, Passed, Copying, Complete
<1>6. ProgressInv'
  BY <1>1, <1>3 DEF ProgressInv, Made, Copying, Complete
<1>7. FlagsInv'
  BY <1>1, <1>3 DEF FlagsInv
<1>8. AgeInv'
  BY <1>1 DEF AgeInv, InImages
<1>9. SumsInv'
  <2>1. (\E q \in Runs : pc'[q] \in Complete) => \E q \in Runs : pc[q] \in Complete
    BY <1>3 DEF Complete
  <2>2. \A b : Settled(b)' <=> Settled(b)
    BY <1>1 DEF Settled, InImages
  <2>3. \A q \in Runs : Passed(q)' /\ pc'[q] \notin Complete => ~list
    BY <1>3 DEF SumsInv, Passed, Copying, Complete
  <2>. QED  BY <1>1, <2>1, <2>2, <2>3 DEF SumsInv, Made
<1>. QED  BY <1>4, <1>5, <1>6, <1>7, <1>8, <1>9

(* Where a loop of n steps goes on.                                        *)
LEMMA LoopMove ==
    ASSUME TypeOK, NEW r \in Runs, NEW n \in 1..9, NEW p, step[r] \in 1..n, Loop(r, n, p)
    PROVE  \/ /\ step[r] < n /\ step[r] + 1 \in 1..9
              /\ pc' = [pc EXCEPT ![r] = pc[r]] /\ step' = [step EXCEPT ![r] = step[r] + 1]
           \/ /\ step[r] = n
              /\ pc' = [pc EXCEPT ![r] = p] /\ step' = [step EXCEPT ![r] = 1]
<1>1. pc = [pc EXCEPT ![r] = pc[r]]
  BY DEF TypeOK
<1>. QED  BY <1>1 DEF Loop, Again, Goto

LEMMA MkdirInv ==
    ASSUME Inv, NEW r \in Runs, Mkdir(r), UNCHANGED <<sources, build>>
    PROVE  Inv'
<1>. USE TypeFacts, ReleaseAssumption, DirectoriesFacts DEF Inv
<1>0. pc[r] = "mkdir" /\ step[r] \in 1..4 /\ pc[r] \notin Ended
  BY DEF Mkdir, ProgressInv, Ended
<1>1. CASE /\ Goto(r, "failed") /\ UNCHANGED <<dirs, owner>>
           /\ faults' \in Nat /\ faults' <= faults
  BY <1>0, <1>1, LeaveInv DEF Mkdir, made
<1>2. ASSUME NEW d, d = Directories[step[r]], d \notin dirs, dirs' = dirs \cup {d},
             owner' = (IF d = "update" THEN r ELSE owner),
             Loop(r, 4, "copy"), faults' = faults
      PROVE  Inv'
  <2>0. files' = files /\ sums' = sums /\ list' = list /\ flags' = flags /\ build' = build
    BY DEF Mkdir
  <2>1. PICK p \in {"mkdir", "copy"}, n \in 1..9 :
           /\ pc' = [pc EXCEPT ![r] = p] /\ step' = [step EXCEPT ![r] = n]
           /\ \/ p = "mkdir" /\ step[r] < 4 /\ n = step[r] + 1
              \/ p = "copy" /\ step[r] = 4 /\ n = 1
    BY <1>0, <1>2, LoopMove
  <2>2. /\ pc' \in [Runs -> {"check", "dest", "mkdir", "copy", "copying", "sum", "flags"} \cup Ended]
        /\ step' \in [Runs -> 1..Len(Copies)]
        /\ pc'[r] = p /\ step'[r] = n
        /\ \A q \in Runs : q # r => pc'[q] = pc[q] /\ step'[q] = step[q]
    BY <2>1, CopiesFacts DEF TypeOK, Ended
  (* The first mkdir finds no owner, hence neither files nor flags.        *)
  <2>3. step[r] = 1 => /\ owner = "nobody" /\ DOMAIN files = {} /\ flags = {}
                       /\ \A q \in Runs : ~Passed(q)
    <3>. SUFFICES ASSUME step[r] = 1
                  PROVE  /\ owner = "nobody" /\ DOMAIN files = {} /\ flags = {}
                         /\ \A q \in Runs : ~Passed(q)
      OBVIOUS
    <3>1. owner = "nobody" /\ owner \notin Runs
      BY <1>2 DEF OwnerInv
    <3>2. DOMAIN files = {}
      BY <3>1 DEF OwnerInv
    <3>3. \A q \in Runs : ~Passed(q)
      BY <3>1 DEF OwnerInv
    <3>. QED  BY <3>1, <3>2, <3>3 DEF FlagsInv
  <2>4. step[r] = 1 => owner' = r
    BY <1>2
  <2>5. step[r] # 1 => owner = r /\ owner' = r
    BY <1>0, <1>2 DEF OwnerInv, Passed
  <2>6. owner' = r
    BY <2>4, <2>5
  <2>7. TypeOK'
    BY <1>0, <1>2, <2>0, <2>2, <2>6 DEF TypeOK
  <2>8. \A q \in Runs : q # r => ~Passed(q)
    BY <2>3, <2>5 DEF OwnerInv
  <2>9. OwnerInv'
    BY <1>0, <1>2, <2>0, <2>1, <2>2, <2>3, <2>5, <2>6, <2>8 DEF OwnerInv, Passed
  <2>10. ProgressInv'
    <3>. SUFFICES ASSUME NEW q \in Runs
                  PROVE  /\ pc'[q] = "mkdir" => step'[q] \in 1..4 /\ \A k \in 1 .. step'[q] - 1 : Directories[k] \in dirs'
                         /\ pc'[q] \in Copying \cup Complete => \A k \in 1..4 : Directories[k] \in dirs'
                         /\ pc'[q] \in Copying => \A k \in 1 .. step'[q] - 1 : Made(k)'
                         /\ pc'[q] = "copying" => Copies[step'[q]] \in DOMAIN files'
                         /\ pc'[q] = "sum" => step'[q] \in 1..7
                         /\ pc'[q] \in Complete => \A k \in 1..9 : Made(k)'
      BY DEF ProgressInv
    <3>1. CASE q # r
      BY <3>1, <1>2, <2>0, <2>2 DEF ProgressInv, Made
    <3>2. CASE q = r
      BY <3>2, <1>0, <1>2, <2>1, <2>2 DEF ProgressInv, Copying, Complete
    <3>. QED  BY <3>1, <3>2
  <2>11. FlagsInv'
    <3>1. flags # {} => FALSE
      BY <1>0, <2>3, <2>5 DEF FlagsInv
    <3>2. \A q \in Runs : pc'[q] # "success"
      BY <2>2, <2>8, <2>1 DEF Passed, Complete
    <3>. QED  BY <3>1, <3>2, <2>0 DEF FlagsInv
  <2>12. AgeInv'
    <3>1. CASE step[r] = 1
      BY <3>1, <2>0, <2>3 DEF AgeInv, InImages
    <3>2. CASE step[r] # 1
      BY <3>2, <2>0, <2>5 DEF AgeInv, InImages
    <3>. QED  BY <3>1, <3>2
  <2>13. SumsInv'
    <3>1. (\E q \in Runs : pc'[q] \in Complete) => \E q \in Runs : pc[q] \in Complete
      BY <2>1, <2>2 DEF Complete
    <3>2. \A b : Settled(b)' <=> Settled(b)
      BY <2>0 DEF Settled, InImages
    <3>3. ~list
      BY <1>0, <2>3, <2>5, CopiesFacts DEF SumsInv, Passed, Complete, Made
    <3>. QED  BY <2>0, <3>1, <3>2, <3>3 DEF SumsInv, Made
  <2>. QED  BY <2>7, <2>9, <2>10, <2>11, <2>12, <2>13
<1>. QED  BY <1>1, <1>2 DEF Mkdir


(* A run that copies owns the directory, and no other run has passed.      *)
LEMMA OwnerAlone ==
    ASSUME Inv, NEW r \in Runs, Passed(r)
    PROVE  owner = r /\ \A q \in Runs : q # r => ~Passed(q)
BY DEF Inv, OwnerInv

(* The invariant of the other runs, whatever the owner does to the files.  *)
LEMMA OthersProgress ==
    ASSUME Inv, NEW q \in Runs, ~Passed(q), pc'[q] = pc[q], step'[q] = step[q]
    PROVE  /\ pc'[q] \notin Copying \cup Complete
           /\ pc'[q] = "mkdir" => step'[q] = 1
           /\ ~Passed(q)'
BY TypeFacts DEF Inv, Passed

(* A step of the owner's copying that keeps what is copied.                *)
LEMMA CopyStep ==
    ASSUME Inv, NEW r \in Runs, pc[r] \in Copying,
           NEW p \in Copying \cup {"sum"}, NEW n \in 1..9,
           pc' \in [Runs -> {"check", "dest", "mkdir", "copy", "copying", "sum", "flags"} \cup Ended],
           step' \in [Runs -> 1..9], pc'[r] = p, step'[r] = n,
           \A q \in Runs : q # r => pc'[q] = pc[q] /\ step'[q] = step[q],
           build' = build, owner' = owner, dirs' = dirs, sums' = sums, list' = list,
           flags' = flags, faults' = faults,
           DOMAIN files' \subseteq Names,
           \A f \in DOMAIN files' :
             /\ files'[f] \in [by : Runs, build : 0..MaxBuilds, whole : BOOLEAN, linked : BOOLEAN]
             /\ files'[f].by = r,
           AgeInv',
           p \in Copying => \A k \in 1 .. n - 1 : Made(k)',
           p = "copying" => Copies[n] \in DOMAIN files',
           p = "sum" => n = 1 /\ \A k \in 1..9 : Made(k)'
    PROVE  Inv'
<1>. USE TypeFacts, ReleaseAssumption DEF Inv
<1>1. Passed(r) /\ owner = r /\ \A q \in Runs : q # r => ~Passed(q)
  BY OwnerAlone DEF Passed
<1>2. \A q \in Runs : q # r => /\ pc'[q] \notin Copying \cup Complete
                               /\ pc'[q] = "mkdir" => step'[q] = 1
                               /\ ~Passed(q)'
  BY <1>1, OthersProgress
<1>3. TypeOK'
  BY CopiesFacts DEF TypeOK
<1>4. OwnerInv'
  BY <1>1, <1>2 DEF OwnerInv
<1>5. ProgressInv'
  <2>. SUFFICES ASSUME NEW q \in Runs
                PROVE  /\ pc'[q] = "mkdir" => step'[q] \in 1..4 /\ \A k \in 1 .. step'[q] - 1 : Directories[k] \in dirs'
                       /\ pc'[q] \in Copying \cup Complete => \A k \in 1..4 : Directories[k] \in dirs'
                       /\ pc'[q] \in Copying => \A k \in 1 .. step'[q] - 1 : Made(k)'
                       /\ pc'[q] = "copying" => Copies[step'[q]] \in DOMAIN files'
                       /\ pc'[q] = "sum" => step'[q] \in 1..7
                       /\ pc'[q] \in Complete => \A k \in 1..9 : Made(k)'
    BY DEF ProgressInv
  <2>1. CASE q # r
    BY <2>1, <1>2 DEF Copying, Complete
  <2>2. CASE q = r
    BY <2>2 DEF ProgressInv, Copying, Complete
  <2>. QED  BY <2>1, <2>2
<1>6. FlagsInv'
  BY <1>1, <1>2 DEF FlagsInv, Copying, Complete
<1>7. SumsInv'
  <2>1. ~list /\ DOMAIN sums = {}
    BY <1>1 DEF SumsInv, Copying, Complete
  <2>2. \A q \in Runs : pc'[q] \in Complete => q = r /\ p = "sum"
    BY <1>2 DEF Copying, Complete
  <2>3. ASSUME p = "sum"
        PROVE  (\A k \in 1..9 : Made(k)') /\ \E b \in 1..build' : Settled(b)'
    <3>1. Option[owner'].ln \in BOOLEAN /\ build' \in Nat /\ build' \in 1..build'
      BY <1>1
    <3>2. \A f \in InImages' : /\ files'[f].build \in Nat /\ files'[f].linked \in BOOLEAN
                               /\ files'[f].build <= build'
                               /\ files'[f].linked => files'[f].build = build'
                               /\ Option[owner'].ln /\ ~files'[f].linked => files'[f].build < build'
                               /\ ~Option[owner'].ln => ~files'[f].linked
      BY <1>3 DEF AgeInv, InImages
    <3>3. Settled(build)'
      <4>1. CASE ~Option[owner'].ln
        BY <4>1, <2>1, <3>1, <3>2 DEF Settled
      <4>2. CASE Option[owner'].ln /\ \A f \in InImages' : files'[f].linked
        <5>1. \A f \in InImages' : files'[f].linked = TRUE /\ files'[f].build = build'
          BY <4>2, <3>2
        <5>. QED  BY <5>1, <2>1 DEF Settled
      <4>3. CASE Option[owner'].ln /\ \E f \in InImages' : ~files'[f].linked
        BY <4>3, <2>1, <3>2 DEF Settled
      <4>. QED  BY <3>1, <4>1, <4>2, <4>3
    <3>. QED  BY <2>3, <3>1, <3>3
  <2>. QED  BY <2>1, <2>2, <2>3 DEF SumsInv
<1>. QED  BY <1>3, <1>4, <1>5, <1>6, <1>7

(* The start of a copy: the file is the owner's, of the build that is.     *)
LEMMA StartCopyInv ==
    ASSUME Inv, NEW r \in Runs, StartCopy(r), UNCHANGED <<sources, build>>
    PROVE  Inv'
<1>. USE TypeFacts, ReleaseAssumption, CopiesFacts DEF Inv
<1>. DEFINE f == Copies[step[r]]
            w == Links(r, f)
            p == pc'[r]
            n == step'[r]
<1>0. /\ pc[r] = "copy" /\ pc[r] \in Copying /\ pc[r] \notin Ended /\ Passed(r)
      /\ step[r] \in 1..9 /\ f \in Names /\ f \in [dir : {"bin", "images", "boot"}, name : SourceImages]
      /\ owner' = owner /\ dirs' = dirs /\ sums' = sums /\ list' = list /\ flags' = flags /\ build' = build
  BY DEF StartCopy, Copying, Ended, Passed, Names
<1>1. owner = r
  BY <1>0, OwnerAlone
<1>2. \A k \in 1 .. step[r] - 1 : Made(k) /\ Copies[k] # f
  BY <1>0 DEF ProgressInv
<1>3. CASE Fault /\ Goto(r, "failed") /\ UNCHANGED files
  BY <1>3, <1>0, LeaveInv DEF Fault, made
<1>4. ASSUME files' = Put(files, f, [by |-> r, build |-> build, whole |-> w, linked |-> w]),
             p \in Copying \cup {"sum"}, n \in 1..9,
             pc' = [pc EXCEPT ![r] = p], step' = [step EXCEPT ![r] = n], faults' = faults,
             \/ w /\ p = "copy" /\ step[r] < 9 /\ n = step[r] + 1
             \/ w /\ p = "sum" /\ step[r] = 9 /\ n = 1
             \/ ~w /\ p = "copying" /\ n = step[r]
      PROVE  Inv'
  <2>0. w \in BOOLEAN
    BY <1>0 DEF Links
  <2>1. /\ DOMAIN files' = DOMAIN files \cup {f}
        /\ files'[f] = [by |-> r, build |-> build, whole |-> w, linked |-> w]
        /\ \A g \in DOMAIN files : g # f => files'[g] = files[g]
    BY <1>4 DEF Put
  <2>2. /\ pc' \in [Runs -> {"check", "dest", "mkdir", "copy", "copying", "sum", "flags"} \cup Ended]
        /\ step' \in [Runs -> 1..9]
        /\ pc'[r] = p /\ step'[r] = n
        /\ \A q \in Runs : q # r => pc'[q] = pc[q] /\ step'[q] = step[q]
    <3>. HIDE DEF p, n
    <3>1. /\ pc' \in [Runs -> {"check", "dest", "mkdir", "copy", "copying", "sum", "flags"} \cup Ended]
          /\ step' \in [Runs -> 1..9]
      BY <1>4 DEF TypeOK, Ended, Copying
    <3>2. \A q \in Runs : q # r => pc'[q] = pc[q] /\ step'[q] = step[q]
      BY <1>4 DEF TypeOK
    <3>. QED  BY <3>1, <3>2 DEF p, n
  <2>3. DOMAIN files' \subseteq Names
    BY <1>0, <2>1 DEF TypeOK
  <2>4. \A g \in DOMAIN files' :
          /\ files'[g] \in [by : Runs, build : 0..MaxBuilds, whole : BOOLEAN, linked : BOOLEAN]
          /\ files'[g].by = r
    <3>. HIDE DEF w, f
    <3>1. files'[f] \in [by : Runs, build : 0..MaxBuilds, whole : BOOLEAN, linked : BOOLEAN] /\ files'[f].by = r
      BY <1>0, <2>0, <2>1 DEF TypeOK
    <3>. QED  BY <1>1, <3>1, <2>1 DEF TypeOK, OwnerInv
  <2>5. AgeInv'
    BY <1>0, <1>1, <1>4, <2>1 DEF AgeInv, InImages, Links
  <2>6. \A k \in 1 .. step[r] - 1 : Made(k)'
    BY <1>2, <2>1 DEF Made
  <2>7. w => \A k \in 1 .. step[r] : Made(k)'
    BY <1>0, <2>1, <2>6 DEF Made
  <2>8. p \in Copying => \A k \in 1 .. n - 1 : Made(k)'
    BY <1>0, <1>4, <2>6, <2>7 DEF Copying
  <2>9. p = "copying" => Copies[n] \in DOMAIN files'
    BY <1>4, <2>1
  <2>10. p = "sum" => n = 1 /\ \A k \in 1..9 : Made(k)'
    BY <1>0, <1>4, <2>6, <2>7
  <2>. QED  BY <1>0, <1>4, <2>2, <2>3, <2>4, <2>5, <2>8, <2>9, <2>10, CopyStep
<1>5. CASE Links(r, f) /\ ~(Fault /\ Goto(r, "failed") /\ UNCHANGED files)
  <2>1. /\ files' = Put(files, f, [by |-> r, build |-> build, whole |-> TRUE, linked |-> TRUE])
        /\ Loop(r, 9, "sum") /\ faults' = faults
    BY <1>5 DEF StartCopy
  <2>2. \/ /\ step[r] < 9 /\ step[r] + 1 \in 1..9
           /\ pc' = [pc EXCEPT ![r] = "copy"] /\ step' = [step EXCEPT ![r] = step[r] + 1]
        \/ /\ step[r] = 9
           /\ pc' = [pc EXCEPT ![r] = "sum"] /\ step' = [step EXCEPT ![r] = 1]
    BY <1>0, <2>1, LoopMove
  <2>3. w = TRUE
    BY <1>0, <1>5 DEF Links
  <2>4. /\ p \in {"copy", "sum"} /\ n \in 1..9
        /\ pc' = [pc EXCEPT ![r] = p] /\ step' = [step EXCEPT ![r] = n]
        /\ \/ p = "copy" /\ step[r] < 9 /\ n = step[r] + 1
           \/ p = "sum" /\ step[r] = 9 /\ n = 1
    BY <2>2 DEF TypeOK
  <2>. HIDE DEF w, p, n
  <2>. QED  BY <2>1, <2>3, <2>4, <1>4 DEF Copying
<1>6. CASE ~Links(r, f)
  <2>1. /\ files' = Put(files, f, [by |-> r, build |-> build, whole |-> FALSE, linked |-> FALSE])
        /\ pc' = [pc EXCEPT ![r] = "copying"] /\ step' = step /\ faults' = faults
    BY <1>6 DEF StartCopy
  <2>2. step' = [step EXCEPT ![r] = step[r]]
    BY <2>1 DEF TypeOK
  <2>3. w = FALSE
    BY <1>0, <1>6 DEF Links
  <2>4. /\ p = "copying" /\ n = step[r] /\ n \in 1..9
        /\ pc' = [pc EXCEPT ![r] = p] /\ step' = [step EXCEPT ![r] = n]
    BY <2>1, <2>2 DEF TypeOK
  <2>. HIDE DEF w, p, n
  <2>. QED  BY <2>1, <2>3, <2>4, <1>4 DEF Copying
<1>. QED  BY <1>3, <1>5, <1>6 DEF StartCopy

LEMMA EndCopyInv ==
    ASSUME Inv, NEW r \in Runs, EndCopy(r), UNCHANGED <<sources, build>>
    PROVE  Inv'
<1>. USE TypeFacts, ReleaseAssumption, CopiesFacts DEF Inv
<1>. DEFINE f == Copies[step[r]]
<1>0. /\ pc[r] = "copying" /\ pc[r] \in Copying /\ pc[r] \notin Ended /\ Passed(r)
      /\ step[r] \in 1..9 /\ f \in DOMAIN files
      /\ owner' = owner /\ dirs' = dirs /\ sums' = sums /\ list' = list /\ flags' = flags /\ build' = build
  BY DEF EndCopy, Copying, Ended, Passed, ProgressInv
<1>1. owner = r
  BY <1>0, OwnerAlone
<1>2. \A k \in 1 .. step[r] - 1 : Made(k)
  BY <1>0 DEF ProgressInv
<1>3. CASE Fault /\ Goto(r, "failed") /\ UNCHANGED files
  BY <1>3, <1>0, LeaveInv DEF Fault, made
<1>4. ASSUME files' = [files EXCEPT ![f].whole = TRUE], faults' = faults,
             NEW p \in {"copy", "sum"}, NEW n \in 1..9,
             pc' = [pc EXCEPT ![r] = p], step' = [step EXCEPT ![r] = n],
             \/ p = "copy" /\ step[r] < 9 /\ n = step[r] + 1
             \/ p = "sum" /\ step[r] = 9 /\ n = 1
      PROVE  Inv'
  <2>1. /\ DOMAIN files' = DOMAIN files
        /\ files'[f] = [files[f] EXCEPT !.whole = TRUE]
        /\ \A g \in DOMAIN files : g # f => files'[g] = files[g]
    BY <1>0, <1>4
  <2>2. /\ pc' \in [Runs -> {"check", "dest", "mkdir", "copy", "copying", "sum", "flags"} \cup Ended]
        /\ step' \in [Runs -> 1..9]
        /\ pc'[r] = p /\ step'[r] = n
        /\ \A q \in Runs : q # r => pc'[q] = pc[q] /\ step'[q] = step[q]
    BY <1>4 DEF TypeOK, Ended
  <2>3. files[f] \in [by : Runs, build : 0..MaxBuilds, whole : BOOLEAN, linked : BOOLEAN]
    BY <1>0 DEF TypeOK
  <2>4. /\ files'[f] \in [by : Runs, build : 0..MaxBuilds, whole : BOOLEAN, linked : BOOLEAN]
        /\ files'[f].whole /\ files'[f].by = files[f].by /\ files'[f].build = files[f].build
        /\ files'[f].linked = files[f].linked
    BY <2>1, <2>3
  <2>5. \A g \in DOMAIN files' :
          /\ files'[g] \in [by : Runs, build : 0..MaxBuilds, whole : BOOLEAN, linked : BOOLEAN]
          /\ files'[g].by = r
    BY <1>1, <2>1, <2>4 DEF TypeOK, OwnerInv
  <2>6. AgeInv'
    BY <1>0, <2>1, <2>4 DEF AgeInv, InImages
  <2>7. \A k \in 1 .. step[r] : Made(k)'
    BY <1>0, <1>2, <2>1, <2>4 DEF Made
  <2>8. p \in Copying => \A k \in 1 .. n - 1 : Made(k)'
    BY <1>0, <1>4, <2>7 DEF Copying
  <2>9. p = "sum" => n = 1 /\ \A k \in 1..9 : Made(k)'
    BY <1>0, <1>4, <2>7
  <2>10. p \in Copying \cup {"sum"} /\ p # "copying" /\ DOMAIN files' \subseteq Names
    BY <2>1 DEF Copying, TypeOK
  <2>. QED  BY <1>0, <1>4, <2>2, <2>5, <2>6, <2>8, <2>9, <2>10, CopyStep
<1>5. CASE /\ files' = [files EXCEPT ![f].whole = TRUE] /\ faults' = faults
           /\ IF step[r] < Len(Copies)
              THEN pc' = [pc EXCEPT ![r] = "copy"] /\ step' = [step EXCEPT ![r] = @ + 1]
              ELSE Goto(r, "sum")
  <2>1. CASE step[r] < 9
    BY <2>1, <1>0, <1>5, <1>4
  <2>2. CASE step[r] = 9
    BY <2>2, <1>0, <1>5, <1>4 DEF Goto
  <2>. QED  BY <1>0, <2>1, <2>2
<1>. QED  BY <1>3, <1>5 DEF EndCopy

(* What the owner does once the copies are made: sums and flags.           *)
LEMMA TailStep ==
    ASSUME Inv, NEW r \in Runs, pc[r] \in {"sum", "flags"},
           NEW p \in Complete, NEW n \in 1..7,
           pc' = [pc EXCEPT ![r] = p], step' = [step EXCEPT ![r] = n],
           build' = build, owner' = owner, dirs' = dirs, files' = files,
           faults' \in Nat, faults' <= faults,
           list' \in BOOLEAN, list => list', ~list' => sums' = sums,
           DOMAIN sums' \subseteq SourceImages,
           \A i \in DOMAIN sums' : sums'[i] = build \/ (i \in DOMAIN sums /\ sums'[i] = sums[i]),
           flags' \subseteq Flags, p # "success" => flags' = flags,
           p = "success" /\ faults' = MaxFaults => flags' = IF Option[r].init THEN Flags ELSE {}
    PROVE  Inv'
<1>. USE TypeFacts, ReleaseAssumption DEF Inv
<1>1. /\ pc' \in [Runs -> {"check", "dest", "mkdir", "copy", "copying", "sum", "flags"} \cup Ended]
      /\ step' \in [Runs -> 1..9]
      /\ pc'[r] = p /\ step'[r] = n
      /\ \A q \in Runs : q # r => pc'[q] = pc[q] /\ step'[q] = step[q]
  BY CopiesFacts DEF TypeOK, Ended, Complete
<1>2. Passed(r) /\ owner = r /\ \A q \in Runs : q # r => ~Passed(q)
  BY OwnerAlone DEF Passed, Complete
<1>3. \A q \in Runs : q # r => /\ pc'[q] \notin Copying \cup Complete
                               /\ pc'[q] = "mkdir" => step'[q] = 1
                               /\ ~Passed(q)'
  BY <1>1, <1>2, OthersProgress
<1>4. /\ \A k \in 1..9 : Made(k) /\ Made(k)'
      /\ \A k \in 1..4 : Directories[k] \in dirs
  BY DEF ProgressInv, Complete, Made
<1>5. TypeOK'
  <2>1. \A i \in DOMAIN sums' : sums'[i] \in 1..MaxBuilds
    BY DEF TypeOK
  <2>2. faults' \in 0..MaxFaults
    OBVIOUS
  <2>. QED  BY <1>1, <2>1, <2>2, CopiesFacts DEF TypeOK
<1>6. OwnerInv'
  BY <1>2, <1>3 DEF OwnerInv
<1>7. ProgressInv'
  <2>. SUFFICES ASSUME NEW q \in Runs
                PROVE  /\ pc'[q] = "mkdir" => step'[q] \in 1..4 /\ \A k \in 1 .. step'[q] - 1 : Directories[k] \in dirs'
                       /\ pc'[q] \in Copying \cup Complete => \A k \in 1..4 : Directories[k] \in dirs'
                       /\ pc'[q] \in Copying => \A k \in 1 .. step'[q] - 1 : Made(k)'
                       /\ pc'[q] = "copying" => Copies[step'[q]] \in DOMAIN files'
                       /\ pc'[q] = "sum" => step'[q] \in 1..7
                       /\ pc'[q] \in Complete => \A k \in 1..9 : Made(k)'
    BY DEF ProgressInv
  <2>1. CASE q # r
    BY <2>1, <1>3 DEF Copying, Complete
  <2>2. CASE q = r
    BY <2>2, <1>1, <1>4 DEF Copying, Complete
  <2>. QED  BY <2>1, <2>2
<1>8. FlagsInv'
  <2>1. p # "success" => flags' = {}
    BY <1>2 DEF FlagsInv
  <2>2. \A q \in Runs : pc'[q] = "success" => q = r /\ p = "success"
    BY <1>1, <1>3 DEF Complete
  <2>. QED  BY <1>1, <1>2, <2>1, <2>2 DEF FlagsInv
<1>9. AgeInv'
  BY DEF AgeInv, InImages
<1>10. SumsInv'
  <2>1. PICK b \in 1..build : Settled(b)
    BY DEF SumsInv, Complete
  <2>2. \A i \in DOMAIN sums' : sums'[i] >= b
    BY <2>1 DEF Settled
  <2>3. InImages' = InImages
    BY DEF InImages
  <2>4. Settled(b)'
    BY <2>1, <2>2, <2>3 DEF Settled
  <2>5. ~list' => DOMAIN sums' = {}
    BY DEF SumsInv
  <2>6. \A q \in Runs : Passed(q)' => pc'[q] \in Complete
    BY <1>1, <1>3
  <2>. QED  BY <1>4, <2>4, <2>5, <2>6 DEF SumsInv
<1>. QED  BY <1>5, <1>6, <1>7, <1>8, <1>9, <1>10

LEMMA SumInv ==
    ASSUME Inv, NEW r \in Runs, Sum(r), UNCHANGED <<sources, build>>
    PROVE  Inv'
<1>. USE TypeFacts, ReleaseAssumption, ImagesFacts DEF Inv
<1>1. /\ pc[r] = "sum" /\ pc[r] \in Complete /\ step[r] \in 1..7 /\ Passed(r) /\ owner = r
      /\ owner' = owner /\ dirs' = dirs /\ files' = files /\ flags' = flags /\ build' = build
  BY DEF Sum, ProgressInv, OwnerInv, Passed, Complete
<1>2. faults' \in Nat /\ faults' <= faults
  <2>1. faults' = faults \/ Fault
    BY DEF Sum
  <2>. QED  BY <2>1 DEF Fault
<1>3. list' \in BOOLEAN /\ (list => list') /\ (~list' => sums' = sums)
  BY DEF Sum, TypeOK
<1>4. /\ DOMAIN sums' \subseteq SourceImages
      /\ \A i \in DOMAIN sums' : sums'[i] = build \/ (i \in DOMAIN sums /\ sums'[i] = sums[i])
  <2>1. CASE sums' = sums
    BY <2>1 DEF TypeOK
  <2>2. CASE sums' = [i \in SourceImages |-> build]
    BY <2>2
  <2>3. CASE \E k \in 0..Len(images) - 1 : sums' = [i \in {images[j] : j \in 1..k} |-> build]
    <3>1. PICK k \in 0..6 : sums' = [i \in {images[j] : j \in 1..k} |-> build]
      BY <2>3
    <3>. QED  BY <3>1
  <2>4. CASE sums' = Put(sums, images[step[r]], build)
    BY <2>4, <1>1 DEF Put, TypeOK
  <2>. QED  BY <2>1, <2>2, <2>3, <2>4 DEF Sum
<1>5. PICK p \in {"sum", "flags"}, n \in 1..7 : pc' = [pc EXCEPT ![r] = p] /\ step' = [step EXCEPT ![r] = n]
  <2>1. CASE Goto(r, "flags")
    BY <2>1 DEF Goto
  <2>2. CASE Loop(r, 7, "flags")
    BY <2>2, <1>1, LoopMove
  <2>. QED  BY <2>1, <2>2 DEF Sum
<1>6. p \in Complete /\ flags' \subseteq Flags
  BY <1>1 DEF Complete, TypeOK
<1>. QED  BY <1>1, <1>2, <1>3, <1>4, <1>5, <1>6, TailStep

LEMMA TouchInv ==
    ASSUME Inv, NEW r \in Runs, Touch(r), UNCHANGED <<sources, build>>
    PROVE  Inv'
<1>. USE TypeFacts, ReleaseAssumption DEF Inv
<1>1. /\ pc[r] = "flags" /\ Passed(r) /\ owner = r
      /\ owner' = owner /\ dirs' = dirs /\ files' = files /\ sums' = sums /\ list' = list /\ build' = build
      /\ pc' = [pc EXCEPT ![r] = "success"] /\ step' = [step EXCEPT ![r] = 1]
  BY DEF Touch, OwnerInv, Passed, Complete, Goto
<1>2. flags = {}
  BY <1>1 DEF FlagsInv
<1>3. /\ faults' \in Nat /\ faults' <= faults /\ flags' \subseteq Flags
      /\ faults' = MaxFaults => flags' = IF Option[r].init THEN Flags ELSE {}
  BY <1>2 DEF Touch, Fault
<1>4. "success" \in Complete /\ 1 \in 1..7 /\ list \in BOOLEAN /\ DOMAIN sums \subseteq SourceImages
  BY DEF Complete, TypeOK
<1>. QED  BY <1>1, <1>3, <1>4, TailStep

(* All nine copies made: that is the release.                              *)
LEMMA WholeRelease ==
    ASSUME TypeOK, \A k \in 1..9 : Made(k)
    PROVE  DOMAIN files = Names /\ \A f \in Names : files[f].whole
<1>1. ASSUME NEW f \in Names
      PROVE  f \in DOMAIN files /\ files[f].whole
  <2>1. PICK k \in 1..9 : f = Copies[k]
    BY <1>1, NamesFacts
  <2>. QED  BY <2>1 DEF Made
<1>2. DOMAIN files \subseteq Names
  BY DEF TypeOK
<1>. QED  BY <1>1, <1>2

(* A build changes the links together and, among copies that are whole,    *)
(* nothing else.                                                           *)
LEMMA BuildInv ==
    ASSUME Inv, Build
    PROVE  Inv'
<1>. USE TypeFacts, ReleaseAssumption DEF Inv
<1>1. /\ build' = build + 1 /\ build' \in 1..MaxBuilds /\ build' \in Nat
      /\ pc' = pc /\ step' = step /\ owner' = owner /\ dirs' = dirs /\ sums' = sums /\ list' = list
      /\ flags' = flags /\ faults' = faults
  BY DEF Build
<1>2. /\ DOMAIN files' = DOMAIN files
      /\ \A f \in DOMAIN files :
           /\ files'[f] \in [by : Runs, build : 0..MaxBuilds, whole : BOOLEAN, linked : BOOLEAN]
           /\ files'[f].by = files[f].by /\ files'[f].whole = files[f].whole
           /\ ~files[f].linked => ~files'[f].linked
           /\ ~files[f].linked /\ files[f].whole => files'[f].build = files[f].build
           /\ ~files[f].linked => files'[f].build <= files[f].build
      /\ \/ \A f \in DOMAIN files : files[f].linked => files'[f].linked /\ files'[f].build = build'
         \/ \A f \in DOMAIN files : ~files'[f].linked /\ files'[f].build = files[f].build
  <2>0. \A f \in DOMAIN files : files[f] \in [by : Runs, build : 0..MaxBuilds, whole : BOOLEAN, linked : BOOLEAN]
    BY DEF TypeOK
  <2>1. CASE files' = [f \in DOMAIN files |->
                         IF files[f].linked THEN [files[f] EXCEPT !.build = build']
                         ELSE IF ~files[f].whole THEN [files[f] EXCEPT !.build = 0] ELSE files[f]]
    BY <2>0, <2>1, <1>1
  <2>2. CASE files' = [f \in DOMAIN files |-> [files[f] EXCEPT !.linked = FALSE]]
    <3>1. \A f \in DOMAIN files : files'[f] = [files[f] EXCEPT !.linked = FALSE]
      BY <2>2
    <3>2. \A f \in DOMAIN files : /\ files'[f] \in [by : Runs, build : 0..MaxBuilds, whole : BOOLEAN, linked : BOOLEAN]
                                  /\ files'[f].by = files[f].by /\ files'[f].whole = files[f].whole
                                  /\ files'[f].build = files[f].build /\ ~files'[f].linked
      <4>. TAKE f \in DOMAIN files
      <4>. DEFINE o == files[f]
      <4>1. o \in [by : Runs, build : 0..MaxBuilds, whole : BOOLEAN, linked : BOOLEAN]
        BY <2>0
      <4>2. files'[f] = [o EXCEPT !.linked = FALSE]
        BY <3>1
      <4>. HIDE DEF o
      <4>3. /\ [o EXCEPT !.linked = FALSE] \in [by : Runs, build : 0..MaxBuilds, whole : BOOLEAN, linked : BOOLEAN]
            /\ [o EXCEPT !.linked = FALSE].by = o.by /\ [o EXCEPT !.linked = FALSE].whole = o.whole
            /\ [o EXCEPT !.linked = FALSE].build = o.build /\ ~[o EXCEPT !.linked = FALSE].linked
        BY <4>1
      <4>. QED  BY <4>2, <4>3 DEF o
    <3>. QED  BY <2>2, <3>2
  <2>. QED  BY <2>1, <2>2 DEF Build
<1>3. TypeOK'
  BY <1>1, <1>2 DEF TypeOK
<1>4. InImages' = InImages /\ InImages \subseteq DOMAIN files
  BY <1>2 DEF InImages
<1>5. OwnerInv'
  BY <1>1, <1>2 DEF OwnerInv, Passed
<1>6. \A k : Made(k)' <=> Made(k)
  BY <1>2 DEF Made
<1>7. ProgressInv'
  BY <1>1, <1>2, <1>6 DEF ProgressInv
<1>8. FlagsInv'
  BY <1>1 DEF FlagsInv
<1>9. AgeInv'
  BY <1>1, <1>2, <1>4 DEF AgeInv
<1>10. SumsInv'
  <2>. SUFFICES ASSUME list \/ \E r \in Runs : pc[r] \in Complete
                PROVE  \E b \in 1..build' : Settled(b)'
    BY <1>1, <1>6 DEF SumsInv, Passed
  <2>1. PICK b \in 1..build : Settled(b)
    BY DEF SumsInv
  <2>2. \A f \in InImages : files[f].whole
    BY <1>4, WholeRelease DEF SumsInv
  <2>3. Settled(b)'
    <3>1. \A i \in DOMAIN sums' : sums'[i] >= b
      BY <1>1, <2>1 DEF Settled
    <3>2. CASE \A f \in InImages : ~files[f].linked /\ files[f].build <= b
      BY <3>1, <3>2, <1>2, <1>4, <2>2 DEF Settled
    <3>3. CASE \A f, g \in InImages : files[f].linked = files[g].linked /\ files[f].build = files[g].build
      <4>1. \A f, g \in InImages : files'[f].linked = files'[g].linked /\ files'[f].build = files'[g].build
        BY <3>3, <1>2, <1>4, <2>2
      <4>. QED  BY <3>1, <4>1, <1>4 DEF Settled
    <3>4. CASE \E f \in InImages : ~files[f].linked /\ files[f].build < b
      BY <3>1, <3>4, <1>2, <1>4, <2>2 DEF Settled
    <3>. QED  BY <2>1, <3>2, <3>3, <3>4 DEF Settled
  <2>. QED  BY <1>1, <2>3
<1>. QED  BY <1>3, <1>5, <1>7, <1>8, <1>9, <1>10

LEMMA StutterInv ==
    ASSUME Inv, UNCHANGED vars
    PROVE  Inv'
BY DEF vars, Inv, TypeOK, OwnerInv, Passed, ProgressInv, Made, FlagsInv, AgeInv, InImages, SumsInv, Settled

LEMMA NextInv ==
    ASSUME Inv, [Next]_vars
    PROVE  Inv'
<1>1. ASSUME NEW r \in Runs, Run(r)
      PROVE  Inv'
  <2>0. UNCHANGED <<sources, build>> /\ faults \in Nat
    BY <1>1, TypeFacts DEF Run, Inv
  <2>1. CASE Check(r)
    BY <2>0, <2>1, LeaveInv DEF Check, Ended
  <2>2. CASE CheckDest(r)
    BY <2>0, <2>2, LeaveInv DEF CheckDest, Ended
  <2>3. CASE Mkdir(r)
    BY <2>0, <2>3, MkdirInv
  <2>4. CASE StartCopy(r)
    BY <2>0, <2>4, StartCopyInv
  <2>5. CASE EndCopy(r)
    BY <2>0, <2>5, EndCopyInv
  <2>6. CASE Sum(r)
    BY <2>0, <2>6, SumInv
  <2>7. CASE Touch(r)
    BY <2>0, <2>7, TouchInv
  <2>8. CASE Kill(r)
    <3>1. faults' \in Nat /\ faults' <= faults
      BY <2>0, <2>8 DEF Kill, Fault
    <3>. QED  BY <2>0, <2>8, <3>1, LeaveInv DEF Kill
  <2>. QED  BY <1>1, <2>1, <2>2, <2>3, <2>4, <2>5, <2>6, <2>7, <2>8 DEF Run
<1>. QED  BY <1>1, BuildInv, StutterInv DEF Next

LEMMA FourElements ==
    ASSUME NEW a, NEW b, NEW c, NEW d, b # a, c \notin {a, b}, d \notin {a, b, c}
    PROVE  Cardinality({a, b, c, d}) = 4
<1>. DEFINE A == {a}
            B == A \cup {b}
            C == B \cup {c}
            D == C \cup {d}
<1>1. b \notin A /\ c \notin B /\ d \notin C /\ D = {a, b, c, d}
  OBVIOUS
<1>2. IsFiniteSet(A) /\ Cardinality(A) = 1
  BY FS_Singleton
<1>. HIDE DEF A
<1>3. IsFiniteSet(B) /\ Cardinality(B) = 2
  BY <1>1, <1>2, FS_AddElement
<1>. HIDE DEF B
<1>4. IsFiniteSet(C) /\ Cardinality(C) = 3
  BY <1>1, <1>3, FS_AddElement
<1>. HIDE DEF C
<1>5. Cardinality(D) = 4
  BY <1>1, <1>4, FS_AddElement
<1>. QED  BY <1>1, <1>5

-----------------------------------------------------------------------------
(* Whoever wins the race for update makes all of the release; a run that   *)
(* reports success has made every directory and copy in it, whole, and its *)
(* flags unless a touch failed (mkrelease.sh 82-124).                      *)
THEOREM OneRunHolds == Spec => []OneRun
<1>1. Inv => OneRun
  <2>. SUFFICES ASSUME Inv PROVE OneRun
    OBVIOUS
  <2>. USE TypeFacts, ReleaseAssumption DEF Inv
  <2>1. \A f \in DOMAIN files : files[f].by = owner
    BY DEF OwnerInv
  <2>2. ASSUME NEW r \in Runs, pc[r] = "success"
        PROVE  /\ owner = r /\ Cardinality(dirs) = Len(Directories)
               /\ DOMAIN files = Names /\ \A f \in Names : files[f].whole
               /\ faults = MaxFaults => flags = IF Option[r].init THEN Flags ELSE {}
    <3>1. owner = r
      BY <2>2 DEF OwnerInv, Passed, Complete
    <3>2. /\ \A k \in 1..9 : Made(k)
          /\ \A k \in 1..4 : Directories[k] \in dirs
      BY <2>2 DEF ProgressInv, Complete
    <3>3. DOMAIN files = Names /\ \A f \in Names : files[f].whole
      BY <3>2, WholeRelease
    <3>4. dirs = {"update", "boot", "bin", "images"}
      BY <3>2, DirectoriesFacts DEF TypeOK, Directories
    <3>5. Cardinality({"update", "boot", "bin", "images"}) = 4
      <4>1. "boot" # "update" /\ "bin" \notin {"update", "boot"} /\ "images" \notin {"update", "boot", "bin"}
        OBVIOUS
      <4>. QED  BY <4>1, FourElements, Zenon
    <3>6. faults = MaxFaults => flags = IF Option[r].init THEN Flags ELSE {}
      BY <2>2 DEF FlagsInv
    <3>. QED  BY <3>1, <3>3, <3>4, <3>5, <3>6, DirectoriesFacts
  <2>. QED  BY <2>1, <2>2 DEF OneRun
<1>. QED  BY <1>1, InitInv, NextInv, PTL DEF Spec

(* The md5 check of flash.sh accepts only a directory with all six images, *)
(* whole and of one build, wherever builds, failures and interruptions     *)
(* fall (mkrelease.sh 99-116).                                             *)
THEOREM AcceptedHolds == Spec => []AcceptedIsOneBuild
<1>1. Inv => AcceptedIsOneBuild
  <2>. SUFFICES ASSUME Inv, Accepted
                PROVE  /\ {f.name : f \in InImages} = FlashImages
                       /\ \A f, g \in InImages : files[f].build = files[g].build
    BY DEF AcceptedIsOneBuild
  <2>. USE TypeFacts DEF Inv
  <2>1. \A k \in 1..9 : Made(k)
    BY DEF SumsInv, Accepted
  <2>2. DOMAIN files = Names
    BY <2>1, WholeRelease
  <2>3. {f.name : f \in InImages} = FlashImages
    BY <2>2, CopiesFacts DEF InImages
  <2>4. PICK b \in 1..build : Settled(b)
    BY DEF SumsInv, Accepted
  <2>5. \A f \in InImages : files[f].build \in Nat /\ files[f].build >= b
    BY <2>4 DEF Accepted, Settled, InImages
  <2>6. \A f, g \in InImages : files[f].build = files[g].build
    <3>1. CASE \A f \in InImages : ~files[f].linked /\ files[f].build <= b
      <4>1. \A f \in InImages : files[f].build = b
        BY <3>1, <2>5
      <4>. QED  BY <4>1
    <3>2. CASE \E f \in InImages : ~files[f].linked /\ files[f].build < b
      BY <3>2, <2>5
    <3>. QED  BY <2>4, <3>1, <3>2 DEF Settled
  <2>. QED  BY <2>3, <2>6
<1>. QED  BY <1>1, InitInv, NextInv, PTL DEF Spec

=============================================================================
