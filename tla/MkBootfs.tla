------------------------------ MODULE MkBootfs -------------------------------
(***************************************************************************)
(* src/mkbootfs/mkbootfs.c, which prints a cpio archive of directories,    *)
(* and mkimg.sh, which pipes it through gzip and mkimage into the RAM disk *)
(* of the flash system.                                                    *)
(*                                                                         *)
(* A directory tree is a function from paths (non-empty sequences of       *)
(* names) to [kind, size].  The recursion of _archive_dir is a stack of    *)
(* frames with the names still to be visited, of which the loop takes the  *)
(* least, since they are sorted; the buffers in and out are paths that a   *)
(* frame cuts back to its own length after each entry.                     *)
(* Positions and sizes are bytes; an archive entry records where its       *)
(* header starts.  fix_stat puts the mode back that fs_config changes, and *)
(* owners are printed as 0, so that neither appears.                       *)
(* Two kinds of I/O errors pass unnoticed: readdir's, which looks like the *)
(* end of the directory, and those of stdout, which nobody asks about.     *)
(***************************************************************************)
EXTENDS Integers, Sequences, FiniteSets, SequencesExt, FiniteSetsExt

CONSTANTS
    Arguments,  \* the possible command lines: sequences of [tree, prefix]
    Names,      \* all file names, in the order of strcmp
    NameLen,    \* their lengths
    MaxFiles,   \* directories and files the process may have open
    MaxFaults   \* bound: I/O errors in a behaviour

NameSet == {Names[k] : k \in DOMAIN Names}
Dotfiles == {n \in NameSet : n = ".git"}
Kinds == {"file", "dir", "link", "special"}

IsPath(p) == p # << >> /\ p \in Seq(NameSet)
IsTree(t) ==
    /\ IsFiniteSet(DOMAIN t)
    /\ \A p \in DOMAIN t :
         /\ IsPath(p) /\ t[p].kind \in Kinds /\ t[p].size \in Nat
         /\ \A k \in 1 .. Len(p) - 1 : SubSeq(p, 1, k) \in DOMAIN t /\ t[SubSeq(p, 1, k)].kind = "dir"

(* A command line has arguments; names are listed once and are not empty.  *)
ASSUME BootfsAssumption ==
    /\ \A a \in Arguments :
         /\ Len(a) \in Nat \ {0} /\ DOMAIN a = 1 .. Len(a)
         /\ \A k \in DOMAIN a : IsTree(a[k].tree) /\ a[k].prefix \in Seq(NameSet)
    /\ Names \in Seq(NameSet)
    /\ \A j, k \in DOMAIN Names : Names[j] = Names[k] => j = k
    /\ \A n \in NameSet : NameLen[n] \in Nat \ {0}
    /\ MaxFaults \in Nat /\ MaxFiles \in Nat

VARIABLES
    args,     \* the command line
    arg,      \* the argument being processed
    stack,    \* frames of _archive_dir: [names, ilen, olen, len]
    inp, out, \* the path buffers
    opened,   \* directories opened; none is ever closed
    archive,  \* entries printed: [path, kind, size, at, inode]
    total,    \* total_size
    status,   \* "walking", "done" (exit 0) or "died" (exit 1)
    unread,   \* history: <<argument, path>> of entries that readdir failed to return
    lost,     \* history: some output did not reach the pipe
    stage,    \* mkimg.sh: where it is
    ramdisk,  \* what ramdisk.img holds
    uramdisk, \* what uramdisk.img holds
    faults

walk == <<args, arg, stack, inp, out, opened, archive, total, status, unread>>
vars == <<walk, lost, stage, ramdisk, uramdisk, faults>>

-----------------------------------------------------------------------------
Fault == faults > 0 /\ faults' = faults - 1

Pad4(n) == n + ((4 - (n % 4)) % 4)
Pad256(n) == n + ((256 - (n % 256)) % 256)

(* strlen of a path: its names, with a slash between each two.             *)
StrLen(p) ==
    LET upTo[k \in 0 .. Len(p)] ==
          IF k = 0 THEN 0 ELSE upTo[k - 1] + NameLen[p[k]] + (IF k = 1 THEN 0 ELSE 1)
    IN  upTo[Len(p)]

PathLenWithSlash(len, n) == len + NameLen[n] + 1

(* The length of the path of name n below one of length len.               *)
PathLen(len, n) == IF len > 0 THEN len + NameLen[n] + 1 ELSE NameLen[n]

(* The order of strcmp.                                                    *)
Before(m, n) == \E j, k \in DOMAIN Names : j < k /\ Names[j] = m /\ Names[k] = n

(* What the loop takes from the names left when they are sorted.           *)
Greatest(n, names) == n \in names /\ \A m \in names \ {n} : Before(m, n)
Least(n, names)    == n \in names /\ \A m \in names \ {n} : Before(n, m)

EntriesButLast(tree, dir) ==
    LET all == {n \in NameSet \ (Dotfiles \cup {"root"}) : Append(dir, n) \in DOMAIN tree}
    IN  {n \in all : ~Greatest(n, all)}

(* readdir without dotfiles and without anything called root.              *)
Entries(tree, dir) == {n \in NameSet \ (Dotfiles \cup {"root"}) : Append(dir, n) \in DOMAIN tree}

(* The loop over readdir ends where it returns 0: at the end of the        *)
(* directory or at an error, with what it has returned so far, which may   *)
(* be any of the entries.                                                  *)
ReadDir(names, a, dir) ==
    LET all == Entries(args[a].tree, dir)
    IN  /\ (names = all /\ UNCHANGED faults) \/ Fault
        /\ unread' = unread \cup {<<a, Append(dir, m)>> : m \in all \ names}

(* The number of the first entry.                                          *)
next_inode == 300000

EjectUnaligned(path, olen, kind, size) ==
    LET data == total + 6 + 8 * 13 + olen + 1
    IN  /\ archive' = Append(archive, [path |-> path, kind |-> kind, size |-> size, at |-> total,
                                       inode |-> next_inode + Len(archive)])
        /\ total' = data + size

(* _eject: header, name and data, header and data aligned to 4 bytes.      *)
Eject(path, olen, kind, size) ==
    LET at   == Pad4(total)
        data == Pad4(at + 6 + 8 * 13 + olen + 1)
    IN  /\ archive' = Append(archive, [path |-> path, kind |-> kind, size |-> size, at |-> at,
                                       inode |-> next_inode + Len(archive)])
        /\ total' = data + size

OpenDir == opened < MaxFiles /\ opened' = opened + 1
NoMoreFiles == opened = MaxFiles /\ UNCHANGED faults
Dies == status' = "died" /\ stack' = << >>

-----------------------------------------------------------------------------
(* main takes the next argument and opens its directory.                   *)
NextArg ==
    /\ status = "walking" /\ stack = << >> /\ arg < Len(args)
    /\ arg' = arg + 1
    /\ LET a == args[arg + 1]
       IN  \/ /\ OpenDir /\ inp' = << >> /\ out' = a.prefix /\ UNCHANGED status
              /\ \E names \in SUBSET Entries(a.tree, << >>) :
                   /\ ReadDir(names, arg + 1, << >>)
                   /\ stack' = <<[names |-> names, ilen |-> 0, olen |-> Len(a.prefix), len |-> StrLen(a.prefix)]>>
           \/ Dies /\ (Fault \/ NoMoreFiles) /\ UNCHANGED <<inp, out, opened, unread>>
    /\ UNCHANGED <<args, archive, total>>

(* _archive: a directory is printed and then entered, files and links are  *)
(* printed, anything else, an unreadable entry or a wrong length ends the  *)
(* program.  f is the frame of the caller, rest the stack for its next     *)
(* turn.                                                                   *)
Archive(i, o, olen, f, rest) ==
    LET node  == args[arg].tree[i]
        sound == StrLen(o) = olen
    IN  \/ /\ node.kind \in {"file", "link"} /\ sound /\ (node.kind = "file" => opened < MaxFiles)
           /\ Eject(o, olen, node.kind, IF node.kind = "link" THEN Min({node.size, 1024}) ELSE node.size)
           /\ stack' = rest /\ inp' = SubSeq(i, 1, f.ilen) /\ out' = SubSeq(o, 1, f.olen)
           /\ UNCHANGED <<status, faults, opened, unread>>
        \/ /\ node.kind = "dir" /\ sound /\ Eject(o, olen, "dir", 0) /\ OpenDir
           /\ \E names \in SUBSET Entries(args[arg].tree, i) :
                /\ ReadDir(names, arg, i)
                /\ stack' = Append(rest, [names |-> names, ilen |-> Len(i), olen |-> Len(o), len |-> olen])
           /\ inp' = i /\ out' = o
           /\ UNCHANGED status
        \/ /\ node.kind = "special" \/ ~sound \/ (node.kind = "file" /\ opened = MaxFiles)
           /\ Dies /\ UNCHANGED <<inp, out, opened, archive, total, faults, unread>>
        \/ /\ node.kind = "dir" /\ sound /\ Eject(o, olen, "dir", 0)
           /\ Dies /\ (Fault \/ NoMoreFiles) /\ UNCHANGED <<inp, out, opened, unread>>
        \/ /\ Dies /\ Fault /\ UNCHANGED <<inp, out, opened, archive, total, unread>>

(* One turn of the loop in _archive_dir: the next name is put behind the   *)
(* path in both buffers.                                                   *)
Visit ==
    /\ status = "walking" /\ stack # << >>
    /\ \E n \in Last(stack).names :
         LET f == Last(stack)
         IN  /\ Least(n, f.names)
             /\ Archive(Append(SubSeq(inp, 1, f.ilen), n), Append(SubSeq(out, 1, f.olen), n), PathLen(f.len, n),
                        f, Append(Front(stack), [f EXCEPT !.names = @ \ {n}]))
    /\ UNCHANGED <<args, arg>>

(* _archive_dir returns, and its caller cuts the buffers back.             *)
Return ==
    /\ status = "walking" /\ stack # << >> /\ Last(stack).names = {}
    /\ stack' = Front(stack)
    /\ inp' = IF Len(stack) = 1 THEN inp ELSE SubSeq(inp, 1, stack[Len(stack) - 1].ilen)
    /\ out' = IF Len(stack) = 1 THEN out ELSE SubSeq(out, 1, stack[Len(stack) - 1].olen)
    /\ UNCHANGED <<args, arg, opened, archive, total, status, faults, unread>>

(* _eject_trailer, return 0.                                               *)
Trailer ==
    /\ status = "walking" /\ stack = << >> /\ arg = Len(args)
    /\ LET at == Pad4(total)
       IN  /\ archive' = Append(archive, [path |-> <<"TRAILER!!!">>, kind |-> "trailer", size |-> 0,
                                          at |-> at, inode |-> next_inode + Len(archive)])
           /\ total' = Pad256(Pad4(at + 6 + 8 * 13 + 10 + 1))
    /\ status' = "done" /\ UNCHANGED <<args, arg, stack, inp, out, opened, faults, unread>>

Walk == /\ stage = "pack" /\ (NextArg \/ Visit \/ Return \/ Trailer)
        /\ UNCHANGED <<lost, stage, ramdisk, uramdisk>>

(* What is printed goes to the pipe whenever stdio's buffer is full, and   *)
(* at exit.  When that fails, putchar, printf and fwrite say so, but       *)
(* nobody looks, and the walk goes on.                                     *)
WriteFails ==
    /\ stage = "pack" /\ archive # << >> /\ ~lost /\ Fault
    /\ lost' = TRUE /\ UNCHANGED <<walk, stage, ramdisk, uramdisk>>

-----------------------------------------------------------------------------
(* mkimg.sh.  The status of a pipe is that of its last command, gzip; when *)
(* it fails, exit without a number ends with the status of the test.       *)
Gzip ==
    /\ stage = "pack" /\ status # "walking"
    /\ \/ ramdisk' = (IF lost THEN "partial" ELSE status) /\ stage' = "mkimage" /\ UNCHANGED faults
       \/ ramdisk' = "partial" /\ stage' = "exit 0" /\ Fault
    /\ UNCHANGED <<walk, lost, uramdisk>>

(* mkimage ... && rm ramdisk.img, the last command: the script fails when  *)
(* either does, although the image is whole when only rm has.              *)
MkImage ==
    /\ stage = "mkimage"
    /\ \/ uramdisk' = ramdisk /\ ramdisk' = "none" /\ stage' = "exit 0" /\ UNCHANGED faults
       \/ uramdisk' \in {ramdisk, uramdisk, "partial"} /\ UNCHANGED ramdisk /\ stage' = "exit 1" /\ Fault
    /\ UNCHANGED <<walk, lost>>

Init ==
    /\ args \in Arguments /\ arg = 0 /\ stack = << >> /\ inp = << >> /\ out = << >> /\ opened = 0
    /\ archive = << >> /\ total = 0 /\ status = "walking" /\ unread = {} /\ lost = FALSE
    /\ stage = "pack" /\ ramdisk = "none" /\ uramdisk = "old" /\ faults = MaxFaults

Next == Walk \/ WriteFails \/ Gzip \/ MkImage

Spec == Init /\ [][Next]_vars

-----------------------------------------------------------------------------
(* The walk stays inside the command line and the limit on open files.     *)
TypeOK ==
    /\ arg \in 0..Len(args)
    /\ status \in {"walking", "done", "died"}
    /\ total \in Nat /\ opened \in 0..MaxFiles
    /\ stage \in {"pack", "mkimage", "exit 0", "exit 1"}
    /\ ramdisk \in {"none", "partial", "done", "died"} /\ uramdisk \in {"old", "partial", "done", "died"}
    /\ lost \in BOOLEAN /\ faults \in 0..MaxFaults

(* What the archive must hold: everything below the argument directories,  *)
(* but for dotfiles, anything called root, and what is below those.        *)
Wanted(a) == {p \in DOMAIN a.tree : \A k \in DOMAIN p : p[k] \notin Dotfiles \cup {"root"}}
AllWanted == UNION {{<<k, p>> : p \in Wanted(args[k])} : k \in DOMAIN args}

(* What can be in it when readdir has failed.                              *)
AllRead == {x \in AllWanted : ~\E y \in unread : y[1] = x[1] /\ IsPrefix(y[2], x[2])}

(* Exit status 0 of mkbootfs does not promise a complete archive, nor that *)
(* of mkimg.sh a complete image.  Yet entries are missing only where       *)
(* readdir has failed, and then just those it did not return with all that *)
(* is below: what a finished run has printed is exactly the rest, once,    *)
(* with kind and size (links up to 1024 bytes), and the trailer.  Buffers  *)
(* and stack survive every descent (mkbootfs.c 115-184, 229-262).  The     *)
(* image of mkimg.sh holds all of it or is known for what it is: of a      *)
(* mkbootfs that died, which the pipe hides, or cut short; without errors  *)
(* it holds what was printed (mkimg.sh 3-12).                              *)
Complete ==
    /\ stage = "exit 0" /\ faults = MaxFaults => uramdisk = status
    /\ stage = "exit 1" \/ unread # {} \/ lost => faults < MaxFaults
    /\ uramdisk = "done" => status = "done" /\ ~lost
    /\ status = "done" =>
         /\ Len(archive) = Cardinality(AllRead) + 1
         /\ archive[Len(archive)].kind = "trailer"
         /\ \A x \in AllRead : \E k \in DOMAIN archive :
              LET a == args[x[1]]
                  node == a.tree[x[2]]
              IN  /\ archive[k].path = a.prefix \o x[2] /\ archive[k].kind = node.kind
                  /\ archive[k].size = (CASE node.kind = "dir" -> 0
                                          [] node.kind = "link" /\ node.size > 1024 -> 1024
                                          [] OTHER -> node.size)

(* A reader of the format, which finds each header from the one before by  *)
(* rounding name and data up to 4 bytes, finds every header, and it finds  *)
(* a directory before what is in it (mkbootfs.c 54-89, 215-217).           *)
Readable ==
    /\ \A k \in DOMAIN archive :
         archive[k].at = IF k = 1 THEN 0
                         ELSE LET e == archive[k - 1]
                              IN  Pad4(Pad4(e.at + 110 + StrLen(e.path) + 1) + e.size)
    /\ \A k \in DOMAIN archive : LET p == archive[k].path IN
         Len(p) > 1 => \/ \E j \in 1..k - 1 : archive[j].path = Front(p) /\ archive[j].kind = "dir"
                       \/ \E a \in DOMAIN args : args[a].prefix = Front(p)
    /\ status = "done" => total % 256 = 0

(* The order does not depend on readdir: within an argument the archive is *)
(* in depth-first order of sorted names (mkbootfs.c 162).                  *)
Precedes(p, q) ==
    \/ Len(p) < Len(q) /\ SubSeq(q, 1, Len(p)) = p
    \/ \E k \in DOMAIN p \cap DOMAIN q : SubSeq(p, 1, k - 1) = SubSeq(q, 1, k - 1) /\ Before(p[k], q[k])
Reproducible ==
    Len(args) = 1 => \A j, k \in DOMAIN archive :
        j < k /\ archive[k].kind # "trailer" => Precedes(archive[j].path, archive[k].path)

(* mkbootfs dies only of an I/O error, a special file or, since it closes  *)
(* no directory, more of them in all than it may have open beside a file;  *)
(* its own check of path lengths ("ACK!") never fails (mkbootfs.c 84,      *)
(* 127-128, 164-180, 201-202).                                             *)
DiesForCause ==
    status = "died" =>
      LET Kind(k) == {x \in AllWanted : args[x[1]].tree[x[2]].kind = k}
      IN  \/ faults < MaxFaults
          \/ Kind("special") # {}
          \/ Cardinality(Kind("dir")) + Len(args) + (IF Kind("file") = {} THEN 0 ELSE 1) > MaxFiles
=============================================================================
