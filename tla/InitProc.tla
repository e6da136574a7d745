------------------------------- MODULE InitProc -------------------------------
(***************************************************************************)
(* busybox init (init/init.c), process 1 of the flash system: it runs rcS, *)
(* and with it flash.sh, to completion, keeps the rescue shells alive and  *)
(* carries out the reboot that rcS asks for.                               *)
(*                                                                         *)
(* init is one thread that signal handlers interrupt.  A step is a piece   *)
(* of it between two points where a handler or another process makes a     *)
(* difference; wait() is two steps, the call and the sleep, since only a   *)
(* sleeping wait() is interrupted by a signal.  The handlers of SIGTERM,   *)
(* SIGUSR1, SIGUSR2 and SIGQUIT never return once they act, so they simply *)
(* take over the control variables; stop_handler does return.  run()       *)
(* unblocks the signals before its caller stores the pid (343, 464), and   *)
(* new_init_action takes an entry off the list before it puts it at the    *)
(* end (493-506): both are two steps.  wait() and the mark_terminated      *)
(* after it are one: init starts nothing in between.                       *)
(* Built without FEATURE_KILL_REMOVED (the default).                       *)
(***************************************************************************)
EXTENDS Integers, Sequences, FiniteSets, SequencesExt

CONSTANTS
    Inittabs,   \* versions of /etc/inittab: sequences of [cmd, type]
    FirstTab,   \* the one init starts with
    Daemons,    \* commands that leave a background process when they end
    Pids,       \* process identifiers
    Signals,    \* the signals sent to init
    MaxSignals, \* bound: signals in a behaviour
    MaxErrors   \* bound: failures of fork or exec in a behaviour

(* A line's cmd stands for command and terminal together.                  *)
Waited == {"sysinit", "wait", "ctrlaltdel", "shutdown"}
Kept   == {"respawn", "askfirst"}
Types  == Waited \cup Kept \cup {"once", "restart", "stale"}
Lines(tab) == {tab[k] : k \in DOMAIN tab}
Commands == UNION {{l.cmd : l \in Lines(tab)} : tab \in Inittabs}
Line  == [cmd : Commands, type : Types \ {"stale"}]
Entry == [cmd : Commands, type : Types, pid : Pids \cup {0, -1}]

ASSUME InitAssumption ==
    /\ FirstTab \in Inittabs
    /\ Inittabs \subseteq Seq(Line)
    /\ Pids \subseteq Nat \ {0} /\ IsFiniteSet(Pids)
    /\ Signals \subseteq {"HUP", "INT", "TSTP", "TERM", "USR1", "USR2", "QUIT"}
    /\ MaxSignals \in Nat /\ MaxErrors \in Nat
    /\ "daemon" \notin Commands

VARIABLES
    list,     \* init_action_list: [cmd, type, pid], pid -1 after a failed fork
    proc,     \* init's children: [state, cmd]
    file,     \* /etc/inittab
    pc,       \* where init is
    point,    \* which call of check_delayed_sigs comes next
    want,     \* argument of run_actions
    i,        \* list position in run_actions and reload_inittab
    target,   \* what run() returned: argument of waitfor, pid to be stored; else 0
    moving,   \* the entry new_init_action has taken off the list, <<>> or <<entry>>
    got,      \* the local sig of check_delayed_sigs
    nohang,   \* maybe_WNOHANG
    signal,   \* bb_got_signal
    stopped,  \* inside stop_handler
    rest,     \* lines parse_inittab has not read yet
    down,     \* which of the handlers that never return has taken over
    ran,      \* shutdown commands that handler has run to the end
    strays,   \* stop_handler has waited for a child (history)
    missed,   \* pids it waited for while no entry on the list held them yet (history)
    signals,  \* signals still to come
    errors    \* failures still to come

control == <<pc, point, want, i, target, got, nohang>>
vars == <<list, moving, proc, file, control, signal, stopped, rest, down, ran, strays, missed, signals, errors>>

-----------------------------------------------------------------------------
Free     == {p \in Pids : proc[p].state = "free"}
Alive    == {p \in Pids : proc[p].state = "alive"}
Zombies  == {p \in Pids : proc[p].state = "zombie"}
Unused == [state |-> "free", cmd |-> "daemon"]

(* The kernel hands out identifiers in turn: not the one just waited for.  *)
Unassigned == Free \ {target}
NewPid == CHOOSE p \in Unassigned : TRUE
Started(c) == [proc EXCEPT ![NewPid] = [state |-> "alive", cmd |-> c]]

MarkNothing(l, p) == l

(* The first entry with the pid of a process that has been waited for is   *)
(* free to run again.                                                      *)
Holds(l, k, p) == l[k].pid = p /\ \A j \in 1..(k - 1) : l[j].pid # p
mark_terminated(l, p) == [k \in DOMAIN l |-> IF Holds(l, k, p) THEN [l[k] EXCEPT !.pid = 0] ELSE l[k]]

(* wait() returns child p.                                                 *)
Reap(p) ==
    /\ proc' = [proc EXCEPT ![p] = Unused]
    /\ list' = mark_terminated(list, p)

Fresh(new) == [cmd |-> new.cmd, type |-> new.type, pid |-> 0]
Same(l, new) == {k \in DOMAIN l : l[k].cmd = new.cmd}
First(S) == CHOOSE k \in S : \A j \in S : k <= j

(* An entry with the same command and terminal is moved to the end, with   *)
(* its process; otherwise a new one is appended.                           *)
new_init_action(l, new) ==
    LET k == First(Same(l, new))
    IN  IF Same(l, new) = {} THEN Append(l, Fresh(new))
        ELSE Append(RemoveAt(l, k), [l[k] EXCEPT !.type = new.type])

-----------------------------------------------------------------------------
Awake == ~stopped
Call(types) == pc' = "run" /\ want' = types /\ i' = 1
Kill0(p) == p \in Free

Keep == UNCHANGED <<moving, file, stopped, down, strays, missed, signals>>

(* The start of init_main: inittab is read line by line, with no handler   *)
(* set up yet.                                                             *)
Boot ==
    /\ pc = "boot"
    /\ IF rest # <<>> THEN list' = new_init_action(list, Head(rest)) /\ rest' = Tail(rest) /\ UNCHANGED <<pc, want, i>>
                      ELSE Call({"sysinit"}) /\ UNCHANGED <<list, rest>>
    /\ UNCHANGED <<proc, point, target, got, nohang, signal, ran, errors>> /\ Keep

(* run_actions, one entry, up to the point where run() has unblocked the   *)
(* signals again: the pid is on its way to waitfor, to the entry, or to    *)
(* nobody.  A failed fork is not waited for.                               *)
RunEntry ==
    /\ pc = "run" /\ Awake /\ i <= Len(list)
    /\ LET a == list[i]
           due == a.type \in want /\ (a.type \in Kept => a.pid = 0)
       IN  \/ ~due /\ i' = i + 1 /\ UNCHANGED <<list, proc, pc, target, errors>>
           \/ /\ due /\ Unassigned # {} /\ proc' = Started(a.cmd) /\ UNCHANGED <<list, errors>>
              /\ IF a.type = "once" THEN i' = i + 1 /\ UNCHANGED <<pc, target>>
                 ELSE pc' = (IF a.type \in Kept THEN "record" ELSE "wait") /\ target' = NewPid /\ UNCHANGED i
           \/ /\ due /\ errors > 0 /\ errors' = errors - 1
              /\ list' = IF a.type \in Kept THEN [list EXCEPT ![i].pid = -1] ELSE list
              /\ i' = i + 1 /\ UNCHANGED <<proc, pc, target>>
    /\ UNCHANGED <<point, want, got, nohang, signal, rest, ran>> /\ Keep

(* a->pid = run(a): whatever a handler did in between, the pid is stored.  *)
Record ==
    /\ pc = "record" /\ Awake
    /\ list' = [list EXCEPT ![i].pid = target] /\ target' = 0
    /\ pc' = "run" /\ i' = i + 1
    /\ UNCHANGED <<proc, point, want, got, nohang, signal, rest, ran, errors>> /\ Keep

(* End of run_actions: back to check_delayed_sigs, to the next stage of    *)
(* init_main, or on with the shutdown.                                     *)
RunDone ==
    /\ pc = "run" /\ Awake /\ i > Len(list)
    /\ pc' = IF want = {"shutdown"} THEN "term" ELSE "check"
    /\ point' = CASE want = {"sysinit"} -> 1 [] want = {"wait"} -> 2 [] want = {"once"} -> 3
                  [] want = Kept -> 4 [] OTHER -> point
    /\ nohang' = IF want = {"once"} THEN FALSE ELSE nohang
    /\ UNCHANGED <<list, proc, want, i, target, got, signal, rest, ran, errors>> /\ Keep

(* waitfor: wait() for any child, then see whether the right one is gone.  *)
WaitCall ==
    /\ pc = "wait" /\ Awake
    /\ \/ \E p \in Zombies : Reap(p) /\ pc' = "probe"
       \/ Zombies = {} /\ pc' = (IF Alive = {} THEN "probe" ELSE "waiting") /\ UNCHANGED <<proc, list>>
    /\ UNCHANGED <<point, want, i, target, got, nohang, signal, rest, ran, errors>> /\ Keep

WaitReturns ==
    /\ pc = "waiting" /\ Awake
    /\ \E p \in Zombies : Reap(p) /\ pc' = "probe"
    /\ UNCHANGED <<point, want, i, target, got, nohang, signal, rest, ran, errors>> /\ Keep

ProbeAny ==
    /\ pc = "probe" /\ Awake
    /\ pc' = "run" /\ i' = i + 1 /\ target' = 0 /\ ran' = ran
    /\ UNCHANGED <<list, proc, point, want, got, nohang, signal, rest, errors>> /\ Keep

Probe ==
    /\ pc = "probe" /\ Awake
    /\ IF Kill0(target)
       THEN /\ pc' = "run" /\ i' = i + 1 /\ target' = 0
            /\ ran' = IF want = {"shutdown"} THEN ran \cup {list[i].cmd} ELSE ran
       ELSE pc' = "wait" /\ UNCHANGED <<i, target, ran>>
    /\ UNCHANGED <<list, proc, point, want, got, nohang, signal, rest, errors>> /\ Keep

-----------------------------------------------------------------------------
(* check_delayed_sigs: read the signal, clear it, act on it, look again;   *)
(* without one, go on in init_main.                                        *)
ReadSignal ==
    /\ pc = "check" /\ Awake /\ signal # "none"
    /\ got' = signal /\ pc' = "clear"
    /\ UNCHANGED <<list, proc, point, want, i, target, nohang, signal, rest, ran, errors>> /\ Keep

ActOnSignal ==
    /\ pc = "clear" /\ Awake
    /\ signal' = "none" /\ nohang' = TRUE
    /\ IF got = "INT" THEN Call({"ctrlaltdel"}) ELSE pc' = "disable" /\ UNCHANGED <<want, i>>
    /\ UNCHANGED <<list, proc, point, target, got, rest, ran, errors>> /\ Keep

GoOn ==
    /\ pc = "check" /\ Awake /\ signal = "none"
    /\ CASE point = 1 -> Call({"wait"}) /\ UNCHANGED point
         [] point = 2 -> Call({"once"}) /\ UNCHANGED point
         [] point = 3 -> Call(Kept) /\ UNCHANGED point
         [] point = 4 -> point' = 5 /\ UNCHANGED <<pc, want, i>>
         [] point = 5 -> pc' = "reap" /\ UNCHANGED <<point, want, i>>
    /\ UNCHANGED <<list, proc, target, got, nohang, signal, rest, ran, errors>> /\ Keep

ReapReturnsOnce ==
    /\ pc = "asleep" /\ Awake
    /\ \E p \in Zombies : Reap(p) /\ pc' = "reap" /\ UNCHANGED nohang
    /\ UNCHANGED <<point, want, i, target, got, signal, rest, ran, errors>> /\ Keep

(* The inner loop of init_main: waitpid until there is nothing to wait for.*)
ReapCall ==
    /\ pc = "reap" /\ Awake
    /\ \/ \E p \in Zombies : Reap(p) /\ nohang' = TRUE /\ UNCHANGED <<pc, point>>
       \/ /\ Zombies = {} /\ (nohang \/ Alive = {})
          /\ pc' = "check" /\ point' = 3 /\ nohang' = FALSE /\ UNCHANGED <<proc, list>>
       \/ /\ Zombies = {} /\ ~nohang /\ Alive # {}
          /\ pc' = "asleep" /\ UNCHANGED <<point, nohang, proc, list>>
    /\ UNCHANGED <<want, i, target, got, signal, rest, ran, errors>> /\ Keep

ReapReturns ==
    /\ pc = "asleep" /\ Awake
    /\ \E p \in Zombies : Reap(p) /\ nohang' = TRUE /\ pc' = "reap"
    /\ UNCHANGED <<point, want, i, target, got, signal, rest, ran, errors>> /\ Keep

-----------------------------------------------------------------------------
(* reload_inittab: disable all entries, parse, remove what is stale and    *)
(* the sysinit entries.                                                    *)
Disable ==
    /\ pc = "disable" /\ Awake
    /\ list' = [k \in DOMAIN list |-> [list[k] EXCEPT !.type = "stale"]]
    /\ rest' = file /\ pc' = "parse"
    /\ UNCHANGED <<proc, point, want, i, target, got, nohang, signal, ran, errors>> /\ Keep

(* new_init_action once the handlers are set up: the entry of a known      *)
(* command is off the list for a moment.                                   *)
Unlink ==
    /\ pc = "parse" /\ Awake /\ rest # <<>> /\ moving = <<>> /\ Same(list, Head(rest)) # {}
    /\ LET k == First(Same(list, Head(rest))) IN list' = RemoveAt(list, k) /\ moving' = <<list[k]>>
    /\ UNCHANGED <<proc, file, control, signal, stopped, rest, down, ran, strays, missed, signals, errors>>

ParseInPlace ==
    /\ pc = "parse" /\ Awake /\ moving = <<>>
    /\ IF rest = <<>> THEN pc' = "remove" /\ i' = 1 /\ UNCHANGED <<list, rest>>
       ELSE /\ list' = IF Same(list, Head(rest)) = {} THEN Append(list, Fresh(Head(rest)))
                       ELSE [k \in DOMAIN list |-> IF k \in Same(list, Head(rest))
                                                   THEN [list[k] EXCEPT !.type = Head(rest).type] ELSE list[k]]
            /\ rest' = Tail(rest) /\ UNCHANGED <<pc, i>>
    /\ UNCHANGED <<moving, proc, file, point, want, target, got, nohang, signal, stopped, down, ran, strays, missed, signals, errors>>

Parse ==
    /\ pc = "parse" /\ Awake /\ (rest # <<>> /\ moving = <<>> => Same(list, Head(rest)) = {})
    /\ IF rest = <<>> THEN pc' = "remove" /\ i' = 1 /\ UNCHANGED <<list, rest>>
       ELSE /\ list' = Append(list, IF moving = <<>> THEN Fresh(Head(rest))
                                    ELSE [moving[1] EXCEPT !.type = Head(rest).type])
            /\ rest' = Tail(rest) /\ UNCHANGED <<pc, i>>
    /\ moving' = <<>>
    /\ UNCHANGED <<proc, file, point, want, target, got, nohang, signal, stopped, down, ran, strays, missed, signals, errors>>

RemoveStale ==
    /\ pc = "remove" /\ Awake
    /\ \/ i > Len(list) /\ pc' = "check" /\ UNCHANGED <<list, i>>
       \/ /\ i <= Len(list) /\ list[i].type \in {"stale", "sysinit"}
          /\ list' = RemoveAt(list, i) /\ UNCHANGED <<pc, i>>
       \/ i <= Len(list) /\ list[i].type \notin {"stale", "sysinit"} /\ i' = i + 1 /\ UNCHANGED <<pc, list>>
    /\ UNCHANGED <<proc, point, want, target, got, nohang, signal, rest, ran, errors>> /\ Keep

-----------------------------------------------------------------------------
(* Signals.  Those below act only while handlers are set up and none has   *)
(* taken over: it has put all signals back to SIG_DFL, which process 1     *)
(* ignores.  A signal that arrives while stop_handler runs is held back.   *)
(* A signal ends a wait in which init sleeps.                              *)
Deliver(s) ==
    /\ s \in Signals /\ signals > 0 /\ signals' = signals - 1
    /\ Awake /\ down = "no" /\ pc \notin {"boot", "off"}
Interrupted == CASE pc = "waiting" -> pc' = "probe" /\ UNCHANGED <<point, nohang>>
                 [] pc = "asleep"  -> pc' = "check" /\ point' = 3 /\ nohang' = FALSE
                 [] OTHER          -> UNCHANGED <<pc, point, nohang>>

(* record_signo: SIGHUP after /etc/inittab was edited, Ctrl-Alt-Del.       *)
Delayed(s) ==
    /\ s \in {"HUP", "INT"} /\ Deliver(s)
    /\ signal' = s /\ Interrupted
    /\ file' \in IF s = "HUP" THEN Inittabs ELSE {file}
    /\ UNCHANGED <<list, moving, proc, want, i, target, got, stopped, rest, down, ran, strays, missed, errors>>

HaltAgain(s) ==
    /\ s \in {"TERM", "USR1", "USR2"}
    /\ s \in Signals /\ signals > 0 /\ signals' = signals - 1 /\ Awake /\ pc \notin {"boot", "off", "term", "kill", "last"}
    /\ down' = s /\ Call({"shutdown"}) /\ target' = 0 /\ moving' = <<>>
    /\ UNCHANGED <<list, proc, file, point, got, nohang, signal, stopped, rest, ran, strays, missed, errors>>

(* halt_reboot_pwoff.  It never returns, so an entry that is off the list  *)
(* stays off it, and a pid on its way to an entry is lost.                 *)
Halt(s) ==
    /\ s \in {"TERM", "USR1", "USR2"} /\ Deliver(s)
    /\ down' = s /\ Call({"shutdown"}) /\ target' = 0 /\ moving' = <<>>
    /\ UNCHANGED <<list, proc, file, point, got, nohang, signal, stopped, rest, ran, strays, missed, errors>>

(* restart_handler: without a restart entry nothing happens; signal() has  *)
(* the wait restarted.                                                     *)
Restart ==
    /\ Deliver("QUIT")
    /\ IF \E k \in DOMAIN list : list[k].type = "restart"
       THEN down' = "QUIT" /\ Call({"shutdown"}) /\ target' = 0 /\ moving' = <<>> /\ UNCHANGED <<point, nohang>>
       ELSE UNCHANGED <<down, pc, want, i, target, moving, point, nohang>>
    /\ UNCHANGED <<list, proc, file, got, signal, stopped, rest, ran, strays, missed, errors>>

KillPolitely ==
    /\ pc \in {"term", "kill"} /\ (pc = "kill" => Alive = {})
    /\ pc' = IF pc = "term" THEN "kill" ELSE "last"
    /\ UNCHANGED <<list, proc, point, want, i, target, got, nohang, signal, rest, ran, errors>> /\ Keep
KillTermOnly ==
    /\ pc = "term" /\ pc' = "last"
    /\ \E dead \in SUBSET Alive :
         proc' = [p \in Pids |-> IF p \in dead THEN [proc[p] EXCEPT !.state = "zombie"] ELSE proc[p]]
    /\ UNCHANGED <<list, point, want, i, target, got, nohang, signal, rest, ran, errors>> /\ Keep

(* run_shutdown_and_kill_processes after the shutdown commands.            *)
KillAll ==
    /\ pc \in {"term", "kill"}
    /\ \E dead \in IF pc = "term" THEN SUBSET Alive ELSE {Alive} :
         proc' = [p \in Pids |-> IF p \in dead THEN [proc[p] EXCEPT !.state = "zombie"] ELSE proc[p]]
    /\ pc' = IF pc = "term" THEN "kill" ELSE "last"
    /\ UNCHANGED <<list, point, want, i, target, got, nohang, signal, rest, ran, errors>> /\ Keep

(* reboot(), halt or poweroff.                                             *)
LowLevelReboot ==
    /\ pc = "last" /\ down # "QUIT" /\ pc' = "off"
    /\ UNCHANGED <<list, proc, point, want, i, target, got, nohang, signal, rest, ran, errors>> /\ Keep

(* restart_handler goes on: the exec of a new init, which keeps the        *)
(* children, or a halt when it fails.                                      *)
ReExec ==
    /\ pc = "last" /\ down = "QUIT"
    /\ \/ /\ pc' = "boot" /\ list' = <<>> /\ rest' = file /\ down' = "no" /\ ran' = {}
          /\ want' = {} /\ i' = 1 /\ UNCHANGED errors
          /\ point' = 1 /\ target' = 0 /\ got' = "none" /\ nohang' = FALSE /\ signal' = "none"
          /\ missed' = {}
       \/ /\ errors > 0 /\ errors' = errors - 1 /\ pc' = "off"
          /\ UNCHANGED <<list, rest, point, want, i, target, got, nohang, signal, down, ran, missed>>
    /\ UNCHANGED <<moving, proc, file, stopped, strays, signals>>

(* stop_handler: poll for children until SIGCONT; it saves bb_got_signal,  *)
(* and the other signals wait, so that signal is as before afterwards.     *)
Stop ==
    /\ Deliver("TSTP") /\ stopped' = TRUE
    /\ UNCHANGED <<list, moving, proc, file, control, signal, rest, down, ran, strays, missed, errors>>

Unlisted(p) == \/ pc = "record" /\ p = target
               \/ moving # <<>> /\ moving[1].pid = p

StopReap ==
    /\ stopped /\ strays' = TRUE
    /\ \E p \in Zombies : Reap(p) /\ missed' = missed \cup {q \in {p} : Unlisted(q)}
    /\ UNCHANGED <<moving, file, control, signal, stopped, rest, down, ran, signals, errors>>

Continue ==
    /\ stopped /\ stopped' = FALSE /\ Interrupted
    /\ UNCHANGED <<list, moving, proc, file, want, i, target, got, signal, rest, down, ran, signals, strays, missed, errors>>

-----------------------------------------------------------------------------
(* A child ends; a script among Daemons leaves its background process to   *)
(* init (rcS: ui_server).                                                  *)
Exit(p) ==
    /\ p \in Alive /\ pc # "off"
    /\ LET ended == [proc EXCEPT ![p].state = "zombie"]
       IN  proc' = IF proc[p].cmd \in Daemons /\ Unassigned # {}
                   THEN [ended EXCEPT ![NewPid] = [state |-> "alive", cmd |-> "daemon"]]
                   ELSE ended
    /\ UNCHANGED <<list, moving, file, control, signal, stopped, rest, down, ran, signals, strays, missed, errors>>

InitStep ==
    \/ Boot \/ RunEntry \/ Record \/ RunDone \/ WaitCall \/ WaitReturns \/ Probe
    \/ ReadSignal \/ ActOnSignal \/ GoOn \/ ReapCall \/ ReapReturns
    \/ Disable \/ Unlink \/ Parse \/ RemoveStale \/ KillAll \/ LowLevelReboot \/ ReExec

Init ==
    /\ file = FirstTab /\ list = <<>> /\ moving = <<>> /\ rest = FirstTab
    /\ proc = [p \in Pids |-> Unused]
    /\ pc = "boot" /\ point = 1 /\ want = {} /\ i = 1
    /\ target = 0 /\ got = "none" /\ nohang = FALSE
    /\ signal = "none" /\ stopped = FALSE
    /\ down = "no" /\ ran = {} /\ strays = FALSE /\ missed = {} /\ signals = MaxSignals /\ errors = MaxErrors

Next ==
    \/ InitStep \/ StopReap \/ Continue \/ Stop \/ Restart
    \/ \E s \in {"HUP", "INT"} : Delayed(s)
    \/ \E s \in {"TERM", "USR1", "USR2"} : Halt(s)
    \/ \E p \in Pids : Exit(p)

(* init runs; commands that are waited for come to an end (flash.sh:       *)
(* EveryRunEnds of module FlashTool); whoever stopped init continues it;   *)
(* stop_handler's loop goes on.  Shells and daemons may run for ever.      *)
Spec ==
    /\ Init /\ [][Next]_vars
    /\ WF_vars(InitStep) /\ WF_vars(Continue)
    /\ \A p \in Pids : WF_vars(p = target /\ pc # "record" /\ Exit(p))

-----------------------------------------------------------------------------
(* Entries, processes and control state stay in their domains.             *)
TypeOK ==
    /\ list \in Seq(Entry) /\ moving \in {<<>>} \cup {<<e>> : e \in Entry}
    /\ proc \in [Pids -> [state : {"free", "alive", "zombie"}, cmd : Commands \cup {"daemon"}]]
    /\ file \in Inittabs
    /\ pc \in {"boot", "run", "record", "wait", "waiting", "probe", "check", "clear", "reap", "asleep",
               "disable", "parse", "remove", "term", "kill", "last", "off"}
    /\ point \in 1..5 /\ want \subseteq Types /\ i \in Nat \ {0}
    /\ target \in Pids \cup {0}
    /\ got \in {"none", "HUP", "INT"} /\ signal \in {"none", "HUP", "INT"}
    /\ nohang \in BOOLEAN /\ stopped \in BOOLEAN
    /\ rest \in Seq(Line)
    /\ down \in {"no", "TERM", "USR1", "USR2", "QUIT"}
    /\ ran \subseteq Commands /\ strays \in BOOLEAN /\ missed \subseteq Pids
    /\ signals \in 0..MaxSignals /\ errors \in 0..MaxErrors

(* Commands that no version of inittab lists with another type.            *)
Only(types) == {c \in Commands : \A tab \in Inittabs : \A l \in Lines(tab) : l.cmd = c => l.type \in types}
Running(c) == {p \in Alive : proc[p].cmd = c}

(* Commands that every version of inittab wants to be kept alive.          *)
Supervised == {c \in Only(Kept) : \A tab \in Inittabs : \E l \in Lines(tab) : l.cmd = c}

(* What a pid in an entry is for: a child started for the entry and not    *)
(* waited for yet.                                                         *)
Child(p, c) == proc[p].state # "free" /\ proc[p].cmd = c
DeadPid(c) == \E k \in DOMAIN list : list[k].cmd = c /\ list[k].pid > 0 /\ ~Child(list[k].pid, c)

(* The pid in an entry is that of its child, wherever children were waited *)
(* for: in the main loop, in waitfor or in stop_handler in the middle of   *)
(* either.  The exception is a child that stop_handler has waited for      *)
(* before its pid was stored, or while its entry was off the list: then    *)
(* the dead pid stays in the entry ("If pid != 0, it is already running",  *)
(* 457-459, is not true of it).  Conversely every respawn or askfirst      *)
(* command that runs is recorded in an entry, unless a handler that never  *)
(* returns has taken over, and none runs twice on its terminal however     *)
(* inittab is reloaded: "This prevents losing running RESPAWNs" (init.c    *)
(* 333-345, 410-424, 457-464, 484-507, 752-758).                           *)
Recorded(c, p) ==
    \/ \E k \in DOMAIN list : list[k].cmd = c /\ list[k].pid = p
    \/ moving # <<>> /\ moving[1].cmd = c /\ moving[1].pid = p
    \/ pc = "record" /\ list[i].cmd = c /\ target = p
PidsTrue ==
    /\ \A k \in DOMAIN list : list[k].pid > 0 => Child(list[k].pid, list[k].cmd) \/ list[k].pid \in missed
    /\ down = "no" => \A c \in Supervised : \A p \in Running(c) : Recorded(c, p)
    /\ \A c \in Supervised : Cardinality(Running(c)) <= 1

(* The rescue shells start only after rcS, and with it flash.sh, has       *)
(* ended: an operator cannot start flash.sh a second time beside it        *)
(* (init.c 434-442, 975-993; assumed by Rerun of module FlashTool).        *)
ShellWaitsForSysinit ==
    \A c \in Only({"sysinit"}), d \in Only(Kept) : Running(c) # {} => Running(d) = {}

(* At rest, and with no signal pending, init works with the lines of the   *)
(* latest inittab, in their order (init.c 473-512, 774-814).  Of several   *)
(* lines for a command the last one counts, and those for sysinit need not *)
(* be kept.  Ctrl-Alt-Del may overwrite a pending SIGHUP (comment in       *)
(* init.c 658-659), hence the condition.                                   *)
Counting(tab) == {k \in DOMAIN tab : \A j \in DOMAIN tab : tab[j].cmd = tab[k].cmd => j <= k}
IsLine(e, l)  == e.cmd = l.cmd /\ e.type = l.type
InForce(l, tab) ==
    /\ \A k \in Counting(tab) : tab[k].type # "sysinit" => \E j \in DOMAIN l : IsLine(l[j], tab[k])
    /\ \A j \in DOMAIN l : \E k \in Counting(tab) : IsLine(l[j], tab[k])
    /\ \A j, h \in DOMAIN l : \A k, m \in Counting(tab) :
         j < h /\ IsLine(l[j], tab[k]) /\ IsLine(l[h], tab[m]) => k < m
InittabInForce ==
    pc = "asleep" /\ signal = "none" /\ "INT" \notin Signals => InForce(list, file)

(* A handler that takes over is not entered again: no shutdown command is  *)
(* started while an earlier start of it still runs ("Testcase which would  *)
(* start multiple reboot scripts", init.c 669-675).                        *)
ShutdownOnce ==
    \A c \in Only({"shutdown"}) : Cardinality(Running(c)) <= 1

(* When the machine goes down every shutdown command in the list has been  *)
(* run to its end and no process is left (init.c 61-64, 605-624).  The     *)
(* list is the one the handler finds: one that interrupts reload_inittab   *)
(* finds entries without their type.                                       *)
ShutdownComplete ==
    pc = "off" /\ errors = MaxErrors =>
        {list[k].cmd : k \in {j \in DOMAIN list : list[j].type = "shutdown"}} \subseteq ran /\ Alive = {}

(* A supervised command that is not running, because rcS is, because it    *)
(* ended, or because stop_handler waited for it, is started again unless   *)
(* the machine goes down (init.c 50-53, 987-1029).  Only three things keep *)
(* it away: a fork that failed, which leaves pid -1 (464); the pid of a    *)
(* child that stop_handler waited for before it was stored, or while the   *)
(* entry was off the list (PidsTrue); and a child that stop_handler has    *)
(* waited for (757) just before init calls wait() (435) or waitpid()       *)
(* (1016) for it and sleeps until another child ends.                      *)
EntryWith(c, pid) == \E k \in DOMAIN list : list[k].cmd = c /\ list[k].pid = pid
Overslept(c) == strays /\ (\/ pc = "waiting" /\ target \in Free
                           \/ pc = "asleep" /\ EntryWith(c, 0))
Respawned ==
    \A c \in Supervised :
        Running(c) = {} ~> \/ Running(c) # {} \/ down # "no"
                           \/ EntryWith(c, -1) \/ DeadPid(c) \/ Overslept(c)

(* A request to halt or reboot is carried out, at whatever moment it comes *)
(* (init.c 637-646, 664-690).                                              *)
HaltCarriedOut == down \in {"TERM", "USR1", "USR2"} ~> pc = "off"

=============================================================================
