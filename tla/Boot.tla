-------------------------------- MODULE Boot ---------------------------------
(***************************************************************************)
(* root/etc/init.d/rcS, the sysinit command of init, composed with the     *)
(* display: it starts ui_server in the background, waits for the server's  *)
(* socket, runs flash.sh and tells the operator the outcome or reboots.    *)
(*                                                                         *)
(* flash.sh appears as the messages it sends and its exit status (module   *)
(* FlashTool has the rest), the display as the Terminal that module        *)
(* UiServer implements.  A message is "A" (it ends its line) or "B" (it    *)
(* leaves the line open).  The clock counts the seconds rcS sleeps.        *)
(***************************************************************************)
EXTENDS Integers, Sequences

CONSTANTS
    Traces,     \* messages of a run of flash.sh: sequences of "A" and "B"
    Rows,       \* lines on the screen
    QueueLen    \* datagrams the kernel queues on the socket

(* Wherever flash.sh ends it has finished the line it opened last: an "OK" *)
(* or a "FAIL" precedes every return and exit.                             *)
ASSUME BootAssumption ==
    /\ Traces # {} /\ Traces \subseteq Seq({"A", "B"})
    /\ \A t \in Traces : t # << >> => t[Len(t)] = "A"
    /\ Rows \in Nat \ {0} /\ QueueLen \in Nat \ {0}

VARIABLES
    pc,       \* where rcS is
    clock,    \* seconds since the server was started
    server,   \* state of ui_server
    since,    \* the clock when it bound its socket, 6 before
    queue,    \* datagrams in its socket
    todo,     \* messages of the current script still to be sent
    outcome,  \* exit status of flash.sh
    lost,     \* messages refused because no socket was bound
    lines, open, count  \* the screen

screen == <<lines, open, count>>
vars == <<pc, clock, server, since, queue, todo, outcome, lost, screen>>

Screen == INSTANCE Terminal

(* The shell's -f is true of regular files only, and a socket is none.     *)
RegularFile(s) == FALSE

-----------------------------------------------------------------------------
(* mkdevs.sh, ui_server &, mount -a: none of them is tested.               *)
StartServer ==
    /\ pc = "start" /\ server' = "starting" /\ pc' = "poll"
    /\ UNCHANGED <<clock, since, queue, todo, outcome, lost, screen>>

(* ui_server binds its socket, at whatever time, or ends.                  *)
Bind ==
    /\ server = "starting" /\ server' = "bound" /\ since' = clock
    /\ UNCHANGED <<pc, clock, queue, todo, outcome, lost, screen>>
Die ==
    /\ server = "starting" /\ server' = "dead"
    /\ UNCHANGED <<pc, clock, since, queue, todo, outcome, lost, screen>>

NegatedTest ==
    /\ pc = "poll"
    /\ IF clock < 5 /\ RegularFile(server) THEN clock' = clock + 1 /\ UNCHANGED pc ELSE pc' = "flash" /\ UNCHANGED clock
    /\ UNCHANGED <<server, since, queue, todo, outcome, lost, screen>>

PollUntilSocket ==
    /\ pc = "poll"
    /\ IF RegularFile(server) THEN pc' = "flash" ELSE UNCHANGED pc
    /\ UNCHANGED <<clock, server, since, queue, todo, outcome, lost, screen>>

(* for i in 1 2 3 4 5: leave the loop when the socket is there, else sleep.*)
PollSocket ==
    /\ pc = "poll"
    /\ \/ (clock = 5 \/ RegularFile(server)) /\ pc' = "flash" /\ UNCHANGED clock
       \/ clock < 5 /\ ~RegularFile(server) /\ clock' = clock + 1 /\ UNCHANGED pc
    /\ UNCHANGED <<server, since, queue, todo, outcome, lost, screen>>

(* flash.sh is started and will send one of the traces.                    *)
Flash ==
    /\ pc = "flash" /\ todo' \in Traces /\ pc' = "flashing"
    /\ UNCHANGED <<clock, server, since, queue, outcome, lost, screen>>

(* show_message: ui_client sends one datagram; it waits for a place in the *)
(* queue, and gives up when there is no socket.                            *)
SendMessage ==
    /\ pc \in {"flashing", "verdict"} /\ todo # << >> /\ todo' = Tail(todo)
    /\ IF server = "bound" THEN Len(queue) < QueueLen /\ queue' = Append(queue, Head(todo)) /\ UNCHANGED lost
                           ELSE lost' = lost + 1 /\ UNCHANGED queue
    /\ UNCHANGED <<pc, clock, server, since, outcome, screen>>

SuccessMessages == <<"B", "B", "B", "B">>
MergedBanner == <<"B", "A", "A">>
FailureMessages == <<"A", "A", "A">>

(* flash.sh ends with a status; rcS tells which.                           *)
Verdict ==
    /\ pc = "flashing" /\ todo = << >>
    /\ outcome' \in {"success", "failed"} /\ pc' = "verdict"
    /\ todo' = IF outcome' = "success" THEN SuccessMessages ELSE FailureMessages
    /\ UNCHANGED <<clock, server, since, queue, lost, screen>>

Finish ==
    /\ pc = "verdict" /\ todo = << >>
    /\ pc' = IF outcome = "success" THEN "reboot" ELSE "ended"
    /\ UNCHANGED <<clock, server, since, queue, todo, outcome, lost, screen>>

(* ui_server shows the next message.                                       *)
Serve ==
    /\ server = "bound" /\ queue # << >> /\ queue' = Tail(queue)
    /\ Screen!Show(Head(queue) = "A")
    /\ UNCHANGED <<pc, clock, server, since, todo, outcome, lost>>

Init ==
    /\ pc = "start" /\ clock = 0 /\ server = "none" /\ since = 6 /\ queue = << >>
    /\ todo = << >> /\ outcome = "none" /\ lost = 0 /\ Screen!Init

Rcs == StartServer \/ PollSocket \/ Flash \/ SendMessage \/ Verdict \/ Finish
Server == Bind \/ Serve
Next == Rcs \/ Server \/ Die

(* Scripts and server run.                                                 *)
Spec == Init /\ [][Next]_vars /\ WF_vars(Rcs) /\ WF_vars(Server)

-----------------------------------------------------------------------------
(* rcS polls at most five times (rcS 23-28).                               *)
TypeOK ==
    /\ pc \in {"start", "poll", "flash", "flashing", "verdict", "ended", "reboot"}
    /\ clock \in 0..5 /\ since \in 0..6 /\ server \in {"none", "starting", "bound", "dead"}
    /\ queue \in Seq({"A", "B"}) /\ Len(queue) <= QueueLen
    /\ todo \in Seq({"A", "B"}) /\ outcome \in {"none", "success", "failed"}
    /\ lost \in Nat /\ count \in Nat /\ open \in BOOLEAN

(* No message is lost to a server that is up before the five seconds rcS   *)
(* waits are over, although the test for the socket never succeeds (rcS    *)
(* 19-28).                                                                 *)
NothingLost == since < 5 => lost = 0

(* After a failure the operator has the three lines of the banner, each on *)
(* a line of its own, at the bottom of the screen (rcS 39-41), although    *)
(* messages of flash.sh may leave lines open and all go through one queue. *)
FailureOnScreen ==
    pc = "ended" /\ queue = << >> /\ lost = 0 /\ Rows >= 3
    => /\ Len(lines) >= 3 /\ ~open
       /\ \A k \in 0..2 : lines[Len(lines) - k] = {count - k}

(* flash.sh is run and its outcome acted upon whether or not the display   *)
(* works: no wait for the server is unbounded (rcS 23-31).                 *)
OutcomeReached == <>(pc \in {"ended", "reboot"})
=============================================================================
