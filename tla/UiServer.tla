------------------------------ MODULE UiServer ------------------------------
(***************************************************************************)
(* src/ui/ui_server.c and ui_client.c: the message display.  Scripts run   *)
(* ui_client once per message; it sends one datagram to a UNIX socket.     *)
(* The main thread of ui_server receives datagrams and draws; while a line *)
(* is open, progress_thread sends 'C' datagrams to the same socket, each   *)
(* of which makes the main thread turn a spinner at the end of that line.  *)
(*                                                                         *)
(* The threads share prog_enable, prog_lock, prog_cond and the socket;     *)
(* everything else belongs to the main thread, so that its code between    *)
(* two accesses to shared state is one step.  prog_enable is cleared and   *)
(* read without the lock; a read returns the old or the new value.         *)
(* Columns are characters, rows pixels as in the code; colours are left    *)
(* out.  A message is its length and whether it ends the line.             *)
(***************************************************************************)
EXTENDS Integers, Sequences, FiniteSets

CONSTANTS
    CharHeight,  \* CHAR_HEIGHT
    Height,      \* gr_fb_height()
    MsgLens,     \* lengths of messages, in characters
    QueueLen,    \* datagrams the kernel queues on the socket
    MaxMsgs,     \* bound: messages the scripts send
    MaxErrors    \* bound: system calls that fail, those of Start apart

ASSUME UiAssumption ==
    /\ CharHeight \in Nat \ {0} /\ Height \in Nat /\ Height >= CharHeight
    /\ MsgLens \subseteq Nat
    /\ QueueLen \in Nat \ {0} /\ MaxMsgs \in Nat /\ MaxErrors \in Nat

VARIABLES
    main,         \* where the main thread is
    thread,       \* where progress_thread is
    lock,         \* holder of prog_lock
    prog_enable, prog_x, prog_y, prog_step,
    top_y, cur_x, cur_y,
    text,         \* list of all messages, newest first
    screen,       \* texts on display: [x, y, len, id]
    glyphs,       \* cells with a spinner glyph: [x, y]
    queue,        \* datagrams not received yet
    sent,         \* messages the scripts have sent
    errors        \* failed calls so far

prog   == <<prog_enable, prog_x, prog_y, prog_step>>
layout == <<top_y, cur_x, cur_y, text, screen, glyphs>>
vars   == <<main, thread, lock, prog, layout, queue, sent, errors>>

Bound == main \notin {"start", "exit"}
Datagrams == [type : {"A", "B"}, len : MsgLens] \cup {[type |-> "C", len |-> 0]}
ErrorLen == 20

InitEnabled ==
    /\ main = "start" /\ thread = "open" /\ lock = "none"
    /\ prog_enable = TRUE /\ prog_x = 0 /\ prog_y = 0 /\ prog_step = 0
    /\ top_y = 0 /\ cur_x = 0 /\ cur_y = CharHeight
    /\ text = << >> /\ screen = {} /\ glyphs = {}
    /\ queue = << >> /\ sent = 0 /\ errors = 0

Init ==
    /\ main = "start" /\ thread = "open" /\ lock = "none"
    /\ prog_enable = FALSE /\ prog_x = 0 /\ prog_y = 0 /\ prog_step = 0
    /\ top_y = 0 /\ cur_x = 0 /\ cur_y = CharHeight
    /\ text = << >> /\ screen = {} /\ glyphs = {}
    /\ queue = << >> /\ sent = 0 /\ errors = 0

-----------------------------------------------------------------------------
(* ui_client, run by the scripts one after the other: an unbound socket    *)
(* refuses the message, a full queue blocks the sender.                    *)
Client ==
    /\ sent < MaxMsgs /\ sent' = sent + 1
    /\ \/ ~Bound /\ UNCHANGED queue
       \/ /\ Bound /\ Len(queue) < QueueLen
          /\ \E t \in {"A", "B"}, n \in MsgLens :
               queue' = Append(queue, [type |-> t, len |-> n])
    /\ UNCHANGED <<main, thread, lock, prog, layout, errors>>

-----------------------------------------------------------------------------
(* Drawing.                                                                *)

CoversWide(t, x, y) == t.y = y /\ x >= t.x /\ x <= t.x + t.len + 3

(* gr_fill over the spinner's cell: the glyph goes, and any text there.    *)
Covers(t, x, y) == t.y = y /\ x >= t.x /\ x < t.x + t.len
EraseTexts(S, x, y)  == {t \in S : ~Covers(t, x, y)}
EraseGlyphs(G, x, y) == G \ {[x |-> x, y |-> y]}

draw_below_top(top) ==
    {[x |-> text[i].x, y |-> text[i].y - top, len |-> text[i].len, id |-> text[i].id] :
        i \in {i \in DOMAIN text : text[i].y - top <= Height /\ text[i].y - top > CharHeight}}

(* draw_message on a cleared screen with the given top: newest text first, *)
(* until one lies above the screen.                                        *)
draw_message(top) ==
    {[x |-> text[i].x, y |-> text[i].y - top, len |-> text[i].len, id |-> text[i].id] :
        i \in {i \in DOMAIN text :
                 /\ text[i].y - top <= Height
                 /\ \A j \in 1..i : text[j].y - top >= CharHeight}}

(* show_message up to start_progress, on a message of length n: scroll,    *)
(* take the spinner away if the line was open, draw, remember the text and *)
(* move the cursor.                                                        *)
show_message(n, nl) ==
    LET scroll == cur_y > Height
        top    == IF scroll THEN top_y + CharHeight ELSE top_y
        y      == IF scroll THEN cur_y - CharHeight ELSE cur_y
        old    == IF scroll THEN draw_message(top) ELSE screen
        oldg   == IF scroll THEN {} ELSE glyphs
        id     == Len(text) + 1
        new    == [x |-> cur_x, y |-> y, len |-> n, id |-> id]
    IN  /\ top_y' = top
        /\ prog_enable' = (prog_enable /\ cur_x = 0)
        /\ screen' = (IF cur_x # 0 THEN EraseTexts(old, prog_x, prog_y) ELSE old) \cup {new}
        /\ glyphs' = IF cur_x # 0 THEN EraseGlyphs(oldg, prog_x, prog_y) ELSE oldg
        /\ text' = <<[new EXCEPT !.y = y + top]>> \o text
        /\ cur_y' = IF nl THEN y + CharHeight ELSE y
        /\ cur_x' = IF nl THEN 0 ELSE cur_x + n + 3
        /\ UNCHANGED <<prog_x, prog_y, prog_step>>

-----------------------------------------------------------------------------
(* main: create and bind the socket.  An error is shown, and the process   *)
(* ends with both threads.                                                 *)
Start ==
    /\ main = "start" /\ main' = "recv"
    /\ UNCHANGED <<thread, lock, prog, layout, queue, sent, errors>>

StartFails ==
    /\ main = "start" /\ main' = "exit" /\ thread' = "exit"
    /\ show_message(ErrorLen, TRUE)
    /\ UNCHANGED <<lock, queue, sent, errors>>

(* recvfrom and the switch on the first byte.                              *)
Receive == main = "recv" /\ queue # << >> /\ queue' = Tail(queue)

Message ==
    /\ Receive /\ Head(queue).type \in {"A", "B"}
    /\ show_message(Head(queue).len, Head(queue).type = "A")
    /\ main' = IF Head(queue).type = "A" THEN "recv" ELSE "progress"
    /\ UNCHANGED <<thread, lock, sent, errors>>

TickAlways ==
    /\ Receive /\ Head(queue).type = "C"
    /\ prog_step' = (prog_step + 1) % 3
    /\ screen' = EraseTexts(screen, prog_x, prog_y)
    /\ glyphs' = EraseGlyphs(glyphs, prog_x, prog_y) \cup {[x |-> prog_x, y |-> prog_y]}
    /\ UNCHANGED <<main, thread, lock, prog_enable, prog_x, prog_y,
                   top_y, cur_x, cur_y, text, sent, errors>>

(* case 'C': ignored when the line has been finished meanwhile.            *)
Tick ==
    /\ Receive /\ Head(queue).type = "C"
    /\ \/ /\ prog_enable
          /\ prog_step' = (prog_step + 1) % 3
          /\ screen' = EraseTexts(screen, prog_x, prog_y)
          /\ glyphs' = EraseGlyphs(glyphs, prog_x, prog_y) \cup {[x |-> prog_x, y |-> prog_y]}
       \/ ~prog_enable /\ UNCHANGED <<prog_step, screen, glyphs>>
    /\ UNCHANGED <<main, thread, lock, prog_enable, prog_x, prog_y,
                   top_y, cur_x, cur_y, text, sent, errors>>

(* recvfrom fails: the error is shown as a message of its own.             *)
ReceiveFails ==
    /\ main = "recv" /\ errors < MaxErrors /\ errors' = errors + 1
    /\ show_message(ErrorLen, TRUE)
    /\ UNCHANGED <<main, thread, lock, queue, sent>>

StartProgressAbsolute ==
    /\ main = "progress" /\ lock = "none"
    /\ lock' = "main" /\ main' = "signal"
    /\ prog_x' = cur_x /\ prog_y' = cur_y + top_y /\ prog_enable' = TRUE
    /\ UNCHANGED <<thread, prog_step, layout, queue, sent, errors>>

(* start_progress, its critical section in two steps.                      *)
StartProgress ==
    /\ main = "progress" /\ lock = "none"
    /\ lock' = "main" /\ main' = "signal"
    /\ prog_x' = cur_x /\ prog_y' = cur_y /\ prog_enable' = TRUE
    /\ UNCHANGED <<thread, prog_step, layout, queue, sent, errors>>

SignalNobody ==
    /\ main = "signal" /\ lock' = "none" /\ main' = "recv"
    /\ UNCHANGED <<thread, prog, layout, queue, sent, errors>>

SignalKeepLock ==
    /\ main = "signal" /\ main' = "recv"
    /\ thread' = IF thread = "wait" THEN "lock" ELSE thread
    /\ UNCHANGED <<lock, prog, layout, queue, sent, errors>>

Signal ==
    /\ main = "signal"
    /\ thread' = IF thread = "wait" THEN "lock" ELSE thread
    /\ lock' = "none" /\ main' = "recv"
    /\ UNCHANGED <<prog, layout, queue, sent, errors>>

Main == Start \/ Message \/ Tick \/ StartProgress \/ Signal

-----------------------------------------------------------------------------
(* progress_thread.                                                        *)
ThreadVars == <<main, prog, layout, sent, errors>>

(* Its own socket.                                                         *)
Open ==
    /\ thread = "open" /\ thread' = "lock"
    /\ UNCHANGED ThreadVars /\ UNCHANGED <<lock, queue>>

Lock ==
    /\ thread = "lock" /\ lock = "none"
    /\ lock' = "thread" /\ thread' = "check"
    /\ UNCHANGED ThreadVars /\ UNCHANGED queue

(* while ( prog_enable == 0 ) pthread_cond_wait: going to sleep releases   *)
(* the lock; leaving the loop unlocks it.                                  *)
Check ==
    /\ thread = "check"
    /\ thread' = IF prog_enable THEN "loop" ELSE "wait"
    /\ lock' = "none"
    /\ UNCHANGED ThreadVars /\ UNCHANGED queue

(* A condition variable may wake its waiter without a signal.              *)
SpuriousWakeup ==
    /\ thread = "wait" /\ thread' = "lock"
    /\ UNCHANGED ThreadVars /\ UNCHANGED <<lock, queue>>

(* while ( prog_enable ), read without the lock; the 0.3 s of sleep are    *)
(* the step from sleep back to here.                                       *)
Loop ==
    /\ thread = "loop"
    /\ thread' = IF prog_enable THEN "send" ELSE "lock"
    /\ UNCHANGED ThreadVars /\ UNCHANGED <<lock, queue>>

(* sendto: a full queue blocks it; without a bound socket it is refused,   *)
(* which ends the thread for good.                                         *)
Send ==
    /\ thread = "send" /\ Len(queue) < QueueLen
    /\ thread' = IF Bound THEN "sleep" ELSE "dead"
    /\ queue' = IF Bound THEN Append(queue, [type |-> "C", len |-> 0]) ELSE queue
    /\ UNCHANGED ThreadVars /\ UNCHANGED lock

Sleep ==
    /\ thread = "sleep" /\ thread' = "loop"
    /\ UNCHANGED ThreadVars /\ UNCHANGED <<lock, queue>>

(* socket or sendto fails for want of resources: the thread ends as well,  *)
(* and nobody starts it again.                                             *)
ThreadFails ==
    /\ thread \in {"open", "send"} /\ thread' = "failed"
    /\ errors < MaxErrors /\ errors' = errors + 1
    /\ UNCHANGED <<main, lock, prog, layout, queue, sent>>

Thread == Open \/ Lock \/ Check \/ Loop \/ Send \/ Sleep

-----------------------------------------------------------------------------
Next == Client \/ Main \/ StartFails \/ ReceiveFails \/ Thread \/ ThreadFails \/ SpuriousWakeup

(* Each thread runs when it can, and a thread blocked in sendto or on the  *)
(* lock gets through if it can do so again and again.                      *)
Spec == Init /\ [][Next]_vars /\ WF_vars(Main) /\ SF_vars(StartProgress) /\ SF_vars(Thread)

-----------------------------------------------------------------------------
TextItems == [x : Nat, y : Int, len : Nat, id : Nat]

(* Every variable stays in its domain (ui_server.c 21-39, 88-94).          *)
TypeOK ==
    /\ main \in {"start", "recv", "progress", "signal", "exit"}
    /\ thread \in {"open", "lock", "check", "wait", "loop", "send", "sleep", "exit", "dead", "failed"}
    /\ lock \in {"none", "main", "thread"}
    /\ prog_enable \in BOOLEAN /\ prog_x \in Nat /\ prog_y \in Int /\ prog_step \in 0..2
    /\ top_y \in Nat /\ cur_x \in Nat /\ cur_y \in Int
    /\ text \in Seq(TextItems)
    /\ screen \subseteq TextItems
    /\ glyphs \subseteq [x : Nat, y : Int]
    /\ queue \in Seq(Datagrams) /\ Len(queue) <= QueueLen
    /\ sent \in 0..MaxMsgs /\ errors \in 0..MaxErrors

(* Between two datagrams the spinner is on exactly when a line is open,    *)
(* and then its cell is the one after the text: the cell the next message  *)
(* will clear.  prog_enable and cur_x are separate variables changed in    *)
(* different places, and scrolling moves only cur_y (ui_server.c 150-192). *)
ProgressTracksLine ==
    main = "recv" => /\ prog_enable <=> cur_x # 0
                     /\ prog_enable => prog_x = cur_x /\ prog_y = cur_y

(* A spinner glyph is on display only at the end of the open line: a 'C'   *)
(* still queued when the line is finished never leaves one behind          *)
(* (ui_server.c 249-259).                                                  *)
NoStaleGlyph ==
    main = "recv" => \A g \in glyphs : cur_x # 0 /\ g = [x |-> cur_x, y |-> cur_y]

(* The texts on display are the remembered messages that lie on the        *)
(* screen, each unharmed and where it belongs, and the latest message is   *)
(* always among them: scrolling, clearing the spinner and drawing it       *)
(* destroy nothing (ui_server.c 68-86, 150-184, 253-257).                  *)
OnScreen(t) == t.y - top_y >= CharHeight /\ t.y - top_y <= Height
ScreenMatchesText ==
    /\ screen = {[text[i] EXCEPT !.y = @ - top_y] : i \in {i \in DOMAIN text : OnScreen(text[i])}}
    /\ text # << >> => OnScreen(text[1])

(* progress_thread never sends to a socket that is not bound yet, which    *)
(* would end it: it runs from the start but is let loose only by a message *)
(* (ui_server.c 136-139, 199-220).  Errors of another cause end it too.    *)
ThreadAlive == thread # "dead"

(* The screen is a terminal of Height \div CharHeight lines.               *)
Row(k) == {t.id : t \in {t \in screen : t.y = k * CharHeight}}
Rows == Height \div CharHeight
Filled == {k \in 1..Rows : Row(k) # {}}
Display == INSTANCE Terminal WITH
    Rows <- Rows, lines <- [k \in 1..Cardinality(Filled) |-> Row(k)],
    open <- cur_x # 0, count <- Len(text)

(* show_message, scrolling and the spinner implement that terminal.        *)
ImplementsTerminal == Display!Spec

(* While a line stays open its spinner keeps turning, whatever the timing  *)
(* of the signal, the unlocked flag and the full queue (ui_server.c        *)
(* 96-104, 129-142), unless a system call has failed the thread.           *)
SpinnerTurns ==
    \A k \in 0..2 : (prog_enable /\ prog_step = k) ~> (~prog_enable \/ prog_step # k \/ thread = "failed")

(* Every message that reaches the socket is shown sooner or later, however *)
(* many 'C' datagrams compete with it, and also when the thread has ended  *)
(* (ui_server.c 227-263).                                                  *)
Waiting == \E i \in DOMAIN queue : queue[i].type # "C"
MessagesShown == Waiting ~> ~Waiting
=============================================================================
