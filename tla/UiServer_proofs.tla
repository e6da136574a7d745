--------------------------- MODULE UiServer_proofs ---------------------------
(***************************************************************************)
(* Safety of the message display for every screen size, queue length and   *)
(* number of messages.                                                     *)
(***************************************************************************)
EXTENDS UiServer, SequenceTheorems, FiniteSetTheorems, TLAPS

(* What show_message and start_progress establish at each point of the     *)
(* main thread.  Between "progress" and "signal" the spinner's cell is not *)
(* up to date, so the properties of "recv" are not inductive by            *)
(* themselves.                                                             *)
MainInv ==
    /\ main \in {"start", "recv", "progress", "signal", "exit"}
    /\ prog_enable \in BOOLEAN
    /\ cur_x \in Nat
    /\ queue \in Seq(Datagrams)
    /\ main \in {"start", "exit"} => ~prog_enable /\ cur_x = 0
    /\ main = "progress" => ~prog_enable /\ cur_x # 0
    /\ main = "signal" => prog_enable
    /\ main \in {"recv", "signal"} => /\ prog_enable <=> cur_x # 0
                                      /\ prog_enable => prog_x = cur_x /\ prog_y = cur_y

(* Glyphs on display are in the spinner's cell, and only while it is on.   *)
GlyphInv ==
    /\ cur_x = 0 \/ main = "progress" => glyphs = {}
    /\ glyphs \subseteq {[x |-> prog_x, y |-> prog_y]}

(* The thread passes its check only once a message has been received.      *)
ThreadInv ==
    /\ main = "start" => thread \in {"open", "lock", "check", "wait", "failed"}
    /\ main = "exit" => thread = "exit"
    /\ thread # "dead"

Inv == MainInv /\ GlyphInv /\ ThreadInv

(* A datagram taken from the queue is one of the three kinds.              *)
LEMMA HeadOfQueue ==
    ASSUME MainInv, queue # << >>
    PROVE  /\ Head(queue) \in Datagrams /\ Tail(queue) \in Seq(Datagrams)
           /\ Head(queue).type \in {"A", "B", "C"}
           /\ Head(queue).type \in {"A", "B"} => Head(queue).len \in Nat
<1>1. Head(queue) \in Datagrams /\ Tail(queue) \in Seq(Datagrams)
  BY DEF MainInv
<1>2. \A d \in Datagrams : d.type \in {"A", "B", "C"} /\ (d.type \in {"A", "B"} => d.len \in Nat)
  <2>1. SUFFICES ASSUME NEW d \in Datagrams
                 PROVE  d.type \in {"A", "B", "C"} /\ (d.type \in {"A", "B"} => d.len \in Nat)
    OBVIOUS
  <2>2. CASE d \in [type : {"A", "B"}, len : MsgLens]
    <3>1. d.type \in {"A", "B"} /\ d.len \in MsgLens
      BY <2>2
    <3>. QED  BY <3>1, UiAssumption
  <2>3. CASE d = [type |-> "C", len |-> 0]
    BY <2>3
  <2>. QED  BY <2>2, <2>3 DEF Datagrams
<1>. QED  BY <1>1, <1>2

LEMMA InitInv == Init => Inv
<1>. SUFFICES ASSUME Init PROVE Inv
  OBVIOUS
<1>1. queue \in Seq(Datagrams)
  BY DEF Init
<1>2. main = "start" /\ thread = "open" /\ prog_enable = FALSE /\ cur_x = 0 /\ glyphs = {}
  BY DEF Init
<1>3. MainInv
  BY <1>1, <1>2 DEF MainInv
<1>. QED  BY <1>2, <1>3 DEF Inv, GlyphInv, ThreadInv

LEMMA ShowMainInv ==
    ASSUME Inv, NEW n \in Nat, NEW nl \in BOOLEAN, show_message(n, nl)
    PROVE  /\ prog_enable' = FALSE
           /\ nl => cur_x' = 0
           /\ ~nl => cur_x' \in Nat /\ cur_x' # 0
           /\ main # "progress" => glyphs' = {}
           /\ prog_x' = prog_x /\ prog_y' = prog_y
<1>0. main \in {"start", "exit", "recv"} \/ main \in {"progress", "signal"}
  BY DEF Inv, MainInv
<1>1. cur_x \in Nat /\ prog_enable \in BOOLEAN
  BY DEF Inv, MainInv
<1>2. prog_enable' = (prog_enable /\ cur_x = 0)
  BY DEF show_message
<1>3. prog_enable => cur_x # 0
  BY <1>0 DEF Inv, MainInv
<1>4. prog_enable' = FALSE
  BY <1>1, <1>2, <1>3
<1>5. cur_x' = IF nl THEN 0 ELSE cur_x + n + 3
  BY DEF show_message
<1>6. prog_x' = prog_x /\ prog_y' = prog_y
  BY DEF show_message
<1>7. glyphs' = IF cur_x # 0 THEN EraseGlyphs(IF cur_y > Height THEN {} ELSE glyphs, prog_x, prog_y)
                ELSE IF cur_y > Height THEN {} ELSE glyphs
  BY DEF show_message
<1>8. glyphs' = {}
  BY <1>7 DEF EraseGlyphs, Inv, GlyphInv
<1>. QED  BY <1>1, <1>4, <1>5, <1>6, <1>8

LEMMA NextInv == Inv /\ [Next]_vars => Inv'
<1>. SUFFICES ASSUME Inv, [Next]_vars PROVE Inv'
  OBVIOUS
<1>. USE DEF Inv
<1>1. CASE Client
  <2>1. queue' \in Seq(Datagrams)
    <3>1. CASE queue' = queue
      BY <3>1 DEF MainInv
    <3>2. CASE \E t \in {"A", "B"}, n \in MsgLens : queue' = Append(queue, [type |-> t, len |-> n])
      <4>1. PICK t \in {"A", "B"}, n \in MsgLens : queue' = Append(queue, [type |-> t, len |-> n])
        BY <3>2
      <4>2. [type |-> t, len |-> n] \in Datagrams
        BY DEF Datagrams
      <4>. QED  BY <4>1, <4>2 DEF MainInv
    <3>. QED  BY <1>1, <3>1, <3>2 DEF Client
  <2>. QED  BY <1>1, <2>1 DEF Client, MainInv, GlyphInv, ThreadInv, prog, layout
<1>2. CASE Start
  BY <1>2 DEF Start, MainInv, GlyphInv, ThreadInv, prog, layout
<1>3. CASE StartFails
  <2>1. show_message(ErrorLen, TRUE) /\ ErrorLen \in Nat
    BY <1>3 DEF StartFails, ErrorLen
  <2>2. main = "start" /\ main' = "exit" /\ thread' = "exit" /\ queue' = queue
    BY <1>3 DEF StartFails
  <2>3. prog_enable' = FALSE /\ cur_x' = 0 /\ glyphs' = {}
    BY <2>1, <2>2, ShowMainInv
  <2>. QED  BY <2>2, <2>3 DEF MainInv, GlyphInv, ThreadInv
<1>4. CASE Message
  <2>. DEFINE n == Head(queue).len  nl == Head(queue).type = "A"
  <2>1. queue # << >> /\ main = "recv" /\ queue' = Tail(queue) /\ Head(queue).type \in {"A", "B"}
    BY <1>4 DEF Message, Receive
  <2>2. n \in Nat /\ nl \in BOOLEAN /\ queue' \in Seq(Datagrams)
    BY <2>1, HeadOfQueue
  <2>3. show_message(n, nl) /\ thread' = thread /\ main' = IF nl THEN "recv" ELSE "progress"
    BY <1>4 DEF Message
  <2>. HIDE DEF n, nl
  <2>4. /\ prog_enable' = FALSE /\ glyphs' = {}
        /\ nl => cur_x' = 0
        /\ ~nl => cur_x' \in Nat /\ cur_x' # 0
    BY <2>1, <2>2, <2>3, ShowMainInv
  <2>5. CASE nl
    <3>1. main' = "recv" /\ prog_enable' = FALSE /\ cur_x' = 0 /\ glyphs' = {}
      BY <2>3, <2>4, <2>5
    <3>2. MainInv'
      BY <2>2, <3>1 DEF MainInv
    <3>. QED  BY <2>1, <2>3, <3>1, <3>2 DEF GlyphInv, ThreadInv
  <2>6. CASE ~nl
    BY <2>1, <2>2, <2>3, <2>4, <2>6 DEF MainInv, GlyphInv, ThreadInv
  <2>. QED  BY <2>5, <2>6
<1>5. CASE Tick
  <2>1. queue # << >> /\ main = "recv" /\ queue' = Tail(queue)
    BY <1>5 DEF Tick, Receive
  <2>2. queue' \in Seq(Datagrams)
    BY <2>1, HeadOfQueue
  <2>3. UNCHANGED <<main, thread, prog_enable, prog_x, prog_y, cur_x, cur_y>>
    BY <1>5 DEF Tick
  <2>4. MainInv'
    BY <2>2, <2>3 DEF MainInv
  <2>5. GlyphInv'
    <3>1. CASE prog_enable /\ glyphs' = EraseGlyphs(glyphs, prog_x, prog_y) \cup {[x |-> prog_x, y |-> prog_y]}
      BY <2>1, <2>3, <3>1 DEF GlyphInv, EraseGlyphs, MainInv
    <3>2. CASE glyphs' = glyphs
      BY <2>1, <2>3, <3>2 DEF GlyphInv
    <3>. QED  BY <1>5, <3>1, <3>2 DEF Tick
  <2>. QED  BY <2>3, <2>4, <2>5 DEF ThreadInv
<1>6. CASE ReceiveFails
  <2>1. show_message(ErrorLen, TRUE) /\ ErrorLen \in Nat
    BY <1>6 DEF ReceiveFails, ErrorLen
  <2>2. main = "recv" /\ UNCHANGED <<main, thread, queue>>
    BY <1>6 DEF ReceiveFails
  <2>3. prog_enable' = FALSE /\ cur_x' = 0 /\ glyphs' = {}
    BY <2>1, <2>2, ShowMainInv
  <2>. QED  BY <2>2, <2>3 DEF MainInv, GlyphInv, ThreadInv
<1>7. CASE StartProgress
  BY <1>7 DEF StartProgress, MainInv, GlyphInv, ThreadInv, layout
<1>8. CASE Signal
  BY <1>8 DEF Signal, MainInv, GlyphInv, ThreadInv, prog, layout
<1>9. CASE Thread
  <2>1. UNCHANGED <<main, prog_enable, prog_x, prog_y, cur_x, cur_y, glyphs>>
    BY <1>9 DEF Thread, Open, Lock, Check, Loop, Send, Sleep, ThreadVars, prog, layout
  <2>2. queue' \in Seq(Datagrams)
    BY <1>9 DEF Thread, Open, Lock, Check, Loop, Send, Sleep, MainInv, Datagrams
  <2>3. ThreadInv'
    BY <1>9, <2>1 DEF Thread, Open, Lock, Check, Loop, Send, Sleep, ThreadInv, MainInv, Bound
  <2>. QED  BY <2>1, <2>2, <2>3 DEF MainInv, GlyphInv
<1>10. CASE SpuriousWakeup
  BY <1>10 DEF SpuriousWakeup, ThreadVars, prog, layout, MainInv, GlyphInv, ThreadInv
<1>11. CASE ThreadFails
  BY <1>11 DEF ThreadFails, prog, layout, MainInv, GlyphInv, ThreadInv
<1>12. CASE UNCHANGED vars
  BY <1>12 DEF vars, prog, layout, MainInv, GlyphInv, ThreadInv
<1>. QED
  BY <1>1, <1>2, <1>3, <1>4, <1>5, <1>6, <1>7, <1>8, <1>9, <1>10, <1>11, <1>12 DEF Next, Main

(* The spinner is on exactly while a line is open and sits at its end      *)
(* whenever the server waits for a datagram (ui_server.c 150-192).         *)
THEOREM ProgressTracksLineHolds == Spec => []ProgressTracksLine
<1>1. Inv => ProgressTracksLine
  BY DEF Inv, MainInv, ProgressTracksLine
<1>. QED  BY <1>1, InitInv, NextInv, PTL DEF Spec

(* No spinner glyph survives its line (ui_server.c 249-259).               *)
THEOREM NoStaleGlyphHolds == Spec => []NoStaleGlyph
<1>1. Inv => NoStaleGlyph
  BY DEF Inv, MainInv, GlyphInv, NoStaleGlyph
<1>. QED  BY <1>1, InitInv, NextInv, PTL DEF Spec

(* The progress thread never meets an unbound socket (ui_server.c          *)
(* 136-139).                                                               *)
THEOREM ThreadAliveHolds == Spec => []ThreadAlive
<1>1. Inv => ThreadAlive
  BY DEF Inv, ThreadInv, ThreadAlive
<1>. QED  BY <1>1, InitInv, NextInv, PTL DEF Spec

-----------------------------------------------------------------------------
(* The texts.  The cursor line is cur_y + top_y from the top of the list;  *)
(* no text is below it, one on it lies left of the cursor, and none is on  *)
(* it while the line is not open.  The cursor is off the screen only after *)
(* a finished line, so that a scroll never moves an open line.             *)
CursorLine == cur_y + top_y

TextInv ==
    /\ text \in Seq(TextItems) /\ top_y \in Nat /\ cur_y \in Nat
    /\ CharHeight <= cur_y /\ cur_y <= Height + CharHeight
    /\ cur_y > Height => cur_y >= CharHeight + CharHeight /\ cur_x = 0
    /\ \A j, k \in DOMAIN text : j <= k => text[j].y >= text[k].y
    /\ \A k \in DOMAIN text : IF cur_x = 0 THEN text[k].y + CharHeight <= CursorLine ELSE text[k].y <= CursorLine
    /\ \A k \in DOMAIN text : text[k].y = CursorLine => text[k].x + text[k].len <= cur_x

(* A text as it is drawn, and the texts that should be on the screen.      *)
Drawn(t, top) == [t EXCEPT !.y = @ - top]
Visible(t, top) == t.y - top >= CharHeight /\ t.y - top <= Height
ScreenInv == screen = {Drawn(text[k], top_y) : k \in {k \in DOMAIN text : Visible(text[k], top_y)}}

LEMMA TextFacts ==
    ASSUME text \in Seq(TextItems)
    PROVE  /\ Len(text) \in Nat /\ DOMAIN text = 1..Len(text)
           /\ \A k \in DOMAIN text : /\ text[k] \in TextItems /\ text[k].x \in Nat /\ text[k].y \in Int
                                      /\ text[k].len \in Nat /\ text[k].id \in Nat
<1>1. \A k \in DOMAIN text : text[k] \in TextItems
  BY ElementOfSeq
<1>. QED  BY <1>1, LenProperties DEF TextItems

LEMMA DrawnFacts ==
    ASSUME NEW t \in TextItems, NEW top \in Int
    PROVE  /\ Drawn(t, top) = [x |-> t.x, y |-> t.y - top, len |-> t.len, id |-> t.id]
           /\ Drawn(t, top).x = t.x /\ Drawn(t, top).y = t.y - top
           /\ Drawn(t, top).len = t.len /\ Drawn(t, top).id = t.id
BY DEF Drawn, TextItems

(* draw_message stops at the first text above the screen; as the texts are *)
(* in the order of their lines, it misses none.                            *)
LEMMA DrawAll ==
    ASSUME TextInv, NEW top \in Int
    PROVE  draw_message(top) = {Drawn(text[k], top) : k \in {k \in DOMAIN text : Visible(text[k], top)}}
<1>. DEFINE A == {k \in DOMAIN text : text[k].y - top <= Height /\ \A j \in 1..k : text[j].y - top >= CharHeight}
            B == {k \in DOMAIN text : Visible(text[k], top)}
<1>1. /\ Len(text) \in Nat /\ DOMAIN text = 1..Len(text)
      /\ \A k \in DOMAIN text : text[k] \in TextItems /\ text[k].y \in Int
  BY TextFacts DEF TextInv
<1>2. CharHeight \in Nat /\ Height \in Nat
  BY UiAssumption
<1>3. ASSUME NEW k \in DOMAIN text PROVE k \in A <=> k \in B
  <2>1. CASE k \in A
    BY <1>1, <2>1 DEF Visible
  <2>2. CASE k \in B
    <3>1. ASSUME NEW j \in 1..k PROVE text[j].y - top >= CharHeight
      <4>1. j \in DOMAIN text /\ j <= k
        BY <1>1
      <4>2. text[j].y >= text[k].y
        BY <4>1 DEF TextInv
      <4>. QED  BY <1>1, <1>2, <2>2, <4>1, <4>2 DEF Visible
    <3>. QED  BY <2>2, <3>1 DEF Visible
  <2>. QED  BY <2>1, <2>2
<1>4. A = B
  BY <1>3
<1>5. draw_message(top) = {[x |-> text[k].x, y |-> text[k].y - top, len |-> text[k].len, id |-> text[k].id] : k \in A}
  BY DEF draw_message
<1>6. \A k \in B : Drawn(text[k], top) = [x |-> text[k].x, y |-> text[k].y - top, len |-> text[k].len, id |-> text[k].id]
  BY <1>1, DrawnFacts
<1>. HIDE DEF A, B
<1>7. draw_message(top) = {Drawn(text[k], top) : k \in B}
  BY <1>4, <1>5, <1>6
<1>. QED  BY <1>7 DEF B

(* The spinner's cell, which is that of the cursor, is on no text.         *)
LEMMA NothingErased ==
    ASSUME TextInv, ScreenInv, prog_x = cur_x, prog_y = cur_y, cur_x \in Nat
    PROVE  EraseTexts(screen, prog_x, prog_y) = screen
<1>1. \A k \in DOMAIN text : text[k] \in TextItems /\ text[k].x \in Nat /\ text[k].y \in Int /\ text[k].len \in Nat
  BY TextFacts DEF TextInv
<1>2. ASSUME NEW t \in screen, Covers(t, cur_x, cur_y) PROVE FALSE
  <2>1. PICK k \in DOMAIN text : t = Drawn(text[k], top_y)
    BY <1>2 DEF ScreenInv
  <2>2. t.x = text[k].x /\ t.y = text[k].y - top_y /\ t.len = text[k].len
    BY <1>1, <2>1, DrawnFacts DEF TextInv
  <2>3. text[k].y = cur_y + top_y
    BY <1>1, <1>2, <2>2 DEF Covers, TextInv
  <2>4. text[k].x + text[k].len <= cur_x
    BY <2>3 DEF TextInv, CursorLine
  <2>. QED  BY <1>1, <1>2, <2>2, <2>4 DEF Covers
<1>. QED  BY <1>2 DEF EraseTexts

LEMMA Prepend ==
    ASSUME NEW S, NEW s \in Seq(S), NEW e \in S
    PROVE  /\ <<e>> \o s \in Seq(S) /\ Len(s) \in Nat /\ DOMAIN s = 1..Len(s) /\ DOMAIN (<<e>> \o s) = 1 .. Len(s) + 1
           /\ Len(<<e>> \o s) = Len(s) + 1 /\ (<<e>> \o s)[1] = e
           /\ \A k \in 1..Len(s) : (<<e>> \o s)[k + 1] = s[k]
<1>1. <<e>> \in Seq(S) /\ Len(<<e>>) = 1 /\ <<e>>[1] = e /\ Len(s) \in Nat /\ DOMAIN s = 1..Len(s)
  BY LenProperties
<1>. DEFINE h == <<e>>
<1>. HIDE DEF h
<1>2. /\ h \o s \in Seq(S) /\ Len(h \o s) = Len(h) + Len(s)
      /\ \A j \in 1 .. Len(h) + Len(s) : (h \o s)[j] = IF j <= Len(h) THEN h[j] ELSE s[j - Len(h)]
  BY <1>1, ConcatProperties DEF h
<1>3. DOMAIN (h \o s) = 1 .. Len(s) + 1
  BY <1>1, <1>2, LenProperties DEF h
<1>4. ASSUME NEW k \in 1..Len(s) PROVE (h \o s)[k + 1] = s[k]
  <2>1. k + 1 \in 1 .. Len(h) + Len(s) /\ ~(k + 1 <= Len(h)) /\ k + 1 - Len(h) = k
    BY <1>1 DEF h
  <2>. QED  BY <1>2, <2>1
<1>5. (h \o s)[1] = e
  BY <1>1, <1>2 DEF h
<1>. QED  BY <1>1, <1>2, <1>3, <1>4, <1>5 DEF h

(* What show_message draws, and what it remembers.                         *)
NewText(n) == [x |-> cur_x, y |-> CursorLine, len |-> n, id |-> Len(text) + 1]
Shows(n, nl) ==
    /\ IF cur_y > Height THEN cur_x = 0 /\ top_y' = top_y + CharHeight ELSE top_y' = top_y
    /\ cur_y' + top_y' = CursorLine + (IF nl THEN CharHeight ELSE 0)
    /\ cur_x' = IF nl THEN 0 ELSE cur_x + n + 3
    /\ text' = <<NewText(n)>> \o text
    /\ screen' = {Drawn(text[k], top_y') : k \in {k \in DOMAIN text : Visible(text[k], top_y')}}
                 \cup {Drawn(NewText(n), top_y')}

LEMMA ShowIs ==
    ASSUME Inv, TextInv, ScreenInv, main \in {"start", "recv"},
           NEW n \in Nat, NEW nl \in BOOLEAN, show_message(n, nl)
    PROVE  /\ Shows(n, nl) /\ NewText(n) \in TextItems /\ Visible(NewText(n), top_y')
           /\ top_y' \in Nat /\ cur_y' \in Nat
           /\ cur_y' = CursorLine - top_y' + (IF nl THEN CharHeight ELSE 0)
<1>. DEFINE scroll == cur_y > Height
            top    == IF scroll THEN top_y + CharHeight ELSE top_y
            y      == IF scroll THEN cur_y - CharHeight ELSE cur_y
            old    == IF scroll THEN draw_message(top) ELSE screen
            new    == [x |-> cur_x, y |-> y, len |-> n, id |-> Len(text) + 1]
<1>0. /\ CharHeight \in Nat \ {0} /\ Height \in Nat /\ Height >= CharHeight
      /\ cur_x \in Nat /\ cur_y \in Nat /\ top_y \in Nat /\ Len(text) \in Nat
  BY UiAssumption, TextFacts DEF TextInv, Inv, MainInv
<1>1. /\ top_y' = top
      /\ screen' = (IF cur_x # 0 THEN EraseTexts(old, prog_x, prog_y) ELSE old) \cup {new}
      /\ text' = <<[new EXCEPT !.y = y + top]>> \o text
      /\ cur_y' = IF nl THEN y + CharHeight ELSE y
      /\ cur_x' = IF nl THEN 0 ELSE cur_x + n + 3
  BY DEF show_message
<1>2. /\ top \in Nat /\ y \in Nat /\ y + top = CursorLine /\ y = CursorLine - top
      /\ CharHeight <= y /\ y <= Height
      /\ scroll => cur_x = 0
  BY <1>0 DEF TextInv, CursorLine
<1>3. [new EXCEPT !.y = y + top] = NewText(n)
  BY <1>2 DEF NewText
<1>4. NewText(n) \in TextItems
  BY <1>0, <1>2 DEF NewText, TextItems
<1>5. Drawn(NewText(n), top) = new
  <2>1. Drawn(NewText(n), top) = [x |-> NewText(n).x, y |-> NewText(n).y - top, len |-> NewText(n).len, id |-> NewText(n).id]
    <3>1. top \in Int
      BY <1>2
    <3>. HIDE DEF top
    <3>. QED  BY <1>4, <3>1, DrawnFacts
  <2>2. /\ NewText(n).x = cur_x /\ NewText(n).y = CursorLine /\ NewText(n).len = n /\ NewText(n).id = Len(text) + 1
    BY DEF NewText
  <2>. HIDE DEF top, y
  <2>. QED  BY <1>2, <2>1, <2>2
<1>6. Visible(NewText(n), top)
  BY <1>0, <1>2 DEF Visible, NewText
<1>7. old = {Drawn(text[k], top) : k \in {k \in DOMAIN text : Visible(text[k], top)}}
  <2>1. CASE scroll
    <3>1. old = draw_message(top)
      BY <2>1
    <3>. HIDE DEF top, old
    <3>. QED  BY <1>2, <3>1, DrawAll
  <2>2. CASE ~scroll
    <3>1. old = screen /\ top = top_y
      BY <2>2
    <3>. HIDE DEF top, old
    <3>. QED  BY <3>1 DEF ScreenInv
  <2>. QED  BY <2>1, <2>2
<1>8. cur_x # 0 => EraseTexts(old, prog_x, prog_y) = old
  <2>. SUFFICES ASSUME cur_x # 0 PROVE EraseTexts(old, prog_x, prog_y) = old
    OBVIOUS
  <2>1. prog_x = cur_x /\ prog_y = cur_y
    BY DEF Inv, MainInv
  <2>2. old = screen
    BY <1>2
  <2>. HIDE DEF old
  <2>. QED  BY <1>0, <2>1, <2>2, NothingErased
<1>. HIDE DEF top, y, old, new
<1>9. screen' = old \cup {new}
  BY <1>1, <1>8
<1>10. screen' = {Drawn(text[k], top_y') : k \in {k \in DOMAIN text : Visible(text[k], top_y')}}
                 \cup {Drawn(NewText(n), top_y')}
  BY <1>1, <1>5, <1>7, <1>9
<1>11. text' = <<NewText(n)>> \o text
  BY <1>1, <1>3
<1>12. IF cur_y > Height THEN cur_x = 0 /\ top_y' = top_y + CharHeight ELSE top_y' = top_y
  BY <1>1, <1>2 DEF top
<1>13. /\ cur_y' = CursorLine - top_y' + (IF nl THEN CharHeight ELSE 0) /\ top_y' \in Nat /\ cur_y' \in Nat
       /\ cur_y' + top_y' = CursorLine + (IF nl THEN CharHeight ELSE 0)
  BY <1>0, <1>1, <1>2
<1>. QED  BY <1>1, <1>4, <1>6, <1>10, <1>11, <1>12, <1>13 DEF Shows

LEMMA ShowText ==
    ASSUME Inv, TextInv, ScreenInv, main \in {"start", "recv"},
           NEW n \in Nat, NEW nl \in BOOLEAN, show_message(n, nl)
    PROVE  TextInv' /\ ScreenInv' /\ OnScreen(text[1])'
<1>. DEFINE t == NewText(n)
<1>0. /\ CharHeight \in Nat \ {0} /\ Height \in Nat /\ Height >= CharHeight
      /\ cur_x \in Nat /\ cur_y \in Nat /\ top_y \in Nat /\ Len(text) \in Nat
  BY UiAssumption, TextFacts DEF TextInv, Inv, MainInv
<1>1. /\ Shows(n, nl) /\ t \in TextItems /\ Visible(t, top_y') /\ top_y' \in Nat /\ cur_y' \in Nat
      /\ cur_y' = CursorLine - top_y' + (IF nl THEN CharHeight ELSE 0)
  BY ShowIs
<1>2. /\ text' \in Seq(TextItems) /\ DOMAIN text = 1..Len(text) /\ DOMAIN text' = 1 .. Len(text) + 1
      /\ text'[1] = t /\ \A k \in 1..Len(text) : text'[k + 1] = text[k]
  BY <1>1, Prepend DEF TextInv, Shows
<1>3. t.x = cur_x /\ t.y = CursorLine /\ t.len = n
  BY DEF NewText
<1>. HIDE DEF t
<1>4. \A k \in DOMAIN text : /\ text[k].x \in Nat /\ text[k].y \in Int /\ text[k].len \in Nat
                              /\ text[k].y <= CursorLine /\ (cur_x = 0 => text[k].y + CharHeight <= CursorLine)
  BY <1>0, TextFacts DEF TextInv, CursorLine
<1>5. CursorLine \in Nat /\ CursorLine' = CursorLine + (IF nl THEN CharHeight ELSE 0) /\ cur_x' = IF nl THEN 0 ELSE cur_x + n + 3
  <2>1. cur_y' + top_y' = CursorLine + (IF nl THEN CharHeight ELSE 0) /\ cur_x' = IF nl THEN 0 ELSE cur_x + n + 3
    BY <1>1 DEF Shows
  <2>2. CursorLine \in Nat
    BY <1>0 DEF CursorLine
  <2>3. CursorLine' = cur_y' + top_y'
    BY DEF CursorLine
  <2>. QED  BY <2>1, <2>2, <2>3
<1>6. \A k \in DOMAIN text' : text'[k] = t \/ \E j \in DOMAIN text : k = j + 1 /\ text'[k] = text[j]
  <2>. SUFFICES ASSUME NEW k \in DOMAIN text', k # 1 PROVE \E j \in DOMAIN text : k = j + 1 /\ text'[k] = text[j]
    BY <1>2
  <2>1. k - 1 \in 1..Len(text) /\ k = k - 1 + 1
    BY <1>0, <1>2
  <2>. QED  BY <1>2, <2>1
<1>7. ASSUME NEW j \in DOMAIN text', NEW k \in DOMAIN text', j <= k PROVE text'[j].y >= text'[k].y
  <2>1. CASE j = 1
    BY <1>2, <1>3, <1>4, <1>5, <1>6, <2>1
  <2>2. CASE j # 1
    <3>1. j - 1 \in DOMAIN text /\ k - 1 \in DOMAIN text /\ j - 1 <= k - 1 /\ j - 1 + 1 = j /\ k - 1 + 1 = k
      BY <1>0, <1>2, <1>7, <2>2
    <3>2. text'[j] = text[j - 1] /\ text'[k] = text[k - 1]
      BY <1>2, <3>1
    <3>. QED  BY <3>1, <3>2 DEF TextInv
  <2>. QED  BY <2>1, <2>2
<1>8. ASSUME NEW k \in DOMAIN text'
      PROVE  /\ IF cur_x' = 0 THEN text'[k].y + CharHeight <= CursorLine' ELSE text'[k].y <= CursorLine'
             /\ text'[k].y = CursorLine' => text'[k].x + text'[k].len <= cur_x'
  <2>1. CASE text'[k] = t
    BY <1>0, <1>3, <1>5, <2>1
  <2>2. ASSUME NEW j \in DOMAIN text, text'[k] = text[j]
        PROVE  /\ IF cur_x' = 0 THEN text'[k].y + CharHeight <= CursorLine' ELSE text'[k].y <= CursorLine'
               /\ text'[k].y = CursorLine' => text'[k].x + text'[k].len <= cur_x'
    <3>1. text[j].y = CursorLine => text[j].x + text[j].len <= cur_x
      BY DEF TextInv
    <3>. QED  BY <1>0, <1>4, <1>5, <2>2, <3>1
  <2>. QED  BY <1>6, <2>1, <2>2
<1>9. /\ CharHeight <= cur_y' /\ cur_y' <= Height + CharHeight
      /\ cur_y' > Height => cur_y' >= CharHeight + CharHeight /\ cur_x' = 0
  <2>0. PICK a \in Int : a = CursorLine - top_y'
    <3>1. (cur_y + top_y) - top_y' \in Int
      BY <1>0, <1>1
    <3>2. CursorLine - top_y' \in Int
      BY <3>1 DEF CursorLine
    <3>. QED  BY <3>2, Zenon
  <2>1. CharHeight <= a /\ a <= Height
    <3>1. t.y - top_y' >= CharHeight /\ t.y - top_y' <= Height
      BY <1>1 DEF Visible
    <3>2. t.y - top_y' = a
      BY <1>3, <2>0
    <3>. QED  BY <1>0, <3>1, <3>2
  <2>2. CASE nl
    <3>1. cur_y' = a + CharHeight /\ cur_x' = 0
      BY <1>1, <1>5, <2>0, <2>2
    <3>. QED  BY <1>0, <2>1, <3>1
  <2>3. CASE ~nl
    <3>1. cur_y' = a
      BY <1>1, <2>0, <2>3
    <3>. QED  BY <1>0, <2>1, <3>1
  <2>. QED  BY <2>2, <2>3
<1>10. TextInv'
  BY <1>1, <1>2, <1>7, <1>8, <1>9 DEF TextInv
<1>11. ScreenInv'
  <2>. DEFINE S == {Drawn(text[k], top_y') : k \in {k \in DOMAIN text : Visible(text[k], top_y')}}
              T == {Drawn(text'[k], top_y') : k \in {k \in DOMAIN text' : Visible(text'[k], top_y')}}
  <2>1. screen' = S \cup {Drawn(t, top_y')}
    BY <1>1 DEF Shows, t
  <2>2. ASSUME NEW e \in S PROVE e \in T
    <3>1. PICK k \in DOMAIN text : Visible(text[k], top_y') /\ e = Drawn(text[k], top_y')
      OBVIOUS
    <3>2. k + 1 \in DOMAIN text' /\ text'[k + 1] = text[k]
      BY <1>0, <1>2
    <3>. QED  BY <3>1, <3>2
  <2>3. Drawn(t, top_y') \in T
    <3>1. 1 \in DOMAIN text'
      BY <1>0, <1>2
    <3>. QED  BY <1>1, <1>2, <3>1
  <2>4. ASSUME NEW e \in T PROVE e \in S \cup {Drawn(t, top_y')}
    <3>1. PICK k \in DOMAIN text' : Visible(text'[k], top_y') /\ e = Drawn(text'[k], top_y')
      OBVIOUS
    <3>. QED  BY <1>6, <3>1
  <2>. HIDE DEF S, T
  <2>5. screen' = T
    BY <2>1, <2>2, <2>3, <2>4
  <2>. QED  BY <2>5 DEF ScreenInv, T
<1>12. OnScreen(text[1])'
  BY <1>1, <1>2 DEF OnScreen, Visible
<1>. QED  BY <1>10, <1>11, <1>12

(* Steps that show nothing leave texts and screen as they are; the spinner *)
(* is drawn beside the texts.                                              *)
LEMMA OtherText ==
    ASSUME Inv, TextInv, ScreenInv, [Next]_vars, ~StartFails, ~ReceiveFails, ~Message
    PROVE  UNCHANGED <<text, screen, top_y, cur_x, cur_y>>
<1>1. CASE Client \/ Start \/ StartProgress \/ Signal
  BY <1>1 DEF Client, Start, StartProgress, Signal, layout
<1>2. CASE Tick
  <2>1. UNCHANGED <<text, top_y, cur_x, cur_y>> /\ main = "recv"
    BY <1>2 DEF Tick, Receive
  <2>2. CASE prog_enable /\ screen' = EraseTexts(screen, prog_x, prog_y)
    <3>1. prog_x = cur_x /\ prog_y = cur_y /\ cur_x \in Nat
      BY <2>1, <2>2 DEF Inv, MainInv
    <3>. QED  BY <2>1, <2>2, <3>1, NothingErased
  <2>3. CASE screen' = screen
    BY <2>1, <2>3
  <2>. QED  BY <1>2, <2>2, <2>3 DEF Tick
<1>3. CASE Thread
  BY <1>3 DEF Thread, Open, Lock, Check, Loop, Send, Sleep, ThreadVars, layout
<1>4. CASE SpuriousWakeup
  BY <1>4 DEF SpuriousWakeup, ThreadVars, layout
<1>5. CASE ThreadFails
  BY <1>5 DEF ThreadFails, layout
<1>6. CASE UNCHANGED vars
  BY <1>6 DEF vars, layout
<1>. QED  BY <1>1, <1>2, <1>3, <1>4, <1>5, <1>6 DEF Next, Main

(* Every other step shows one message.                                     *)
LEMMA ShowSteps ==
    ASSUME Inv, StartFails \/ ReceiveFails \/ Message
    PROVE  main \in {"start", "recv"} /\ \E n \in Nat, nl \in BOOLEAN : show_message(n, nl)
<1>1. CASE StartFails \/ ReceiveFails
  <2>1. show_message(ErrorLen, TRUE) /\ ErrorLen \in Nat
    BY <1>1 DEF StartFails, ReceiveFails, ErrorLen
  <2>2. main \in {"start", "recv"}
    BY <1>1 DEF StartFails, ReceiveFails
  <2>3. \E n \in Nat, nl \in BOOLEAN : show_message(n, nl)
    BY <2>1, Zenon
  <2>. QED  BY <2>2, <2>3
<1>2. CASE Message
  <2>. DEFINE n == Head(queue).len  nl == Head(queue).type = "A"
  <2>1. main = "recv" /\ queue # << >> /\ Head(queue).type \in {"A", "B"} /\ show_message(n, nl)
    BY <1>2 DEF Message, Receive
  <2>2. n \in Nat /\ nl \in BOOLEAN
    BY <2>1, HeadOfQueue DEF Inv
  <2>. HIDE DEF n, nl
  <2>3. \E m \in Nat, b \in BOOLEAN : show_message(m, b)
    BY <2>1, <2>2, Zenon
  <2>. QED  BY <2>1, <2>3
<1>. QED  BY <1>1, <1>2

LatestShown == text # << >> => OnScreen(text[1])

LEMMA TextNext ==
    ASSUME Inv, TextInv, ScreenInv, LatestShown, [Next]_vars PROVE TextInv' /\ ScreenInv' /\ LatestShown'
<1>1. CASE StartFails \/ ReceiveFails \/ Message
  <2>1. main \in {"start", "recv"} /\ \E n \in Nat, nl \in BOOLEAN : show_message(n, nl)
    BY <1>1, ShowSteps
  <2>2. PICK n \in Nat, nl \in BOOLEAN : show_message(n, nl)
    BY <2>1
  <2>. QED  BY <2>1, <2>2, ShowText DEF LatestShown
<1>2. CASE ~(StartFails \/ ReceiveFails \/ Message)
  <2>1. UNCHANGED <<text, screen, top_y, cur_x, cur_y>>
    BY <1>2, OtherText
  <2>. QED  BY <2>1 DEF TextInv, ScreenInv, LatestShown, CursorLine, OnScreen
<1>. QED  BY <1>1, <1>2

LEMMA InitText == Init => TextInv /\ ScreenInv /\ LatestShown
<1>. SUFFICES ASSUME Init PROVE TextInv /\ ScreenInv /\ LatestShown
  OBVIOUS
<1>1. text = << >> /\ DOMAIN text = {} /\ screen = {} /\ top_y = 0 /\ cur_x = 0 /\ cur_y = CharHeight
  BY DEF Init
<1>2. TextInv
  BY <1>1, UiAssumption DEF TextInv
<1>3. ScreenInv /\ LatestShown
  BY <1>1 DEF ScreenInv, LatestShown
<1>. QED  BY <1>2, <1>3

LEMMA ScreenHolds == Spec => [](Inv /\ TextInv /\ ScreenInv /\ LatestShown)
<1>. DEFINE J == Inv /\ TextInv /\ ScreenInv /\ LatestShown
<1>1. Init => J
  BY InitInv, InitText
<1>2. J /\ [Next]_vars => J'
  BY NextInv, TextNext
<1>. QED  BY <1>1, <1>2, PTL DEF Spec

(* The screen shows the remembered texts that lie on it, each whole and in *)
(* its place, the latest among them: draw_message, which stops at the      *)
(* first text above the screen, misses none, and neither the spinner nor   *)
(* its removal touches a text (ui_server.c 68-86, 150-184, 253-257).       *)
THEOREM ScreenMatchesTextHolds == Spec => []ScreenMatchesText
<1>1. ScreenInv /\ LatestShown => ScreenMatchesText
  BY DEF ScreenInv, LatestShown, ScreenMatchesText, Drawn, Visible, OnScreen
<1>. QED  BY <1>1, ScreenHolds, PTL

-----------------------------------------------------------------------------
(* The terminal.  The cursor is in line c of the screen, and the lines     *)
(* above it, with it while it is open, hold a text each.                   *)
Shown(c) == IF cur_x = 0 THEN c - 1 ELSE c
CursorIn(c) ==
    /\ c \in Nat \ {0} /\ cur_y = c * CharHeight
    /\ \A k \in 1..Shown(c) : \E j \in DOMAIN text : text[j].y = top_y + k * CharHeight
RowInv == \E c \in Nat : CursorIn(c)

RowOf(k) == {text[j].id : j \in {j \in DOMAIN text : text[j].y = top_y + k * CharHeight}}

LEMMA Times ==
    ASSUME NEW a \in Int, NEW b \in Int, NEW h \in Nat \ {0}
    PROVE  /\ a * h \in Int /\ (a + b) * h = a * h + b * h /\ (a + 1) * h = a * h + h /\ (a - 1) * h = a * h - h
           /\ a < b => a * h + h <= b * h
           /\ a <= b => a * h <= b * h
<1>1. a * h \in Int /\ (a + b) * h = a * h + b * h /\ (a + 1) * h = a * h + h /\ (a - 1) * h = a * h - h
  OBVIOUS
<1>2. a < b => a * h + h <= b * h
  OBVIOUS
<1>3. a <= b => a * h <= b * h
  OBVIOUS
<1>. QED  BY <1>1, <1>2, <1>3

LEMMA RowsFacts ==
    /\ Rows \in Nat /\ CharHeight \in Nat \ {0} /\ Height \in Nat
    /\ Rows * CharHeight \in Int /\ Rows * CharHeight <= Height /\ Height < Rows * CharHeight + CharHeight
<1>1. CharHeight \in Nat \ {0} /\ Height \in Nat
  BY UiAssumption
<1>2. ASSUME NEW a \in Nat, NEW h \in Nat \ {0}
      PROVE  (a \div h) \in Nat /\ (a \div h) * h \in Int /\ (a \div h) * h <= a /\ a < (a \div h) * h + h
  OBVIOUS
<1>. QED  BY <1>1, <1>2 DEF Rows

(* A line of the screen that exists has its place on it.                   *)
LEMMA RowPlace ==
    ASSUME NEW k \in 1..Rows
    PROVE  k * CharHeight \in Int /\ CharHeight <= k * CharHeight /\ k * CharHeight <= Height
<1>1. /\ Rows \in Nat /\ CharHeight \in Nat \ {0} /\ Height \in Nat
      /\ Rows * CharHeight \in Int /\ Rows * CharHeight <= Height
  BY RowsFacts
<1>2. k \in Int /\ 1 <= k /\ k <= Rows
  BY <1>1
<1>3. k * CharHeight \in Int /\ k * CharHeight <= Rows * CharHeight
  BY <1>1, <1>2, Times
<1>4. 1 * CharHeight <= k * CharHeight /\ 1 * CharHeight = CharHeight
  BY <1>1, <1>2, Times
<1>. QED  BY <1>1, <1>3, <1>4

LEMMA RowIs ==
    ASSUME TextInv, ScreenInv, NEW k \in 1..Rows PROVE Row(k) = RowOf(k)
<1>1. \A j \in DOMAIN text : text[j] \in TextItems /\ text[j].y \in Int
  BY TextFacts DEF TextInv
<1>2. k * CharHeight \in Int /\ CharHeight <= k * CharHeight /\ k * CharHeight <= Height
  BY RowPlace
<1>3. top_y \in Nat /\ CharHeight \in Nat /\ Height \in Nat
  BY UiAssumption DEF TextInv
<1>. DEFINE v == k * CharHeight
<1>. HIDE DEF v
<1>4. ASSUME NEW e \in Row(k) PROVE e \in RowOf(k)
  <2>1. PICK t \in screen : t.y = v /\ t.id = e
    BY <1>4 DEF Row, v
  <2>2. PICK j \in DOMAIN text : t = Drawn(text[j], top_y)
    BY <2>1 DEF ScreenInv
  <2>3. t.y = text[j].y - top_y /\ t.id = text[j].id
    BY <1>1, <1>3, <2>2, DrawnFacts
  <2>4. text[j].y = top_y + v
    BY <1>1, <1>3, <2>1, <2>3
  <2>. QED  BY <2>1, <2>3, <2>4 DEF RowOf, v
<1>5. ASSUME NEW e \in RowOf(k) PROVE e \in Row(k)
  <2>1. PICK j \in DOMAIN text : text[j].y = top_y + v /\ text[j].id = e
    BY <1>5 DEF RowOf, v
  <2>2. text[j].y - top_y = v
    BY <1>2, <1>3, <2>1 DEF v
  <2>3. Visible(text[j], top_y)
    BY <1>2, <1>3, <2>2 DEF Visible, v
  <2>4. Drawn(text[j], top_y) \in screen
    BY <2>3 DEF ScreenInv
  <2>5. Drawn(text[j], top_y).y = v /\ Drawn(text[j], top_y).id = e
    BY <1>1, <1>3, <2>1, <2>2, DrawnFacts
  <2>. QED  BY <2>4, <2>5 DEF Row, v
<1>. QED  BY <1>4, <1>5

LEMMA FilledIs ==
    ASSUME TextInv, ScreenInv, cur_x \in Nat, NEW c, CursorIn(c)
    PROVE  /\ Shown(c) \in 0..Rows /\ Filled = 1..Shown(c) /\ Cardinality(Filled) = Shown(c)
<1>. DEFINE m == Shown(c)
<1>0. /\ Rows \in Nat /\ CharHeight \in Nat \ {0} /\ Height \in Nat
      /\ Rows * CharHeight \in Int /\ Height < Rows * CharHeight + CharHeight
      /\ c \in Nat \ {0} /\ cur_y = c * CharHeight /\ cur_y \in Nat /\ top_y \in Nat
  BY RowsFacts DEF CursorIn, TextInv
<1>1. m \in Nat
  BY <1>0 DEF Shown
<1>2. /\ m * CharHeight \in Int /\ m * CharHeight <= Height
      /\ \A j \in DOMAIN text : text[j].y \in Int /\ text[j].y <= m * CharHeight + top_y
  <2>0. \A j \in DOMAIN text : text[j].y \in Int
    BY TextFacts DEF TextInv
  <2>1. CASE cur_x = 0
    <3>1. m = c - 1
      BY <2>1 DEF Shown
    <3>2. m * CharHeight \in Int /\ m * CharHeight = cur_y - CharHeight
      BY <1>0, <3>1, Times
    <3>3. cur_y <= Height + CharHeight /\ \A j \in DOMAIN text : text[j].y + CharHeight <= cur_y + top_y
      BY <2>1 DEF TextInv, CursorLine
    <3>. HIDE DEF m
    <3>. QED  BY <1>0, <2>0, <3>2, <3>3
  <2>2. CASE cur_x # 0
    <3>1. m * CharHeight = cur_y
      BY <1>0, <2>2 DEF Shown
    <3>2. cur_y <= Height /\ \A j \in DOMAIN text : text[j].y <= cur_y + top_y
      BY <1>0, <2>2 DEF TextInv, CursorLine
    <3>. HIDE DEF m
    <3>. QED  BY <1>0, <2>0, <3>1, <3>2
  <2>. QED  BY <2>1, <2>2
<1>. HIDE DEF m
<1>3. m <= Rows
  <2>. SUFFICES ASSUME Rows < m PROVE FALSE
    BY <1>0, <1>1
  <2>1. Rows * CharHeight + CharHeight <= m * CharHeight
    BY <1>0, <1>1, Times
  <2>. QED  BY <1>0, <1>2, <2>1
<1>4. ASSUME NEW k \in 1..Rows PROVE Row(k) # {} <=> k <= m
  <2>0. Row(k) = RowOf(k) /\ k * CharHeight \in Int /\ k \in Int /\ m \in Int /\ CharHeight \in Nat \ {0}
    BY <1>0, <1>1, RowIs, RowPlace
  <2>1. ASSUME Row(k) # {}, m < k PROVE FALSE
    <3>1. PICK j \in DOMAIN text : text[j].y = top_y + k * CharHeight
      BY <2>0, <2>1 DEF RowOf
    <3>2. m * CharHeight + CharHeight <= k * CharHeight
      BY <2>0, <2>1, Times
    <3>. QED  BY <1>0, <1>2, <2>0, <3>1, <3>2
  <2>2. ASSUME k <= m PROVE Row(k) # {}
    <3>1. k \in 1..m
      BY <1>0, <1>1, <2>2
    <3>2. PICK j \in DOMAIN text : text[j].y = top_y + k * CharHeight
      BY <3>1 DEF CursorIn, m
    <3>. QED  BY <2>0, <3>2 DEF RowOf
  <2>. QED  BY <2>0, <2>1, <2>2
<1>5. Filled = 1..m
  BY <1>0, <1>1, <1>3, <1>4 DEF Filled
<1>6. Cardinality(1..m) = m
  BY <1>1, FS_Interval
<1>. QED  BY <1>0, <1>1, <1>3, <1>5, <1>6 DEF m

(* The message goes to line r of the screen, which moves up by s lines.    *)
Placed(c, r, s) ==
    /\ r \in 1..Rows /\ s = (IF cur_y > Height THEN 1 ELSE 0) /\ c = r + s
    /\ CursorLine = top_y' + r * CharHeight
    /\ \A k \in Int : top_y' + k * CharHeight = top_y + (k + s) * CharHeight

LEMMA ShowPlace ==
    ASSUME Inv, TextInv, ScreenInv, main \in {"start", "recv"},
           NEW n \in Nat, NEW nl \in BOOLEAN, show_message(n, nl), NEW c, CursorIn(c)
    PROVE  \E r \in 1..Rows, s \in 0..1 :
             Placed(c, r, s) /\ cur_y' = (IF nl THEN r + 1 ELSE r) * CharHeight
<1>0. /\ Rows \in Nat /\ CharHeight \in Nat \ {0} /\ Height \in Nat
      /\ Rows * CharHeight \in Int /\ Height < Rows * CharHeight + CharHeight
      /\ c \in Nat \ {0} /\ cur_y = c * CharHeight /\ cur_y \in Nat /\ top_y \in Nat
  BY RowsFacts DEF CursorIn, TextInv
<1>1. /\ Shows(n, nl) /\ Visible(NewText(n), top_y') /\ top_y' \in Nat /\ cur_y' \in Nat
      /\ cur_y' = CursorLine - top_y' + (IF nl THEN CharHeight ELSE 0)
  BY ShowIs
<1>a. PICK s \in 0..1 : s = IF cur_y > Height THEN 1 ELSE 0
  OBVIOUS
<1>b. PICK r \in Int : c = r + s
  <2>1. c - s \in Int /\ c = c - s + s
    BY <1>0
  <2>. QED  BY <2>1
<1>2. s \in 0..1 /\ c = r + s /\ r \in Int
  BY <1>b
<1>3. top_y' = top_y + s * CharHeight
  <2>1. CASE cur_y > Height
    BY <1>0, <1>1, <1>a, <2>1 DEF Shows
  <2>2. CASE ~(cur_y > Height)
    BY <1>0, <1>1, <1>a, <2>2 DEF Shows
  <2>. QED  BY <2>1, <2>2
<1>4. s * CharHeight \in Int /\ r * CharHeight \in Int /\ c * CharHeight = r * CharHeight + s * CharHeight
  <2>1. s \in Int
    BY <1>2
  <2>. QED  BY <1>0, <1>2, <2>1, Times
<1>5. cur_y + top_y = top_y' + r * CharHeight
  BY <1>0, <1>3, <1>4
<1>6. CursorLine = top_y' + r * CharHeight
  BY <1>5 DEF CursorLine
<1>7. r * CharHeight >= CharHeight /\ r * CharHeight <= Height
  <2>1. CursorLine - top_y' >= CharHeight /\ CursorLine - top_y' <= Height
    BY <1>1 DEF Visible, NewText
  <2>2. (top_y' + r * CharHeight) - top_y' = r * CharHeight
    BY <1>1, <1>4
  <2>. QED  BY <1>6, <2>1, <2>2
<1>8. r >= 1
  <2>. SUFFICES ASSUME r < 1 PROVE FALSE
    BY <1>2
  <2>1. r * CharHeight + CharHeight <= 1 * CharHeight
    BY <1>0, <1>2, Times
  <2>. QED  BY <1>0, <1>4, <1>7, <2>1
<1>9. r <= Rows
  <2>. SUFFICES ASSUME Rows < r PROVE FALSE
    BY <1>0, <1>2
  <2>1. Rows * CharHeight + CharHeight <= r * CharHeight
    BY <1>0, <1>2, Times
  <2>. QED  BY <1>0, <1>4, <1>7, <2>1
<1>10. cur_y' = (IF nl THEN r + 1 ELSE r) * CharHeight
  <2>a. (top_y' + r * CharHeight) - top_y' = r * CharHeight
    BY <1>1, <1>4
  <2>b. (r + 1) * CharHeight = r * CharHeight + CharHeight
    BY <1>0, <1>2, Times
  <2>0. (top_y' + r * CharHeight) - top_y' = r * CharHeight /\ (r + 1) * CharHeight = r * CharHeight + CharHeight
    BY <2>a, <2>b
  <2>1. CASE nl
    <3>1. cur_y' = CursorLine - top_y' + CharHeight
      BY <1>1, <2>1
    <3>. QED  BY <1>6, <2>0, <2>1, <3>1
  <2>2. CASE ~nl
    <3>1. cur_y' = CursorLine - top_y' + 0
      BY <1>1, <2>2
    <3>2. r * CharHeight + 0 = r * CharHeight
      BY <1>4
    <3>. QED  BY <1>6, <2>0, <2>2, <3>1, <3>2
  <2>. QED  BY <2>1, <2>2
<1>11. ASSUME NEW k \in Int PROVE top_y' + k * CharHeight = top_y + (k + s) * CharHeight
  <2>1. s \in Int
    BY <1>2
  <2>2. (k + s) * CharHeight = k * CharHeight + s * CharHeight /\ k * CharHeight \in Int
    BY <1>0, <2>1, Times
  <2>. QED  BY <1>0, <1>3, <1>4, <2>2
<1>12. r \in 1..Rows /\ Placed(c, r, s)
  BY <1>0, <1>2, <1>a, <1>6, <1>8, <1>9, <1>11 DEF Placed
<1>. QED  BY <1>10, <1>12

(* Equal lines are the same line.                                          *)
LEMMA SameLine ==
    ASSUME NEW a \in Int, NEW b \in Int, NEW top \in Nat, top + a * CharHeight = top + b * CharHeight PROVE a = b
<1>1. CharHeight \in Nat \ {0}
  BY UiAssumption
<1>2. a * CharHeight \in Int /\ b * CharHeight \in Int
  BY <1>1, Times
<1>3. ~(a < b)
  <2>1. a < b => a * CharHeight + CharHeight <= b * CharHeight
    BY <1>1, Times
  <2>. QED  BY <1>1, <1>2, <2>1
<1>4. ~(b < a)
  <2>1. b < a => b * CharHeight + CharHeight <= a * CharHeight
    BY <1>1, Times
  <2>. QED  BY <1>1, <1>2, <2>1
<1>. QED  BY <1>3, <1>4

LEMMA ShowRows ==
    ASSUME Inv, TextInv, ScreenInv, main \in {"start", "recv"},
           NEW n \in Nat, NEW nl \in BOOLEAN, show_message(n, nl), NEW c, CursorIn(c)
    PROVE  \E r \in 1..Rows, s \in 0..1 :
             /\ Placed(c, r, s)
             /\ CursorIn(IF nl THEN r + 1 ELSE r)'
             /\ \A k \in Int : RowOf(k)' = RowOf(k + s) \cup (IF k = r THEN {Len(text) + 1} ELSE {})
<1>. DEFINE t == NewText(n)
<1>0. PICK r \in 1..Rows, s \in 0..1 : Placed(c, r, s) /\ cur_y' = (IF nl THEN r + 1 ELSE r) * CharHeight
  BY ShowPlace
<1>1. /\ r \in 1..Rows /\ s \in 0..1 /\ c = r + s
      /\ CursorLine = top_y' + r * CharHeight
      /\ cur_y' = (IF nl THEN r + 1 ELSE r) * CharHeight
      /\ \A k \in Int : top_y' + k * CharHeight = top_y + (k + s) * CharHeight
  BY <1>0 DEF Placed
<1>2. Shows(n, nl) /\ t \in TextItems /\ top_y' \in Nat
  BY ShowIs
<1>3. /\ DOMAIN text = 1..Len(text) /\ DOMAIN text' = 1 .. Len(text) + 1 /\ Len(text') = Len(text) + 1 /\ Len(text) \in Nat
      /\ text'[1] = t /\ \A k \in 1..Len(text) : text'[k + 1] = text[k]
  BY <1>2, Prepend DEF TextInv, Shows
<1>4. t.y = top_y' + r * CharHeight /\ t.id = Len(text) + 1
  BY <1>1 DEF NewText
<1>5. cur_x' = (IF nl THEN 0 ELSE cur_x + n + 3) /\ cur_x \in Nat /\ Rows \in Nat
  BY <1>2, RowsFacts DEF Shows, Inv, MainInv
<1>. HIDE DEF t
<1>6. \A j \in DOMAIN text : j + 1 \in DOMAIN text' /\ text'[j + 1] = text[j]
  BY <1>3
<1>7. 1 \in DOMAIN text' /\ \A j \in DOMAIN text' : j = 1 \/ \E h \in DOMAIN text : text'[j] = text[h]
  <2>1. 1 \in DOMAIN text'
    BY <1>3
  <2>2. ASSUME NEW j \in DOMAIN text', j # 1 PROVE \E h \in DOMAIN text : text'[j] = text[h]
    <3>1. j - 1 \in DOMAIN text /\ j - 1 + 1 = j
      BY <1>3, <2>2
    <3>. QED  BY <1>6, <3>1
  <2>. QED  BY <2>1, <2>2
<1>8. ASSUME NEW k \in Int
      PROVE  RowOf(k)' = RowOf(k + s) \cup (IF k = r THEN {Len(text) + 1} ELSE {})
  <2>. DEFINE v == top_y' + k * CharHeight
  <2>1. v = top_y + (k + s) * CharHeight
    BY <1>1
  <2>2. k = r <=> t.y = v
    <3>1. r \in Int
      BY <1>1, <1>5
    <3>. QED  BY <1>2, <1>4, <3>1, SameLine
  <2>. HIDE DEF v
  <2>3. RowOf(k)' = {text'[j].id : j \in {j \in DOMAIN text' : text'[j].y = v}}
    BY DEF RowOf, v
  <2>4. RowOf(k + s) = {text[j].id : j \in {j \in DOMAIN text : text[j].y = v}}
    BY <2>1 DEF RowOf
  <2>5. ASSUME NEW e \in RowOf(k)' PROVE e \in RowOf(k + s) \cup (IF k = r THEN {Len(text) + 1} ELSE {})
    <3>1. PICK j \in DOMAIN text' : text'[j].y = v /\ e = text'[j].id
      BY <2>3, <2>5
    <3>2. CASE j = 1
      BY <1>3, <1>4, <2>2, <3>1, <3>2
    <3>3. ASSUME NEW h \in DOMAIN text, text'[j] = text[h] PROVE e \in RowOf(k + s)
      BY <2>4, <3>1, <3>3
    <3>. QED  BY <1>7, <3>2, <3>3
  <2>6. ASSUME NEW e \in RowOf(k + s) PROVE e \in RowOf(k)'
    <3>1. PICK j \in DOMAIN text : text[j].y = v /\ e = text[j].id
      BY <2>4, <2>6
    <3>2. j + 1 \in DOMAIN text' /\ text'[j + 1] = text[j]
      BY <1>6
    <3>. QED  BY <2>3, <3>1, <3>2
  <2>7. ASSUME k = r PROVE Len(text) + 1 \in RowOf(k)'
    BY <1>3, <1>4, <1>7, <2>2, <2>3, <2>7
  <2>. QED  BY <2>5, <2>6, <2>7
<1>9. ASSUME NEW k \in 1..r PROVE \E j \in DOMAIN text' : text'[j].y = top_y' + k * CharHeight
  <2>1. CASE k = r
    BY <1>3, <1>4, <1>7, <2>1
  <2>2. CASE k # r
    <3>1. k \in Int /\ k + s \in 1..Shown(c)
      BY <1>1, <1>5, <2>2 DEF Shown
    <3>2. PICK j \in DOMAIN text : text[j].y = top_y + (k + s) * CharHeight
      BY <3>1 DEF CursorIn
    <3>3. text[j].y = top_y' + k * CharHeight
      BY <1>1, <3>1, <3>2
    <3>. QED  BY <1>6, <3>3
  <2>. QED  BY <2>1, <2>2
<1>10. CursorIn(IF nl THEN r + 1 ELSE r)'
  <2>1. CASE nl
    <3>1. Shown(r + 1)' = r /\ cur_y' = (r + 1) * CharHeight /\ r + 1 \in Nat \ {0}
      BY <1>1, <1>5, <2>1 DEF Shown
    <3>2. CursorIn(r + 1)'
      BY <1>9, <3>1 DEF CursorIn
    <3>. QED  BY <2>1, <3>2
  <2>2. CASE ~nl
    <3>1. cur_x' # 0
      BY <1>5, <2>2
    <3>2. Shown(r)' = r /\ cur_y' = r * CharHeight /\ r \in Nat \ {0}
      BY <1>1, <1>5, <2>2, <3>1 DEF Shown
    <3>3. CursorIn(r)'
      BY <1>9, <3>2 DEF CursorIn
    <3>. QED  BY <2>2, <3>3
  <2>. QED  BY <2>1, <2>2
<1>. QED  BY <1>0, <1>8, <1>10

LEMMA OtherRows ==
    ASSUME UNCHANGED <<text, screen, top_y, cur_x, cur_y>>, NEW c, CursorIn(c) PROVE CursorIn(c)'
  BY DEF CursorIn, Shown

Lines == [k \in 1..Cardinality(Filled) |-> Row(k)]
LinesAre(c) ==
    TextInv /\ ScreenInv /\ cur_x \in Nat /\ CursorIn(c)
      => Shown(c) \in 0..Rows /\ Lines = [k \in 1..Shown(c) |-> RowOf(k)]

LinesAlways == \A c \in Nat : LinesAre(c)

LEMMA LinesKnown == LinesAlways
<1>. SUFFICES ASSUME NEW c \in Nat, TextInv, ScreenInv, cur_x \in Nat, CursorIn(c)
              PROVE  Shown(c) \in 0..Rows /\ Lines = [k \in 1..Shown(c) |-> RowOf(k)]
  BY DEF LinesAre, LinesAlways
<1>1. Shown(c) \in 0..Rows /\ Cardinality(Filled) = Shown(c)
  BY FilledIs
<1>2. Rows \in Nat
  BY RowsFacts
<1>3. \A k \in 1..Shown(c) : k \in 1..Rows
  BY <1>1, <1>2
<1>4. \A k \in 1..Shown(c) : Row(k) = RowOf(k)
  BY <1>3, RowIs
<1>. QED  BY <1>1, <1>4 DEF Lines

(* While no line is open the cursor's line holds no text.                  *)
LEMMA CursorRowEmpty ==
    ASSUME TextInv, NEW c, CursorIn(c), cur_x = 0 PROVE RowOf(c) = {}
<1>1. \A j \in DOMAIN text : text[j].y \in Int /\ text[j].y + CharHeight <= cur_y + top_y
  BY TextFacts DEF TextInv, CursorLine
<1>2. cur_y \in Nat /\ top_y \in Nat /\ CharHeight \in Nat \ {0} /\ cur_y = c * CharHeight
  BY UiAssumption DEF TextInv, CursorIn
<1>3. \A j \in DOMAIN text : text[j].y # top_y + cur_y
  BY <1>1, <1>2
<1>. QED  BY <1>2, <1>3 DEF RowOf

(* The first m lines of f, and r lines of f from line s + 1 on with        *)
(* message e in the last of them.                                          *)
Part(f, m) == [k \in 1..m |-> f[k]]
Written(f, r, s, e) == [k \in 1..r |-> f[k + s] \cup (IF k = r THEN {e} ELSE {})]

LEMMA PartIs ==
    ASSUME NEW m \in Nat, NEW f, NEW S, \A k \in 1..m : f[k] \in S
    PROVE  Part(f, m) \in Seq(S) /\ Len(Part(f, m)) = m
<1>1. Part(f, m) \in [1..m -> S]
  BY DEF Part
<1>. HIDE DEF Part
<1>. QED  BY <1>1

LEMMA Continued ==
    ASSUME NEW r \in Nat \ {0}, NEW f, NEW e
    PROVE  [Part(f, r) EXCEPT ![Len(Part(f, r))] = @ \cup {e}] = Written(f, r, 0, e)
<1>. DEFINE S == {f[k] : k \in 1..r}
<1>a. \A k \in 1..r : f[k] \in S
  OBVIOUS
<1>. HIDE DEF S
<1>1. Len(Part(f, r)) = r
  BY <1>a, PartIs
<1>2. \A k \in 1..r : k + 0 = k
  OBVIOUS
<1>. QED  BY <1>1, <1>2 DEF Part, Written

LEMMA Added ==
    ASSUME NEW m \in Nat, NEW f, NEW e, f[m + 1] = {}
    PROVE  Append(Part(f, m), {e}) = Written(f, m + 1, 0, e) /\ Len(Append(Part(f, m), {e})) = m + 1
<1>. DEFINE S == {f[k] : k \in 1..m} \cup {{e}}
            A == Append(Part(f, m), {e})
<1>1. Part(f, m) \in Seq(S) /\ Len(Part(f, m)) = m
  <2>1. \A k \in 1..m : f[k] \in S
    OBVIOUS
  <2>. HIDE DEF S
  <2>. QED  BY <2>1, PartIs
<1>2. {e} \in S
  OBVIOUS
<1>. HIDE DEF S
<1>3. /\ A \in Seq(S) /\ Len(A) = m + 1 /\ DOMAIN A = 1 .. m + 1 /\ A[m + 1] = {e}
      /\ \A k \in 1..m : A[k] = Part(f, m)[k]
  BY <1>1, <1>2, AppendProperties
<1>. HIDE DEF A
<1>4. \A k \in 1 .. m + 1 : A[k] = f[k + 0] \cup (IF k = m + 1 THEN {e} ELSE {})
  BY <1>3 DEF Part
<1>5. A = [k \in 1 .. m + 1 |-> A[k]]
  BY <1>3
<1>6. A = Written(f, m + 1, 0, e)
  BY <1>4, <1>5 DEF Written
<1>. QED  BY <1>3, <1>6 DEF A

LEMMA Scrolled ==
    ASSUME NEW m \in Nat, NEW f, NEW e, f[m + 1] = {}
    PROVE  SubSeq(Append(Part(f, m), {e}), 2, m + 1) = Written(f, m, 1, e)
<1>. DEFINE A == Append(Part(f, m), {e})
            B == SubSeq(A, 2, m + 1)
            S == {A[i] : i \in 2 .. m + 1}
<1>1. A = Written(f, m + 1, 0, e)
  BY Added
<1>. HIDE DEF A
<1>2. \A i \in 2 .. m + 1 : A[i] \in S
  OBVIOUS
<1>. HIDE DEF S
<1>3. /\ B \in Seq(S) /\ Len(B) = m /\ \A i \in 1..m : B[i] = A[i + 1]
  <2>1. /\ B \in Seq(S)
        /\ Len(B) = IF 2 <= m + 1 THEN m + 1 - 2 + 1 ELSE 0
        /\ \A i \in 1 .. m + 1 - 2 + 1 : B[i] = A[2 + i - 1]
    <3>1. 2 \in Int /\ m + 1 \in Int /\ m + 1 - 2 + 1 = m
      OBVIOUS
    <3>. QED  BY <1>2, <3>1, SubSeqProperties
  <2>. HIDE DEF B
  <2>. QED  BY <2>1
<1>. HIDE DEF B
<1>4. \A k \in 1..m : A[k + 1] = f[k + 1] \cup (IF k = m THEN {e} ELSE {})
  <2>1. ASSUME NEW k \in 1..m PROVE k + 1 \in 1 .. m + 1 /\ k + 1 + 0 = k + 1 /\ (k + 1 = m + 1 <=> k = m)
    OBVIOUS
  <2>. QED  BY <1>1, <2>1 DEF Written
<1>5. B = [k \in 1..m |-> B[k]]
  BY <1>3
<1>6. B = Written(f, m, 1, e)
  BY <1>3, <1>4, <1>5 DEF Written
<1>. QED  BY <1>6 DEF A, B

LEMMA ShowFrom ==
    ASSUME NEW nl \in BOOLEAN, Len(text') = Len(text) + 1, cur_x' # 0 <=> ~nl,
           IF cur_x # 0 THEN Lines' = [Lines EXCEPT ![Len(Lines)] = @ \cup {Len(text) + 1}]
                        ELSE Lines' = Display!LastRows(Append(Lines, {Len(text) + 1}))
    PROVE  Display!Show(nl)
<1>1. (cur_x' # 0) = (~nl)
  BY Zenon
<1>2. CASE cur_x # 0
  BY <1>1, <1>2, Zenon DEF Display!Show, Lines
<1>3. CASE cur_x = 0
  BY <1>1, <1>3, Zenon DEF Display!Show, Lines
<1>. QED  BY <1>2, <1>3

(* show_message is a message on the terminal.                              *)
LEMMA ShowRefines ==
    ASSUME Inv, TextInv, ScreenInv, TextInv', ScreenInv', main \in {"start", "recv"},
           NEW n \in Nat, NEW nl \in BOOLEAN, show_message(n, nl), RowInv
    PROVE  RowInv' /\ Display!Show(nl)
<1>0. PICK c \in Nat : CursorIn(c)
  BY DEF RowInv
<1>1. PICK r \in 1..Rows, s \in 0..1 :
        /\ Placed(c, r, s)
        /\ CursorIn(IF nl THEN r + 1 ELSE r)'
        /\ \A k \in Int : RowOf(k)' = RowOf(k + s) \cup (IF k = r THEN {Len(text) + 1} ELSE {})
  BY <1>0, ShowRows
<1>2. /\ s = (IF cur_y > Height THEN 1 ELSE 0) /\ c = r + s /\ r \in Nat \ {0} /\ r <= Rows /\ Rows \in Nat
  BY <1>1, RowsFacts DEF Placed
<1>3. /\ Shows(n, nl) /\ cur_x \in Nat /\ cur_x' = (IF nl THEN 0 ELSE cur_x + n + 3) /\ cur_x' \in Nat
      /\ Len(text') = Len(text) + 1
  <2>1. Shows(n, nl) /\ NewText(n) \in TextItems
    BY ShowIs
  <2>2. cur_x \in Nat
    BY DEF Inv, MainInv
  <2>3. cur_x' = (IF nl THEN 0 ELSE cur_x + n + 3)
    BY <2>1 DEF Shows
  <2>4. Len(text') = Len(text) + 1
    BY <2>1, Prepend DEF TextInv, Shows
  <2>. QED  BY <2>1, <2>2, <2>3, <2>4
<1>4. PICK e : e = Len(text) + 1
  OBVIOUS
<1>5. PICK f : f = [k \in Nat |-> RowOf(k)]
  OBVIOUS
<1>6. PICK m \in 0..Rows : m = Shown(c) /\ Lines = Part(f, m)
  <2>1. LinesAre(c)
    BY LinesKnown DEF LinesAlways
  <2>2. Shown(c) \in 0..Rows /\ Lines = [k \in 1..Shown(c) |-> RowOf(k)]
    BY <1>0, <1>3, <2>1 DEF LinesAre
  <2>3. \A k \in 1..Shown(c) : f[k] = RowOf(k)
    BY <1>5
  <2>. QED  BY <2>2, <2>3 DEF Part
<1>7. RowInv' /\ Lines' = Written(f, r, s, e)
  <2>. DEFINE d == IF nl THEN r + 1 ELSE r
  <2>1. LinesAlways'
    BY LinesKnown, PTL
  <2>2. d \in Nat /\ CursorIn(d)'
    BY <1>1, <1>2
  <2>3. Shown(d)' = r
    BY <1>2, <1>3 DEF Shown
  <2>. HIDE DEF d
  <2>4. LinesAre(d)'
    BY <2>1, <2>2 DEF LinesAlways
  <2>5. Lines' = [k \in 1..r |-> RowOf(k)']
    BY <1>3, <2>2, <2>3, <2>4 DEF LinesAre
  <2>6. \A k \in 1..r : RowOf(k)' = f[k + s] \cup (IF k = r THEN {e} ELSE {})
    BY <1>1, <1>2, <1>4, <1>5
  <2>. QED  BY <2>2, <2>5, <2>6 DEF RowInv, Written
<1>a. cur_x' # 0 <=> ~nl
  BY <1>3
<1>8. CASE cur_x # 0
  <2>1. cur_y \in Nat /\ ~(cur_y > Height)
    BY <1>8 DEF TextInv
  <2>3. s = 0 /\ m = r
    BY <1>2, <1>6, <1>8, <2>1 DEF Shown
  <2>4. Lines' = [Lines EXCEPT ![Len(Lines)] = @ \cup {Len(text) + 1}]
    <3>1. Lines = Part(f, r) /\ e = Len(text) + 1 /\ r \in Nat \ {0}
      BY <1>2, <1>4, <1>6, <2>3
    <3>2. Lines' = Written(f, r, 0, e)
      BY <1>7, <2>3
    <3>3. Written(f, r, 0, e) = [Part(f, r) EXCEPT ![Len(Part(f, r))] = @ \cup {e}]
      BY <3>1, Continued
    <3>. QED  BY <3>1, <3>2, <3>3, Zenon
  <2>. QED  BY <1>3, <1>7, <1>8, <1>a, <2>4, ShowFrom
<1>9. CASE cur_x = 0
  <2>1. m \in Nat /\ c = m + 1
    BY <1>2, <1>6, <1>9 DEF Shown
  <2>2. f[m + 1] = {}
    BY <1>0, <1>5, <1>9, <2>1, CursorRowEmpty
  <2>3. Len(Append(Lines, {e})) = m + 1
    BY <1>6, <2>1, <2>2, Added
  <2>4. CASE s = 0
    <3>1. r = m + 1 /\ m + 1 <= Rows
      BY <1>2, <2>1, <2>4
    <3>2. Lines' = Append(Lines, {e})
      BY <1>6, <1>7, <2>1, <2>2, <2>4, <3>1, Added
    <3>3. Lines' = Display!LastRows(Append(Lines, {Len(text) + 1}))
      BY <1>4, <2>3, <3>1, <3>2 DEF Display!LastRows
    <3>. QED  BY <1>3, <1>7, <1>9, <1>a, <3>3, ShowFrom
  <2>5. CASE s # 0
    <3>1. s = 1 /\ r = m /\ cur_y > Height
      BY <1>1, <1>2, <2>1, <2>5
    <3>2. m = Rows
      <4>1. /\ CharHeight \in Nat \ {0} /\ Height \in Nat /\ Rows * CharHeight \in Int /\ Rows * CharHeight <= Height
            /\ cur_y = c * CharHeight /\ cur_y \in Nat
        BY <1>0, RowsFacts DEF CursorIn, TextInv
      <4>2. c <= Rows => c * CharHeight <= Rows * CharHeight
        BY <1>0, <1>2, <4>1, Times
      <4>. QED  BY <1>0, <1>2, <2>1, <3>1, <4>1, <4>2
    <3>3. Lines' = SubSeq(Append(Lines, {e}), 2, m + 1)
      BY <1>6, <1>7, <2>1, <2>2, <3>1, Scrolled
    <3>a. PICK A : A = Append(Lines, {e})
      OBVIOUS
    <3>b. PICK l \in Nat : l = Len(A) /\ l = m + 1
      BY <2>1, <2>3, <3>a
    <3>4. ~(l <= Rows) /\ (l - Rows) + 1 = 2
      BY <1>2, <2>1, <3>2, <3>b
    <3>c. Lines' = SubSeq(A, 2, l)
      BY <3>3, <3>a, <3>b
    <3>d. Display!LastRows(A) = SubSeq(A, 2, l)
      BY <3>4, <3>b, Zenon DEF Display!LastRows
    <3>5. Lines' = Display!LastRows(Append(Lines, {Len(text) + 1}))
      BY <1>4, <3>a, <3>c, <3>d
    <3>. QED  BY <1>3, <1>7, <1>9, <1>a, <3>5, ShowFrom
  <2>. QED  BY <2>4, <2>5
<1>. QED  BY <1>3, <1>8, <1>9

LEMMA OtherLines ==
    ASSUME UNCHANGED <<text, screen, top_y, cur_x, cur_y>>
    PROVE  UNCHANGED <<Lines, cur_x # 0, Len(text)>>
<1>1. \A k : Row(k)' = Row(k)
  BY DEF Row
<1>2. Filled' = Filled
  BY <1>1 DEF Filled
<1>. QED  BY <1>1, <1>2 DEF Lines

LEMMA NextRefines ==
    ASSUME Inv, TextInv, ScreenInv, TextInv', ScreenInv', RowInv, [Next]_vars
    PROVE  RowInv' /\ [Display!Next]_<<Lines, cur_x # 0, Len(text)>>
<1>1. CASE StartFails \/ ReceiveFails \/ Message
  <2>1. main \in {"start", "recv"} /\ \E n \in Nat, nl \in BOOLEAN : show_message(n, nl)
    BY <1>1, ShowSteps
  <2>2. PICK n \in Nat, nl \in BOOLEAN : show_message(n, nl)
    BY <2>1
  <2>3. RowInv' /\ Display!Show(nl)
    BY <2>1, <2>2, ShowRefines
  <2>. QED  BY <2>3 DEF Display!Next
<1>2. CASE ~(StartFails \/ ReceiveFails \/ Message)
  <2>1. UNCHANGED <<text, screen, top_y, cur_x, cur_y>>
    BY <1>2, OtherText
  <2>2. PICK c \in Nat : CursorIn(c)
    BY DEF RowInv
  <2>. QED  BY <2>1, <2>2, OtherRows, OtherLines DEF RowInv
<1>. QED  BY <1>1, <1>2

LEMMA InitRefines == Init => RowInv /\ Display!Init
<1>. SUFFICES ASSUME Init PROVE RowInv /\ Display!Init
  OBVIOUS
<1>1. text = << >> /\ DOMAIN text = {} /\ screen = {} /\ cur_x = 0 /\ cur_y = CharHeight
  BY DEF Init
<1>2. CharHeight \in Nat /\ 1 * CharHeight = CharHeight
  BY UiAssumption
<1>3. Shown(1) = 0 /\ 1..0 = {}
  BY <1>1 DEF Shown
<1>4. CursorIn(1)
  BY <1>1, <1>2, <1>3 DEF CursorIn
<1>5. \A k : Row(k) = {}
  BY <1>1 DEF Row
<1>6. Filled = {} /\ Cardinality(Filled) = 0
  BY <1>5, FS_EmptySet DEF Filled
<1>7. Lines = << >>
  BY <1>3, <1>6 DEF Lines
<1>8. Len(text) = 0 /\ (cur_x # 0) = FALSE
  BY <1>1
<1>. QED  BY <1>4, <1>7, <1>8 DEF RowInv, Display!Init, Lines

(* The display is the terminal its messages assume: each message appears   *)
(* once, after the ones before it, on the open line or on a new one below  *)
(* it, and the oldest line goes when the screen is full; spinner, threads  *)
(* and the other steps change nothing a reader sees (ui_server.c 150-184,  *)
(* 227-263).                                                               *)
THEOREM TerminalImplemented == Spec => ImplementsTerminal
<1>. DEFINE J == Inv /\ TextInv /\ ScreenInv
<1>1. Init => RowInv /\ Display!Init
  BY InitRefines
<1>2. J /\ J' /\ RowInv /\ [Next]_vars
        => RowInv' /\ [Display!Next]_<<[k \in 1..Cardinality(Filled) |-> Row(k)], cur_x # 0, Len(text)>>
  BY NextRefines DEF Lines
<1>3. Spec => []J
  BY ScreenHolds, PTL
<1>. QED  BY <1>1, <1>2, <1>3, PTL DEF Spec, ImplementsTerminal, Display!Spec
=============================================================================
