----------------------------- MODULE Boot_proofs -----------------------------
(***************************************************************************)
(* What the operator gets to see, for every screen, queue length and run   *)
(* of flash.sh.                                                            *)
(***************************************************************************)
EXTENDS Boot, TLAPS, SequenceTheorems

Messages == {"A", "B"}

(* Messages sent or to be sent, but not shown yet: the queue, then todo.   *)
Pending == Len(queue) + Len(todo)
At(i) == IF i <= Len(queue) THEN queue[i] ELSE todo[i - Len(queue)]

(* rcS leaves its loop after five seconds at the earliest, since the test  *)
(* in it is never true; before, nothing is sent.                           *)
WaitInv ==
    /\ server = "bound" <=> since < 6
    /\ pc \notin {"start", "poll"} => clock = 5
    /\ (lost # 0 => clock = 5) /\ (since < 5 => lost = 0)
    /\ pc \in {"start", "poll", "flash"} => lost = 0 /\ queue = << >> /\ todo = << >> /\ ~open
    /\ pc = "start" => server = "none"
    /\ server \in {"none", "starting", "dead"} => queue = << >>

(* While flash.sh runs, the last message to come will finish its line.     *)
FlashingInv ==
    pc = "flashing" /\ lost = 0 => IF Pending = 0 THEN ~open ELSE At(Pending) = "A"

(* After a failure the last messages to come are the banner and the end of *)
(* the line before it; what of the banner has been shown is at the bottom  *)
(* of the screen.                                                          *)
BannerInv ==
    pc \in {"verdict", "ended"} /\ outcome = "failed" /\ lost = 0 =>
      /\ \A i \in 1..Pending : i > Pending - 4 => At(i) = "A"
      /\ Pending <= 3 /\ Rows >= 3 =>
           /\ ~open /\ Len(lines) >= 3 - Pending
           /\ \A k \in 0 .. 2 - Pending : lines[Len(lines) - k] = {count - k}
      /\ pc = "ended" => todo = << >>

Inv ==
    /\ TypeOK /\ lines \in Seq(SUBSET Nat) /\ (open => lines # << >>)
    /\ pc = "verdict" => outcome \in {"success", "failed"}
    /\ pc = "ended" => outcome = "failed"
    /\ WaitInv /\ FlashingInv /\ BannerInv

LEMMA InitInv == Init => Inv
<1>. SUFFICES ASSUME Init PROVE Inv
  OBVIOUS
<1>1. /\ pc = "start" /\ clock = 0 /\ server = "none" /\ since = 6 /\ queue = << >> /\ todo = << >>
      /\ outcome = "none" /\ lost = 0 /\ lines = << >> /\ open = FALSE /\ count = 0
  BY DEF Init, Screen!Init
<1>2. queue \in Seq({"A", "B"}) /\ todo \in Seq({"A", "B"}) /\ Len(queue) = 0 /\ lines \in Seq(SUBSET Nat)
  BY <1>1
<1>3. TypeOK
  <2>1. QueueLen \in Nat /\ 0 <= QueueLen
    BY BootAssumption
  <2>2. clock \in 0..5 /\ since \in 0..6 /\ lost \in Nat /\ count \in Nat
    BY <1>1
  <2>3. Len(queue) <= QueueLen
    BY <1>2, <2>1
  <2>. QED  BY <1>1, <1>2, <2>2, <2>3, Zenon DEF TypeOK
<1>. QED  BY <1>1, <1>2, <1>3 DEF Inv, WaitInv, FlashingInv, BannerInv

(* A message that is sent moves from todo to the queue: what is pending    *)
(* stays the same.                                                         *)
LEMMA SendKeeps ==
    ASSUME queue \in Seq(Messages), todo \in Seq(Messages), todo # << >>,
           queue' = Append(queue, Head(todo)), todo' = Tail(todo)
    PROVE  Pending' = Pending /\ \A i \in 1..Pending : At(i)' = At(i)
<1>1. Len(queue') = Len(queue) + 1 /\ Len(todo') = Len(todo) - 1 /\ Len(todo) \in Nat \ {0} /\ Len(queue) \in Nat
  OBVIOUS
<1>2. Pending' = Pending
  BY <1>1 DEF Pending
<1>3. ASSUME NEW i \in 1..Pending
      PROVE  At(i)' = At(i)
  <2>1. CASE i <= Len(queue)
    BY <2>1, <1>1 DEF At
  <2>2. CASE i = Len(queue) + 1
    BY <2>2, <1>1 DEF At
  <2>3. CASE i > Len(queue) + 1
    BY <2>3, <1>1, <1>3 DEF At, Pending
  <2>. QED  BY <1>1, <2>1, <2>2, <2>3 DEF Pending
<1>. QED  BY <1>2, <1>3

(* A message that is shown was the first of the pending ones.              *)
LEMMA ServeShifts ==
    ASSUME queue \in Seq(Messages), todo \in Seq(Messages), queue # << >>,
           queue' = Tail(queue), todo' = todo
    PROVE  /\ Pending \in Nat \ {0} /\ Pending' = Pending - 1
           /\ Head(queue) = At(1) /\ \A i \in 1..Pending' : At(i)' = At(i + 1)
<1>1. Len(queue') = Len(queue) - 1 /\ Len(queue) \in Nat \ {0} /\ Len(todo) \in Nat
  OBVIOUS
<1>2. \A i \in 1..Len(queue') : queue'[i] = queue[i + 1]
  OBVIOUS
<1>3. Pending \in Nat \ {0} /\ Pending' = Pending - 1 /\ Head(queue) = At(1)
  BY <1>1 DEF Pending, At
<1>4. ASSUME NEW i \in 1..Pending'
      PROVE  At(i)' = At(i + 1)
  BY <1>1, <1>2 DEF At, Pending
<1>. QED  BY <1>3, <1>4

(* Showing a message on a screen whose last line is finished.              *)
LEMMA ShowOnNewLine ==
    ASSUME lines \in Seq(SUBSET Nat), count \in Nat, Rows \in Nat \ {0}, ~open,
           NEW nl \in BOOLEAN, Screen!Show(nl)
    PROVE  /\ lines' \in Seq(SUBSET Nat) /\ count' = count + 1 /\ open' = ~nl
           /\ Len(lines') = (IF Len(lines) < Rows THEN Len(lines) + 1 ELSE Rows)
           /\ lines'[Len(lines')] = {count'}
           /\ \A k \in 1 .. Len(lines') - 1 : lines'[Len(lines') - k] = lines[Len(lines) - (k - 1)]
<1>. DEFINE s == Append(lines, {count + 1})
<1>1. lines' = Screen!LastRows(s) /\ count' = count + 1 /\ open' = ~nl
  BY DEF Screen!Show
<1>2. s \in Seq(SUBSET Nat) /\ Len(s) = Len(lines) + 1 /\ s[Len(lines) + 1] = {count + 1}
  OBVIOUS
<1>3. \A i \in 1..Len(lines) : s[i] = lines[i]
  OBVIOUS
<1>. HIDE DEF s
<1>4. CASE Len(s) <= Rows
  BY <1>1, <1>2, <1>3, <1>4 DEF Screen!LastRows
<1>5. CASE ~(Len(s) <= Rows)
  <2>1. lines' = SubSeq(s, Len(s) - Rows + 1, Len(s))
    BY <1>1, <1>5 DEF Screen!LastRows
  <2>2. Len(s) \in Nat /\ Len(s) - Rows + 1 \in 1..Len(s)
    BY <1>2, <1>5
  <2>3. lines' \in Seq(SUBSET Nat) /\ Len(lines') = Rows
    BY <1>2, <2>1, <2>2
  <2>4. \A i \in 1..Rows : lines'[i] = s[Len(s) - Rows + i]
    BY <1>2, <2>1, <2>2
  <2>5. Len(lines) \in Nat /\ ~(Len(lines) < Rows) /\ Rows <= Len(s)
    BY <1>2, <1>5
  <2>6. lines'[Len(lines')] = {count'}
    BY <1>1, <1>2, <2>2, <2>3, <2>4, <2>5
  <2>7. ASSUME NEW k \in 1 .. Len(lines') - 1 PROVE lines'[Len(lines') - k] = lines[Len(lines) - (k - 1)]
    <3>1. Rows - k \in 1..Rows /\ Len(lines) + 1 - k \in 1..Len(lines)
      BY <2>3, <2>5
    <3>2. lines'[Rows - k] = s[Len(s) - Rows + (Rows - k)]
      BY <2>4, <3>1
    <3>3. Len(s) - Rows + (Rows - k) = Len(lines) + 1 - k /\ Len(lines) + 1 - k = Len(lines) - (k - 1)
      BY <1>2, <2>2, <2>5
    <3>. QED  BY <1>3, <2>3, <3>1, <3>2, <3>3
  <2>. QED  BY <1>1, <2>3, <2>5, <2>6, <2>7
<1>. QED  BY <1>4, <1>5

LEMMA NextInv == Inv /\ [Next]_vars => Inv'
<1>. SUFFICES ASSUME Inv, [Next]_vars PROVE Inv'
  OBVIOUS
<1>. USE BootAssumption DEF Inv
<1>1. CASE StartServer
  BY <1>1 DEF StartServer, TypeOK, WaitInv, FlashingInv, BannerInv, screen
<1>2. CASE PollSocket
  BY <1>2 DEF PollSocket, RegularFile, TypeOK, WaitInv, FlashingInv, BannerInv, screen
<1>3. CASE Flash
  <2>1. todo' \in Traces /\ todo' \in Seq(Messages) /\ queue' = << >> /\ pc' = "flashing" /\ ~open'
    BY <1>3 DEF Flash, Messages, WaitInv, screen
  <2>2. FlashingInv'
    <3>1. Len(todo') \in Nat /\ Pending' = Len(todo')
      BY <2>1 DEF Pending
    <3>2. Len(todo') # 0 => todo' # << >>
      OBVIOUS
    <3>. QED  BY <2>1, <3>1, <3>2 DEF FlashingInv, At
  <2>. QED  BY <1>3, <2>1, <2>2 DEF Flash, TypeOK, WaitInv, BannerInv, Messages, screen
<1>4. CASE SendMessage
  <2>0. /\ queue \in Seq(Messages) /\ todo \in Seq(Messages) /\ todo # << >> /\ todo' = Tail(todo)
        /\ pc \in {"flashing", "verdict"} /\ pc' = pc /\ outcome' = outcome /\ server' = server
        /\ since' = since /\ clock' = clock /\ lines' = lines /\ open' = open /\ count' = count
    BY <1>4 DEF SendMessage, TypeOK, Messages, screen
  <2>1. CASE server = "bound"
    <3>1. queue' = Append(queue, Head(todo)) /\ lost' = lost /\ Len(queue) < QueueLen
      BY <1>4, <2>1 DEF SendMessage
    <3>2. Pending' = Pending /\ \A i \in 1..Pending : At(i)' = At(i)
      BY <2>0, <3>1, SendKeeps
    <3>3. Pending \in Nat
      BY <2>0 DEF Pending
    <3>4. TypeOK'
      BY <2>0, <3>1 DEF TypeOK, Messages
    <3>5. FlashingInv'
      BY <2>0, <3>1, <3>2, <3>3 DEF FlashingInv
    <3>6. BannerInv'
      BY <2>0, <3>1, <3>2, <3>3 DEF BannerInv
    <3>7. WaitInv'
      BY <2>0, <2>1, <3>1 DEF WaitInv
    <3>. QED  BY <2>0, <3>4, <3>5, <3>6, <3>7
  <2>2. CASE server # "bound"
    <3>1. queue' = queue /\ lost' = lost + 1
      BY <1>4, <2>2 DEF SendMessage
    <3>2. lost' # 0 /\ clock = 5 /\ lost' \in Nat
      BY <2>0, <3>1 DEF WaitInv, TypeOK
    <3>3. TypeOK'
      BY <2>0, <3>1, <3>2 DEF TypeOK, Messages
    <3>4. ~(since < 6)
      BY <2>2 DEF WaitInv
    <3>5. WaitInv'
      BY <2>0, <2>2, <3>1, <3>2, <3>4, <3>3 DEF WaitInv, TypeOK
    <3>. QED  BY <2>0, <3>1, <3>2, <3>3, <3>5 DEF FlashingInv, BannerInv
  <2>. QED  BY <2>1, <2>2
<1>5. CASE Verdict
  <2>0. /\ pc = "flashing" /\ todo = << >> /\ pc' = "verdict" /\ outcome' \in {"success", "failed"}
        /\ todo' = (IF outcome' = "success" THEN SuccessMessages ELSE FailureMessages)
        /\ queue' = queue /\ server' = server /\ since' = since /\ clock' = clock /\ lost' = lost
        /\ lines' = lines /\ open' = open /\ count' = count
    BY <1>5 DEF Verdict, screen
  <2>1. todo' \in Seq({"A", "B"}) /\ queue \in Seq({"A", "B"})
    <3>1. <<"B", "B", "B", "B">> \in Seq({"A", "B"}) /\ <<"A", "A", "A">> \in Seq({"A", "B"})
      OBVIOUS
    <3>. QED  BY <2>0, <3>1 DEF SuccessMessages, FailureMessages, TypeOK
  <2>2. TypeOK'
    BY <2>0, <2>1 DEF TypeOK
  <2>3. BannerInv'
    <3>. SUFFICES ASSUME outcome' = "failed", lost = 0
                  PROVE  /\ \A i \in 1..Pending' : i > Pending' - 4 => At(i)' = "A"
                         /\ Pending' <= 3 => ~open /\ Len(lines) >= 3 - Pending' /\ 2 - Pending' < 0
      BY <2>0 DEF BannerInv, Pending
    <3>1. todo' = <<"A", "A", "A">> /\ Len(queue) \in Nat /\ Pending' = Len(queue) + 3 /\ Pending = Len(queue)
      BY <2>0, <2>1 DEF FailureMessages, Pending
    <3>2. IF Len(queue) = 0 THEN ~open ELSE queue[Len(queue)] = "A"
      BY <2>0, <3>1 DEF FlashingInv, At
    <3>3. \A i \in 1..Pending' : i > Pending' - 4 => At(i)' = "A"
      <4>. SUFFICES ASSUME NEW i \in 1 .. Len(queue) + 3, i >= Len(queue)
                    PROVE  At(i)' = "A"
        BY <3>1
      <4>1. CASE i = Len(queue)
        BY <4>1, <2>0, <3>1, <3>2 DEF At
      <4>2. CASE i > Len(queue)
        <5>1. i - Len(queue) \in 1..3 /\ ~(i <= Len(queue))
          BY <4>2, <3>1
        <5>2. \A j \in 1..3 : todo'[j] = "A"
          BY <3>1
        <5>. QED  BY <5>1, <5>2, <2>0 DEF At
      <4>. QED  BY <3>1, <4>1, <4>2
    <3>. QED  BY <3>1, <3>2, <3>3
  <2>. QED  BY <2>0, <2>2, <2>3 DEF WaitInv, FlashingInv
<1>6. CASE Finish
  BY <1>6 DEF Finish, TypeOK, WaitInv, FlashingInv, BannerInv, Pending, At, screen
<1>7. CASE Bind
  BY <1>7 DEF Bind, TypeOK, WaitInv, FlashingInv, BannerInv, Pending, At, screen
<1>8. CASE Serve
  <2>0. /\ queue \in Seq(Messages) /\ todo \in Seq(Messages) /\ queue # << >> /\ queue' = Tail(queue)
        /\ pc' = pc /\ outcome' = outcome /\ server' = server /\ server = "bound"
        /\ since' = since /\ clock' = clock /\ lost' = lost /\ todo' = todo
        /\ Screen!Show(Head(queue) = "A") /\ pc \notin {"start", "poll", "flash"}
    BY <1>8 DEF Serve, TypeOK, Messages, WaitInv
  <2>1. /\ Pending \in Nat \ {0} /\ Pending' = Pending - 1
        /\ Head(queue) = At(1) /\ \A i \in 1..Pending' : At(i)' = At(i + 1)
    BY <2>0, ServeShifts
  <2>2. lines \in Seq(SUBSET Nat) /\ count \in Nat /\ open \in BOOLEAN
    BY DEF TypeOK
  <2>3. count' = count + 1 /\ open' = (At(1) # "A")
    BY <2>0, <2>1 DEF Screen!Show
  <2>4. lines' \in Seq(SUBSET Nat) /\ lines' # << >>
    <3>1. CASE open
      <4>1. Len(lines) \in 1..Len(lines) /\ lines[Len(lines)] \cup {count + 1} \in SUBSET Nat
        BY <2>2, <3>1
      <4>2. lines' = [lines EXCEPT ![Len(lines)] = lines[Len(lines)] \cup {count + 1}]
        BY <2>0, <3>1 DEF Screen!Show
      <4>. QED  BY <2>2, <4>1, <4>2, ExceptSeq
    <3>2. CASE ~open
      <4>. DEFINE nl == Head(queue) = "A"
      <4>1. nl \in BOOLEAN
        OBVIOUS
      <4>2. Screen!Show(nl)
        BY <2>0
      <4>. HIDE DEF nl
      <4>3. lines' \in Seq(SUBSET Nat) /\ Len(lines') = (IF Len(lines) < Rows THEN Len(lines) + 1 ELSE Rows)
        BY <4>1, <4>2, <2>2, <3>2, ShowOnNewLine
      <4>. QED  BY <4>3, <2>2
    <3>. QED  BY <2>2, <3>1, <3>2
  <2>5. TypeOK'
    BY <2>0, <2>2, <2>3 DEF TypeOK, Messages
  <2>6. WaitInv'
    BY <2>0 DEF WaitInv
  <2>7. FlashingInv'
    <3>1. Pending' # 0 => At(Pending)' = At(Pending)
      BY <2>1 DEF At
    <3>2. CASE Pending = 1
      <4>. SUFFICES ASSUME pc = "flashing", lost = 0 PROVE ~open'
        BY <3>2, <2>0, <2>1 DEF FlashingInv
      <4>1. At(1) = "A"
        BY <3>2 DEF FlashingInv
      <4>. QED  BY <4>1, <2>3
    <3>3. CASE Pending # 1
      BY <3>3, <2>0, <2>1, <3>1 DEF FlashingInv
    <3>. QED  BY <3>2, <3>3
  <2>8. BannerInv'
    <3>. SUFFICES ASSUME pc \in {"verdict", "ended"}, outcome = "failed", lost = 0
                  PROVE  /\ \A i \in 1..Pending' : i > Pending' - 4 => At(i)' = "A"
                         /\ Pending' <= 3 /\ Rows >= 3 =>
                              /\ ~open' /\ Len(lines') >= 3 - Pending'
                              /\ \A k \in 0 .. 2 - Pending' : lines'[Len(lines') - k] = {count' - k}
                         /\ pc = "ended" => todo = << >>
      BY <2>0 DEF BannerInv
    <3>1. \A i \in 1..Pending' : i > Pending' - 4 => At(i)' = "A"
      BY <2>1 DEF BannerInv
    <3>2. ASSUME Pending' <= 3, Rows >= 3
          PROVE  /\ ~open' /\ Len(lines') >= 3 - Pending'
                 /\ \A k \in 0 .. 2 - Pending' : lines'[Len(lines') - k] = {count' - k}
      <4>1. ~open'
        <5>1. 1 \in 1..Pending /\ 1 > Pending - 4
          BY <2>1, <3>2
        <5>2. At(1) = "A"
          BY <5>1 DEF BannerInv
        <5>. QED  BY <2>3, <5>2
      <4>2. CASE Pending = 4
        BY <4>1, <4>2, <2>1, <2>4
      <4>3. CASE Pending <= 3
        <5>1. /\ ~open /\ Len(lines) >= 3 - Pending
              /\ \A k \in 0 .. 2 - Pending : lines[Len(lines) - k] = {count - k}
          BY <3>2, <4>3 DEF BannerInv
        <5>2. /\ Len(lines') = (IF Len(lines) < Rows THEN Len(lines) + 1 ELSE Rows)
              /\ lines'[Len(lines')] = {count'}
              /\ \A k \in 1 .. Len(lines') - 1 : lines'[Len(lines') - k] = lines[Len(lines) - (k - 1)]
          BY <5>1, <2>0, <2>2, ShowOnNewLine
        <5>3. Len(lines') >= 3 - Pending' /\ Len(lines) \in Nat /\ Len(lines') \in Nat
          BY <5>1, <5>2, <2>1, <2>2, <2>4, <3>2
        <5>4. ASSUME NEW k \in 0 .. 2 - Pending'
              PROVE  lines'[Len(lines') - k] = {count' - k}
          <6>1. CASE k = 0
            BY <6>1, <5>2, <5>3, <2>2, <2>3
          <6>2. CASE k # 0
            <7>1. k \in 1 .. Len(lines') - 1 /\ k - 1 \in 0 .. 2 - Pending /\ count' - k = count - (k - 1)
              BY <6>2, <5>3, <2>1, <2>2, <2>3
            <7>. QED  BY <7>1, <5>1, <5>2
          <6>. QED  BY <6>1, <6>2
        <5>. QED  BY <4>1, <5>3, <5>4
      <4>. QED  BY <2>1, <3>2, <4>2, <4>3
    <3>3. pc = "ended" => todo = << >>
      BY DEF BannerInv
    <3>. QED  BY <3>1, <3>2, <3>3
  <2>. QED  BY <2>0, <2>4, <2>5, <2>6, <2>7, <2>8
<1>9. CASE Die
  BY <1>9 DEF Die, TypeOK, WaitInv, FlashingInv, BannerInv, Pending, At, screen
<1>10. CASE UNCHANGED vars
  BY <1>10 DEF vars, TypeOK, WaitInv, FlashingInv, BannerInv, Pending, At, screen
<1>. QED  BY <1>1, <1>2, <1>3, <1>4, <1>5, <1>6, <1>7, <1>8, <1>9, <1>10 DEF Next, Rcs, Server

(* A server that has its socket within the five seconds misses nothing,    *)
(* although the test for the socket never succeeds (rcS 19-28).            *)
THEOREM NothingLostHolds == Spec => []NothingLost
<1>1. Inv => NothingLost
  BY DEF Inv, NothingLost, WaitInv
<1>. QED  BY <1>1, InitInv, NextInv, PTL DEF Spec

(* After a failure the banner is at the bottom of the screen, a line for   *)
(* each of its messages, whatever flash.sh has shown before (rcS 39-41).   *)
THEOREM FailureOnScreenHolds == Spec => []FailureOnScreen
<1>1. Inv => FailureOnScreen
  <2>. SUFFICES ASSUME Inv, pc = "ended", queue = << >>, lost = 0, Rows >= 3
                PROVE  /\ Len(lines) >= 3 /\ ~open
                       /\ \A k \in 0..2 : lines[Len(lines) - k] = {count - k}
    BY DEF FailureOnScreen
  <2>1. todo = << >> /\ Pending = 0
    BY DEF Inv, BannerInv, Pending
  <2>. QED  BY <2>1 DEF Inv, BannerInv
<1>. QED  BY <1>1, InitInv, NextInv, PTL DEF Spec
=============================================================================
