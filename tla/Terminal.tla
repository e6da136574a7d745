------------------------------ MODULE Terminal ------------------------------
(***************************************************************************)
(* What the screen of the flash tool promises: messages appear in order,   *)
(* a message without newline leaves its line open for the next one, and    *)
(* the last Rows lines are on display.  Messages are numbered from 1.      *)
(***************************************************************************)
EXTENDS Naturals, Sequences

CONSTANT Rows

VARIABLES
    lines,  \* the lines on display, top to bottom: sets of message numbers
    open,   \* the last line is still open
    count   \* messages shown so far

LastRows(s) == IF Len(s) <= Rows THEN s ELSE SubSeq(s, Len(s) - Rows + 1, Len(s))

Init == lines = << >> /\ open = FALSE /\ count = 0

Show(newline) ==
    /\ count' = count + 1
    /\ lines' = IF open THEN [lines EXCEPT ![Len(lines)] = @ \cup {count + 1}]
                ELSE LastRows(Append(lines, {count + 1}))
    /\ open' = ~newline

Next == \E newline \in BOOLEAN : Show(newline)

Spec == Init /\ [][Next]_<<lines, open, count>>
=============================================================================
