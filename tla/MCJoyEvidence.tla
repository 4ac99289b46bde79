--------------------------- MODULE MCJoyEvidence ---------------------------
(***************************************************************************)
(* A message for every mode the pilot can ask for, with the stick pushed   *)
(* or centred, the buttons in the combinations that matter, and a stick    *)
(* inside the dead zone.  EntryNeutral is 3 timer periods instead of 20.   *)
(***************************************************************************)
EXTENDS JoyEvidence

Press(pressed) == [b \in Buttons |-> IF b \in pressed THEN 1 ELSE 0]
Push(stick, a6, a7) ==
    [a \in Axes |-> IF a = 3 THEN stick ELSE IF a = 6 THEN a6 ELSE a7]

MCMessages == {
    [buttons |-> Press({}),     axes |-> Push(0, 0, 0)],
    [buttons |-> Press({}),     axes |-> Push(5, 0, 0)],
    [buttons |-> Press({}),     axes |-> Push(-100, 0, 0)],
    [buttons |-> Press({}),     axes |-> Push(100, 100, 0)],
    [buttons |-> Press({10}),   axes |-> Push(0, -100, 0)],
    [buttons |-> Press({6}),    axes |-> Push(100, -100, 0)],
    [buttons |-> Press({5, 6}), axes |-> Push(0, 0, 100)],
    [buttons |-> Press({4}),    axes |-> Push(100, 0, -100)],
    [buttons |-> Press({4, 5}), axes |-> Push(0, 0, 0)] }
=============================================================================
