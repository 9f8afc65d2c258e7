--------------------------------- MODULE MCVi ---------------------------------
(* A behaviour is one of the VI manager or of the mode editor, while the other
   part and the timers stay as they began.                                   *)
EXTENDS Vi

VARIABLE part    \* "manager" or "editor"

(* The fourteen modes libultra has, one of them also with other features and with
   edges moved, and windows of every kind.                                   *)
Setting(l, p, n, b, features, left, right) ==
    [loRes |-> l, antialiasOff |-> p, modeN |-> n, fb16Bit |-> b,
     viFeatures |-> features, leftAdjust |-> left, rightAdjust |-> right]

Usual == {"DITHER_FILTER_ON", "GAMMA_OFF"}

Moved == Setting(TRUE, TRUE, FALSE, TRUE,
                 {"GAMMA_ON", "GAMMA_DITHER_OFF", "DIVOT_ON", "DITHER_FILTER_OFF"}, 4, -6)

Contrary == Setting(TRUE, FALSE, TRUE, TRUE,
                    {"GAMMA_OFF", "GAMMA_DITHER_ON", "GAMMA_DITHER_OFF", "DIVOT_OFF"}, 0, -2)

LibultraModes ==
    {Setting(l, p, n, b, Usual, 0, 0) : l, p, n, b \in BOOLEAN}
       \ {Setting(FALSE, FALSE, n, FALSE, Usual, 0, 0) : n \in BOOLEAN}

AllSettings == LibultraModes \cup {Moved, Contrary}

(* The whole screen, a band in the middle, a single line, the last lines. *)
SomeWindows == {<<0, 240>>, <<20, 221>>, <<119, 120>>, <<200, 240>>}

MCInit ==
    /\ part \in {"manager", "editor"}
    /\ Init /\ Editor!Init /\ Clock!Init
    /\ part = "manager" => tvType = "NTSC"
    /\ count = 0

MCNext ==
    \/ part = "manager" /\ Next /\ UNCHANGED <<part, editor, timers>>
    \/ part = "editor" /\ Editor!Next /\ UNCHANGED <<part, vars, timers>>

MCSpec == MCInit /\ [][MCNext]_<<part, vars, editor, timers>>
=============================================================================
