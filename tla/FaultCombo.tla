----------------------------- MODULE FaultCombo -----------------------------
(***************************************************************************)
(* Fault_WaitButtonCombo of src/main/fault.c: the crash screen is shown only *)
(* after a secret sequence of buttons, L R Z up C-down C-up down left C-left *)
(* C-right right B A START, typed within fifty seconds.                      *)
(*                                                                         *)
(* One step is one turn of its loop: sleep 16 ms, poll the pad, look at what *)
(* is held (pad_button) and at what has been pressed since the last poll     *)
(* (pad_trigger).                                                            *)
(***************************************************************************)
EXTENDS Integers, Sequences

CONSTANTS
    Holds,   \* the sets of buttons a player may hold
    Limit    \* the time allowed, 50 seconds in the code

Buttons == {"A", "B", "S", "Z", "L", "R", "up", "down", "left", "right",
            "cup", "cdown", "cleft", "cright"}

ComboAssumption ==
    /\ Holds \subseteq SUBSET Buttons /\ {} \in Holds
    /\ Limit \in Nat

VARIABLES
    x,        \* how far the sequence has come, 11 at its end
    y,        \* 1 until everything is released
    held,     \* cur.button of sFaultInputs[0]
    elapsed,  \* osGetTime() - start
    typed,    \* history: the presses that are the beginning of the sequence
    fresh,    \* history: everything has been released since the last press
    age,      \* history: the time since the first press of typed
    playing   \* history: how far a player has come who types the sequence

vars == <<x, y, held, elapsed, typed, fresh, age, playing>>

Done == 11

(* The only button whose press leads from one place to the next. *)
Key == <<"up", "cdown", "cup", "down", "left", "cleft", "cright", "right">>

(* Variant: one wrong press is forgiven. *)
NextPlaceLax(c, button, trigger) ==
    CASE c = 0 -> IF button = {"Z", "R", "L"} /\ trigger = {"Z"} THEN 1 ELSE 0
      [] c \in 1 .. 8 -> IF trigger = {Key[c]} THEN c + 1 ELSE IF c = 5 THEN c ELSE 0
      [] c = 9 -> IF trigger = {"A", "B"} THEN 10
                  ELSE IF trigger = {"A"} THEN 91
                  ELSE IF trigger = {"B"} THEN 92 ELSE 0
      [] c = 91 -> IF trigger = {"B"} THEN 10 ELSE 0
      [] c = 92 -> IF trigger = {"A"} THEN 10 ELSE 0
      [] c = 10 -> IF button = {"A", "B", "S"} /\ trigger = {"S"} /\ elapsed <= Limit
                   THEN Done ELSE 0

(* switch (x) *)
NextPlace(c, button, trigger) ==
    CASE c = 0 -> IF button = {"Z", "R", "L"} /\ trigger = {"Z"} THEN 1 ELSE 0
      [] c \in 1 .. 8 -> IF trigger = {Key[c]} THEN c + 1 ELSE 0
      [] c = 9 -> IF trigger = {"A", "B"} THEN 10
                  ELSE IF trigger = {"A"} THEN 91
                  ELSE IF trigger = {"B"} THEN 92 ELSE 0
      [] c = 91 -> IF trigger = {"B"} THEN 10 ELSE 0
      [] c = 92 -> IF trigger = {"A"} THEN 10 ELSE 0
      [] c = 10 -> IF button = {"A", "B", "S"} /\ trigger = {"S"} /\ elapsed <= Limit
                   THEN Done ELSE 0

(* The places at which the code sets y: nothing more is taken before a release. *)
MustRelease == {1, 3, 5, 7, 9}

Init ==
    /\ x = 0 /\ y = 0
    /\ held \in Holds
    /\ elapsed = 0
    /\ typed = <<>> /\ fresh = FALSE /\ age = 0 /\ playing = 0

-----------------------------------------------------------------------------
(* History: what the message of the code promises, said without its places.
   A press continues the sequence if it is the next one, after a release where
   one is due.  A and B come in either order, or together.                   *)
Sequence ==
    <<{"Z"}, {"up"}, {"cdown"}, {"cup"}, {"down"}, {"left"}, {"cleft"}, {"cright"},
      {"right"}>>

Continues(s, trigger, released) ==
    LET n == Len(s)
    IN  \/ /\ n \in 1 .. 8
           /\ trigger = Sequence[n + 1]
           /\ n % 2 = 1 => released
        \/ n = 9 /\ released /\ trigger # {} /\ trigger \subseteq {"A", "B"}
        \/ n = 10 /\ trigger # {} /\ s[10] \cup trigger = {"A", "B"}
                  /\ s[10] \cap trigger = {}
        \/ n \in {10, 11} /\ trigger = {"S"}
                          /\ UNION {s[i] : i \in 10 .. n} = {"A", "B"}

Remember(new) ==
    LET trigger == new \ held
        goesOn == Continues(typed, trigger, fresh)
        begins == ~goesOn /\ trigger = {"Z"} /\ new = {"L", "R", "Z"}
    IN  /\ fresh' = (new = {} \/ (fresh /\ trigger = {}))
        /\ typed' = IF trigger = {} THEN typed
                    ELSE IF goesOn THEN Append(typed, trigger)
                    ELSE IF begins THEN <<trigger>> ELSE <<>>
        /\ age' = IF begins THEN 0 ELSE age

-----------------------------------------------------------------------------
(* A press that comes before a release starts over. *)
Press(new) ==
    LET trigger == new \ held
        c == IF y = 1 THEN 0 ELSE x
    IN  /\ ~(new = {} /\ y = 1)
        /\ trigger # {}
        /\ x' = NextPlace(c, new, trigger)
        /\ y' = IF x' \in MustRelease THEN 1 ELSE y
        /\ elapsed' = IF x' = 1 THEN 0 ELSE elapsed

Release(new) ==
    /\ new = {} /\ y = 1
    /\ y' = 0
    /\ UNCHANGED <<x, elapsed>>

Nothing(new) ==
    /\ new \ held = {}
    /\ ~(new = {} /\ y = 1)
    /\ UNCHANGED <<x, y, elapsed>>

(* One turn of the loop. *)
Poll(new) ==
    /\ x # Done
    /\ Press(new) \/ Release(new) \/ Nothing(new)
    /\ held' = new
    /\ Remember(new)

(* What somebody holds from poll to poll who types the sequence. *)
Fingers ==
    <<{}, {"L"}, {"L", "R"}, {"L", "R", "Z"}, {}, {"up"}, {"cdown"}, {}, {"cup"}, {"down"},
      {}, {"left"}, {"cleft"}, {}, {"cright"}, {"right"}, {}, {"B"}, {"A", "B"},
      {"A", "B", "S"}>>

Fumble(new) ==
    /\ playing = 0
    /\ Poll(new)
    /\ UNCHANGED playing

(* Polls that find nothing new come between. *)
Play ==
    /\ playing < Len(Fingers)
    /\ Poll(Fingers[playing + 1])
    /\ playing' = playing + 1

Wait ==
    /\ playing # 0
    /\ Poll(held)
    /\ UNCHANGED playing

(* A second goes by. *)
Tick ==
    /\ playing = 0 /\ x # Done
    /\ elapsed <= Limit \/ age <= Limit
    /\ elapsed' = IF elapsed <= Limit THEN elapsed + 1 ELSE elapsed
    /\ age' = IF age <= Limit THEN age + 1 ELSE age
    /\ UNCHANGED <<x, y, held, typed, fresh, playing>>

Next ==
    \/ \E new \in Holds : Fumble(new)
    \/ Play
    \/ Wait
    \/ Tick

Spec == Init /\ [][Next]_vars

-----------------------------------------------------------------------------
TypeOK ==
    /\ x \in 0 .. 11 \cup {91, 92} /\ y \in {0, 1}
    /\ y = 1 => x \in {0} \cup MustRelease
    /\ held \in SUBSET Buttons
    /\ elapsed \in 0 .. Limit + 1 /\ age \in 0 .. Limit + 1
    /\ Len(typed) <= 12 /\ fresh \in BOOLEAN
    /\ playing \in 0 .. Len(Fingers)

(* The combination lets nobody in who has not typed the whole sequence in order,
   with the releases it asks for and nothing between, in the time allowed
   (fault.c:380-520).                                                        *)
OnlyTheSequence ==
    x = Done => /\ \E n \in {11, 12} : Len(typed) = n /\ typed[n] = {"S"}
                /\ age <= Limit

(* Whatever was typed before, whoever lets go and types the sequence gets in. *)
SequenceOpens == playing = Len(Fingers) => x = Done

(* fault.c:380-520: the screen opens for whoever types the sequence, and nobody else. *)
ComboInv == TypeOK /\ OnlyTheSequence /\ SequenceOpens
=============================================================================
