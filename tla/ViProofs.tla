-------------------------------- MODULE ViProofs --------------------------------
(***************************************************************************)
(* What the VI manager of ViMgr shows, for any windows, frame buffers and     *)
(* counts: modes are shown whole, the game is told in time, the crash screen  *)
(* is seen, and the two contexts implement ViService.  What the timers of     *)
(* Timers show, for any of them and any durations.  And that the modes the    *)
(* editor of ViMode makes are those asked for, for any TV, edges and window.  *)
(*                                                                         *)
(* None of these is inductive.  For the video, what makes them so is what the *)
(* next context holds at each place of func_8007EE28 and of the fault thread, *)
(* and that the two contexts and the hardware agree when nobody has called    *)
(* since the last retrace.  For the timers it is that no more is owed to a    *)
(* thread than the list says is left of its timer: that needs what            *)
(* __osInsertTimer does to the sums of the values, which are shown unique and *)
(* there by the least place where they are not.  For the modes it is that the *)
(* registers are those of the mode, told field by field (MadeOf): each piece  *)
(* of ViMode_Configure is a lemma, on sums of halves that may carry.          *)
(***************************************************************************)
EXTENDS Vi, SequenceTheorems, WellFoundedInduction, TLAPS

USE ViAssumption

Whole(m) == m.first = m.second /\ m.first # Unmade

(* Where the game is says how much of its mode is made and asked for. *)
ModeAsked ==
    /\ pc = "idle" => /\ vi[next].control = "special"
                      /\ vi[next].mode = "custom" => Whole(custom)
    /\ pc = "rewriting" => custom.first # Unmade
    /\ pc \in {"mode", "features"} => Whole(custom)
    /\ pc = "features" => vi[next].mode = "custom"

(* Since the last retrace nobody has called: both contexts are what is shown. *)
Settled == settled => vi[0] = vi[1] /\ hw = Programmed(vi[next], custom)

(* Half a mode is the game's own, in the context that was shown. *)
HalfIsCustom == hw.lines.first # hw.lines.second => vi[curr].mode = "custom"

(* The retraces to come before the game is told, and those it has waited for. *)
InTime == retrace > 0 /\ \E n \in Counts \cup {1} : since + retrace <= n

(* What the fault thread asks for in a round stays asked for while it chooses, and
   after that until the game disturbs it.                                    *)
CrashAsked ==
    /\ fpc \in {"look", "note", "replace"} => ~vi[next].black
    /\ fpc = "note" => /\ swap # "made"
                       /\ swap = "none" => /\ vi[next].frame = vi[curr].frame
                                           /\ vi[curr].frame \in High
    /\ fpc = "draw" /\ ~disturbed => /\ ~vi[next].black
                                     /\ swap # "due" => vi[next].frame = fb
                                     /\ swap = "none" => fb \in High

ViInv == TypeOK /\ ModeAsked /\ Settled /\ HalfIsCustom /\ InTime /\ CrashAsked

-----------------------------------------------------------------------------
LEMMA NextContext == ASSUME TypeOK PROVE next \in 0 .. 1 /\ next # curr /\ 1 - next = curr
BY DEF TypeOK, next

(* What a context shows is a picture. *)
Contexts == [mode : {"libultra", "custom"}, control : {"plain", "special"},
             black : BOOLEAN, frame : Frames, told : BOOLEAN, count : Counts \cup {1}]

Customs == [first : Windows \cup {Unmade}, second : Windows \cup {Unmade}]

LEMMA PictureType ==
    ASSUME NEW c \in Contexts, NEW m \in Customs
    PROVE  Programmed(c, m) \in Pictures
<1>1. Lines(c, m) \in [first : Halves, second : Halves]
  <2>1. CASE c.mode = "custom"
    BY <2>1 DEF Lines, Customs, Halves
  <2>2. CASE c.mode = "libultra"
    BY <2>2 DEF Lines, Halves
  <2> QED
    BY <2>1, <2>2 DEF Contexts
<1> QED
  BY <1>1 DEF Programmed, Pictures, Contexts

LEMMA InitInv == Init => ViInv
<1> SUFFICES ASSUME Init PROVE ViInv
  OBVIOUS
<1>1. PICK f \in Frames \ High :
         LET c == [mode |-> "libultra", control |-> "special", black |-> TRUE, frame |-> f,
                   told |-> FALSE, count |-> 1]
         IN  /\ vi = [i \in 0 .. 1 |-> c] /\ curr = 0
             /\ hw = Programmed(c, custom)
  BY DEF Init
<1>2. TypeOK
  <2>1. vi \in [0 .. 1 -> Contexts] /\ curr \in 0 .. 1
    BY <1>1 DEF Contexts
  <2>2. custom \in Customs
    BY DEF Init, Customs
  <2>3. hw \in Pictures
    <3>1. vi[0] \in Contexts /\ hw = Programmed(vi[0], custom)
      BY <1>1, <2>1
    <3> QED
      BY <2>2, <3>1, PictureType
  <2>4. retrace \in 0 .. Wrap - 1 /\ since \in Nat /\ fb \in Frames
    <3>1. PICK n \in Counts : n \in 1 .. Wrap - 1
      OBVIOUS
    <3>2. 1 \in 0 .. Wrap - 1
      BY <3>1
    <3>3. retrace = 1 /\ since = 0 /\ fb = FaultFrame
      BY DEF Init
    <3>4. 0 \in Nat /\ FaultFrame \in Frames
      OBVIOUS
    <3> QED
      BY <3>2, <3>3, <3>4, Zenon
  <2>5. mail \in 0 .. 1 /\ pc = "idle" /\ fpc = "wait" /\ settled = TRUE
        /\ swap = "none" /\ disturbed = FALSE
    BY DEF Init
  <2> QED
    BY <2>1, <2>2, <2>3, <2>4, <2>5 DEF TypeOK, Contexts, Customs
<1>3. ModeAsked /\ Settled
  BY <1>1 DEF Init, ModeAsked, Settled, next
<1>4. HalfIsCustom
  BY <1>1 DEF HalfIsCustom, Programmed, Lines
<1>5. InTime /\ CrashAsked
  BY DEF Init, InTime, CrashAsked
<1> QED
  BY <1>2, <1>3, <1>4, <1>5 DEF ViInv
-----------------------------------------------------------------------------
(* A step keeps the invariant.  A call changes the next context only, not
   what is shown.                                                            *)
LEMMA CallSets ==
    ASSUME TypeOK, NEW c \in Contexts, Set(c)
    PROVE  /\ vi' \in [0 .. 1 -> Contexts]
           /\ vi'[next] = c /\ vi'[curr] = vi[curr]
           /\ ~settled'
BY NextContext DEF TypeOK, Contexts, Set

LEMMA CallStep ==
    ASSUME ViInv, NEW c \in Contexts, Set(c), UNCHANGED manager
    PROVE  /\ vi' \in [0 .. 1 -> Contexts] /\ vi'[next'] = c
           /\ Settled' /\ HalfIsCustom' /\ InTime'
<1>1. TypeOK
  BY DEF ViInv
<1>2. next' = next
  BY DEF manager, next
<1> QED
  BY <1>1, <1>2, CallSets DEF ViInv, Settled, HalfIsCustom, InTime, manager


(* The game's calls of the VI manager. *)
LEMMA GameStep ==
    ASSUME ViInv, UNCHANGED <<manager, fault>>,
           SetMode \/ SetSpecialFeatures \/ (\E b \in BOOLEAN : Black(b))
             \/ (\E f \in Frames : SwapBuffer(f)) \/ (\E n \in Counts : SetEvent(n))
    PROVE  ViInv'
<1>1. TypeOK /\ vi[next] \in Contexts /\ fpc \in {"wait", "draw"}
  BY NextContext
     DEF ViInv, TypeOK, Contexts, GameRuns, SetMode, SetSpecialFeatures, Black, SwapBuffer,
         SetEvent
<1>2. next' = next
  BY DEF manager, next
<1>3. ASSUME NEW c \in Contexts, Set(c), custom' = custom,
             pc' \in {"idle", "rewriting", "mode", "features"}, ModeAsked',
             disturbed' \in BOOLEAN,
             ~disturbed' => /\ ~disturbed /\ c.frame = vi[next].frame
                            /\ c.black => vi[next].black
      PROVE  ViInv'
  <2>1. /\ vi' \in [0 .. 1 -> Contexts] /\ Settled' /\ HalfIsCustom' /\ InTime'
        /\ settled' = FALSE
    BY <1>3, CallStep DEF Set
  <2>2. TypeOK'
    BY <1>1, <1>3, <2>1 DEF TypeOK, Contexts, manager, fault
  <2>3. vi'[next'] = c
    BY <1>1, <1>2, <1>3, CallSets
  <2>4. CrashAsked'
    BY <1>1, <1>3, <2>3 DEF ViInv, CrashAsked, fault
  <2> QED
    BY <1>3, <2>1, <2>2, <2>4 DEF ViInv
<1>4. CASE SetMode
  <2> DEFINE c == [vi[next] EXCEPT !.mode = "custom", !.control = "plain", !.black = FALSE]
  <2>1. c \in Contexts /\ c.mode = "custom" /\ c.frame = vi[next].frame /\ ~c.black
    BY <1>1 DEF Contexts
  <2>2. Set(c) /\ custom' = custom /\ pc' = "features" /\ disturbed' = disturbed
    BY <1>4 DEF SetMode
  <2>3. vi'[next'] = c
    BY <1>1, <1>2, <2>1, <2>2, CallSets
  <2>4. ModeAsked'
    BY <1>4, <2>1, <2>2, <2>3 DEF ViInv, ModeAsked, SetMode, Whole
  <2> QED
    BY <1>1, <1>3, <2>1, <2>2, <2>4 DEF TypeOK
<1>5. CASE SetSpecialFeatures
  <2> DEFINE c == [vi[next] EXCEPT !.control = "special"]
  <2>1. /\ c \in Contexts /\ c.control = "special"
        /\ c.frame = vi[next].frame /\ c.black = vi[next].black
    BY <1>1 DEF Contexts
  <2>2. Set(c) /\ custom' = custom /\ pc' = "idle" /\ disturbed' = disturbed
    BY <1>5 DEF SetSpecialFeatures
  <2>3. vi'[next'] = c
    BY <1>1, <1>2, <2>1, <2>2, CallSets
  <2>4. ModeAsked'
    BY <1>5, <2>1, <2>2, <2>3 DEF ViInv, ModeAsked, SetSpecialFeatures, Whole
  <2> QED
    BY <1>1, <1>3, <2>1, <2>2, <2>4 DEF TypeOK
<1>6. ASSUME NEW c \in Contexts, c.mode = vi[next].mode, c.control = vi[next].control,
             Set(c), custom' = custom, pc = "idle", pc' = pc,
             \/ disturbed' = TRUE
             \/ /\ disturbed' = disturbed /\ disturbed \in BOOLEAN
                /\ c.frame = vi[next].frame /\ c.black = vi[next].black
      PROVE  ViInv'
  <2>1. vi'[next'] = c
    BY <1>1, <1>2, <1>6, CallSets
  <2>2. ModeAsked'
    BY <1>6, <2>1 DEF ViInv, ModeAsked, Whole
  <2>3. pc' \in {"idle", "rewriting", "mode", "features"}
    BY <1>6
  <2>4. disturbed' \in BOOLEAN
    BY <1>6
  <2>5. ~disturbed' => /\ ~disturbed /\ c.frame = vi[next].frame
                       /\ c.black => vi[next].black
    BY <1>6
  <2> QED
    BY <1>3, <1>6, <2>2, <2>3, <2>4, <2>5
<1>7. ASSUME NEW b \in BOOLEAN, Black(b) PROVE ViInv'
  <2> DEFINE c == [vi[next] EXCEPT !.black = b]
  <2>1. c \in Contexts /\ c.mode = vi[next].mode /\ c.control = vi[next].control
    BY <1>1 DEF Contexts
  <2> QED
    BY <1>6, <1>7, <2>1 DEF Black, game
<1>8. ASSUME NEW f \in Frames, SwapBuffer(f) PROVE ViInv'
  <2> DEFINE c == [vi[next] EXCEPT !.frame = f]
  <2>1. c \in Contexts /\ c.mode = vi[next].mode /\ c.control = vi[next].control
    BY <1>1 DEF Contexts
  <2> QED
    BY <1>6, <1>8, <2>1 DEF SwapBuffer, game
<1>9. ASSUME NEW n \in Counts, SetEvent(n) PROVE ViInv'
  <2> DEFINE c == [vi[next] EXCEPT !.told = TRUE, !.count = n]
  <2>1. /\ c \in Contexts /\ c.mode = vi[next].mode /\ c.control = vi[next].control
        /\ c.frame = vi[next].frame /\ c.black = vi[next].black
    BY <1>1 DEF Contexts
  <2>2. disturbed \in BOOLEAN
    BY <1>1 DEF TypeOK
  <2> QED
    BY <1>6, <1>9, <2>1, <2>2 DEF SetEvent, game
<1> QED
  BY <1>4, <1>5, <1>7, <1>8, <1>9

(* The steps of the game that do not call. *)
LEMMA RewriteStep ==
    ASSUME ViInv, (\E w \in Windows : Rewrite(w)) \/ Rewritten
    PROVE  ViInv'
<1>1. /\ vi' = vi /\ curr' = curr /\ hw' = hw /\ ~settled' /\ next' = next
      /\ UNCHANGED <<manager, fault, disturbed>>
  BY DEF Rewrite, Rewritten, manager, next
<1>2. custom' \in Customs /\ pc' \in {"rewriting", "mode"}
  BY DEF ViInv, TypeOK, Customs, Rewrite, Rewritten
<1>3. TypeOK'
  <2>1. settled' \in BOOLEAN
    BY DEF Rewrite, Rewritten
  <2> QED
    BY <1>1, <1>2, <2>1 DEF ViInv, TypeOK, Customs, manager, fault
<1>4. ModeAsked'
  <2>1. CASE Rewritten
    BY <2>1 DEF ViInv, TypeOK, ModeAsked, Rewritten, Whole
  <2>2. ASSUME NEW w \in Windows, Rewrite(w) PROVE ModeAsked'
    BY <2>2 DEF ViInv, TypeOK, ModeAsked, Rewrite
  <2> QED
    BY <2>1, <2>2
<1>5. Settled' /\ HalfIsCustom' /\ InTime'
  BY <1>1 DEF ViInv, Settled, HalfIsCustom, InTime, manager
<1>6. CrashAsked'
  BY <1>1, <1>2 DEF ViInv, CrashAsked, Rewrite, Rewritten, fault
<1> QED
  BY <1>3, <1>4, <1>5, <1>6 DEF ViInv

LEMMA ReceiveStep == ASSUME ViInv, Receive PROVE ViInv'
<1>1. TypeOK'
  BY DEF ViInv, TypeOK, Receive, game, fault
<1>2. ModeAsked' /\ CrashAsked'
  BY DEF ViInv, ModeAsked, CrashAsked, Receive, game, fault, next
<1>3. Settled' /\ HalfIsCustom' /\ InTime'
  BY DEF ViInv, Settled, HalfIsCustom, InTime, Receive, game, next, Programmed, Lines
<1> QED
  BY <1>1, <1>2, <1>3 DEF ViInv

LEMMA CrashStep == ASSUME ViInv, Crash PROVE ViInv'
<1>1. TypeOK'
  BY DEF ViInv, TypeOK, Crash, manager, fault
<1>2. ModeAsked' /\ CrashAsked'
  BY DEF ViInv, ModeAsked, CrashAsked, Crash, manager, fault, next
<1>3. Settled' /\ HalfIsCustom' /\ InTime'
  BY DEF ViInv, Settled, HalfIsCustom, InTime, Crash, manager, next, Programmed, Lines
<1> QED
  BY <1>1, <1>2, <1>3 DEF ViInv

-----------------------------------------------------------------------------
(* The fault thread: it does not touch the mode, and while it chooses the game does
   not run.                                                                  *)
LEMMA ScreenStep ==
    ASSUME ViInv, Screen
    PROVE  ViInv'
<1>1. /\ TypeOK /\ vi[next] \in Contexts /\ vi[curr] \in Contexts
      /\ pc' = pc /\ custom' = custom /\ UNCHANGED manager /\ next' = next /\ curr' = curr
  BY NextContext
     DEF ViInv, TypeOK, Contexts, Screen, BeginRound, Unblack, Look, Note, Replace, game,
         manager, next
<1>2. ASSUME NEW c \in Contexts, c.mode = vi[next].mode, c.control = vi[next].control,
             Set(c), fb' \in Frames, swap' \in {"none", "made", "due"},
             disturbed' \in BOOLEAN, fpc' \in {"look", "draw"}, CrashAsked'
      PROVE  ViInv'
  <2>1. /\ vi' \in [0 .. 1 -> Contexts] /\ vi'[next'] = c
        /\ Settled' /\ HalfIsCustom' /\ InTime'
    BY <1>1, <1>2, CallStep
  <2>2. TypeOK'
    BY <1>1, <1>2, <2>1 DEF TypeOK, Contexts, manager, Set
  <2>3. ModeAsked'
    BY <1>1, <1>2, <2>1 DEF ViInv, ModeAsked, Whole
  <2> QED
    BY <1>2, <2>1, <2>2, <2>3 DEF ViInv
<1>3. ASSUME UNCHANGED <<vi, settled, disturbed>>, fb' \in Frames,
             swap' \in {"none", "made", "due"},
             fpc' \in {"unblack", "look", "note", "replace", "draw"}, CrashAsked'
      PROVE  ViInv'
  <2>1. TypeOK'
    BY <1>1, <1>3 DEF TypeOK, Contexts, manager
  <2>2. Settled' /\ HalfIsCustom' /\ InTime'
    BY <1>1, <1>3 DEF ViInv, Settled, HalfIsCustom, InTime, manager, Programmed, Lines
  <2>3. ModeAsked'
    BY <1>1, <1>3 DEF ViInv, ModeAsked, Whole
  <2> QED
    BY <1>3, <2>1, <2>2, <2>3 DEF ViInv
<1>4. CASE Unblack
  <2> DEFINE c == [vi[next] EXCEPT !.black = FALSE]
  <2>1. c \in Contexts /\ ~c.black /\ c.mode = vi[next].mode /\ c.control = vi[next].control
    BY <1>1 DEF Contexts
  <2>2. Set(c) /\ fpc' = "look" /\ fb' = fb /\ swap' = swap /\ disturbed' = FALSE
    BY <1>4 DEF Unblack
  <2>3. vi'[next'] = c
    BY <1>1, <2>1, <2>2, CallSets
  <2>4. CrashAsked'
    BY <2>1, <2>2, <2>3 DEF CrashAsked
  <2> QED
    BY <1>1, <1>2, <2>1, <2>2, <2>4 DEF TypeOK
<1>5. CASE Replace
  <2> DEFINE c == [vi[next] EXCEPT !.frame = FaultFrame]
  <2>1. /\ c \in Contexts /\ c.frame = FaultFrame /\ c.black = vi[next].black
        /\ c.mode = vi[next].mode /\ c.control = vi[next].control
    BY <1>1 DEF Contexts, TypeOK
  <2>2. /\ Set(c) /\ fpc = "replace" /\ fpc' = "draw" /\ fb' = FaultFrame /\ swap' = swap
        /\ disturbed' = disturbed
    BY <1>5 DEF Replace
  <2>3. vi'[next'] = c
    BY <1>1, <2>1, <2>2, CallSets
  <2>4. CrashAsked'
    BY <1>1, <2>1, <2>2, <2>3 DEF ViInv, CrashAsked
  <2>5. fb' \in Frames /\ disturbed' \in BOOLEAN
    BY <1>1, <2>2 DEF TypeOK
  <2> QED
    BY <1>1, <1>2, <2>1, <2>2, <2>4, <2>5 DEF TypeOK
<1>6. CASE Look
  <2>1. /\ fpc = "look" /\ UNCHANGED <<vi, settled, disturbed, fb>>
        /\ IF vi[curr].frame \in High
           THEN /\ fpc' = "note"
                /\ swap' = IF vi[next].frame = vi[curr].frame THEN "none" ELSE "due"
           ELSE fpc' = "replace" /\ swap' = "none"
    BY <1>6 DEF Look
  <2>2. CrashAsked'
    BY <1>1, <2>1 DEF ViInv, CrashAsked
  <2> QED
    BY <1>1, <1>3, <2>1, <2>2 DEF TypeOK
<1>7. CASE Note
  <2>1. /\ fpc = "note" /\ fpc' = "draw" /\ UNCHANGED <<vi, settled, disturbed>>
        /\ fb' = vi[curr].frame
        /\ swap' = IF swap = "due" /\ vi[next].frame = vi[curr].frame THEN "made" ELSE swap
    BY <1>7 DEF Note
  <2>2. CrashAsked'
    BY <1>1, <2>1 DEF ViInv, CrashAsked, TypeOK
  <2>3. fb' \in Frames /\ swap' \in {"none", "made", "due"}
    BY <1>1, <2>1 DEF TypeOK, Contexts
  <2> QED
    BY <1>3, <2>1, <2>2, <2>3
<1>8. CASE BeginRound
  <2>1. fpc' = "unblack" /\ UNCHANGED <<vi, settled, disturbed, fb, swap>>
    BY <1>8 DEF BeginRound
  <2>2. CrashAsked'
    BY <2>1 DEF CrashAsked
  <2> QED
    BY <1>1, <1>3, <2>1, <2>2 DEF TypeOK
<1> QED
  BY <1>4, <1>5, <1>6, <1>7, <1>8 DEF Screen

-----------------------------------------------------------------------------
(* A retrace: both contexts are what was asked for, and it is shown. *)
LEMMA Swapped ==
    ASSUME ViInv, Retrace
    PROVE  /\ vi' \in [0 .. 1 -> Contexts] /\ curr' \in 0 .. 1
           /\ \A i \in 0 .. 1 : vi'[i] = vi[next]
           /\ vi'[next'] = vi[next] /\ vi'[curr'] = vi[next]
           /\ hw' = Programmed(vi[next], custom)
           /\ custom' = custom /\ pc' = pc /\ fpc' = fpc /\ fb' = fb
           /\ swap' = swap /\ disturbed' = disturbed /\ settled' = TRUE
<1>1. /\ vi \in [0 .. 1 -> Contexts] /\ curr \in 0 .. 1 /\ next \in 0 .. 1
      /\ next # curr
  BY NextContext DEF ViInv, TypeOK, Contexts
<1>2. /\ vi' = [vi EXCEPT ![curr] = vi[next]] /\ curr' = next
      /\ hw' = Programmed(vi[next], custom)
  BY DEF Retrace, SwapContext
<1>3. \A i \in 0 .. 1 : i = curr \/ i = next
  BY <1>1
<1>4. vi' \in [0 .. 1 -> Contexts] /\ \A i \in 0 .. 1 : vi'[i] = vi[next]
  BY <1>1, <1>2, <1>3
<1>5. next' \in 0 .. 1 /\ curr' \in 0 .. 1
  BY <1>1, <1>2 DEF next
<1> QED
  BY <1>2, <1>4, <1>5 DEF Retrace, game, fault

LEMMA CountedDown ==
    ASSUME ViInv, Retrace
    PROVE  /\ retrace' \in 0 .. Wrap - 1 /\ mail' \in 0 .. 1 /\ since' \in Nat
           /\ InTime'
<1>1. /\ retrace \in 1 .. Wrap - 1 /\ mail \in 0 .. 1 /\ since \in Nat
      /\ vi[next].count \in Counts \cup {1}
  BY NextContext DEF ViInv, TypeOK, InTime
<1>2. PICK n \in Counts \cup {1} : since + retrace <= n
  BY DEF ViInv, InTime
<1>3. Wrap - 1 >= 1 /\ n \in Nat /\ Counts \cup {1} \subseteq 1 .. Wrap - 1
  <2>1. Counts # {} /\ Counts \subseteq 1 .. Wrap - 1 /\ Wrap \in Nat
    OBVIOUS
  <2>2. PICK k \in Counts : k \in 1 .. Wrap - 1
    BY <2>1
  <2>3. Wrap - 1 >= 1
    BY <2>1, <2>2
  <2>4. Counts \cup {1} \subseteq 1 .. Wrap - 1
    BY <2>1, <2>3
  <2> QED
    BY <2>1, <2>3, <2>4
<1>4. (retrace - 1) % Wrap = retrace - 1
  BY <1>1
<1>5. mail' \in 0 .. 1
  BY <1>1 DEF Retrace, CountDown
<1>6. CASE retrace - 1 = 0
  <2>1. retrace' = vi[next].count /\ since' = 0
    BY <1>4, <1>6 DEF Retrace, CountDown
  <2>2. retrace' \in Counts \cup {1} /\ retrace' \in 1 .. Wrap - 1
    BY <1>1, <1>3, <2>1
  <2>3. since' + retrace' <= retrace'
    BY <2>1, <2>2
  <2> QED
    BY <1>5, <2>1, <2>2, <2>3 DEF InTime
<1>7. CASE retrace - 1 # 0
  <2>1. retrace' = retrace - 1 /\ since' \in {0, since + 1}
    BY <1>4, <1>7 DEF Retrace, CountDown
  <2>2. retrace' \in 1 .. Wrap - 1 /\ since' \in Nat
    BY <1>1, <1>7, <2>1
  <2>3. n \in Nat /\ since \in Nat /\ retrace \in Nat
    BY <1>1, <1>3
  <2>4. since' + retrace' <= n
    <3>1. CASE since' = 0
      BY <1>2, <2>1, <2>3, <3>1
    <3>2. CASE since' = since + 1
      BY <1>2, <2>1, <2>3, <3>2
    <3> QED
      BY <2>1, <3>1, <3>2
  <2>5. InTime'
    <3>1. retrace' > 0
      BY <2>2
    <3>2. \E k \in Counts \cup {1} : since' + retrace' <= k
      BY <2>4, Zenon
    <3> QED
      BY <3>1, <3>2, Zenon DEF InTime
  <2> QED
    BY <1>5, <2>2, <2>5
<1> QED
  BY <1>6, <1>7

LEMMA RetraceStep == ASSUME ViInv, Retrace PROVE ViInv'
<1>1. vi[next] \in Contexts /\ custom \in Customs
  BY NextContext DEF ViInv, TypeOK, Contexts, Customs
<1>2. hw' \in Pictures
  BY <1>1, PictureType, Swapped
<1>3. TypeOK'
  BY <1>2, Swapped, CountedDown DEF ViInv, TypeOK, Contexts
<1>4. ModeAsked' /\ CrashAsked'
  BY Swapped DEF ViInv, ModeAsked, CrashAsked, Whole
<1>5. Settled'
  BY Swapped DEF Settled, Programmed, Lines
<1>6. HalfIsCustom'
  BY Swapped DEF HalfIsCustom, Programmed, Lines
<1> QED
  BY <1>3, <1>4, <1>5, <1>6, CountedDown DEF ViInv

LEMMA StepInv == ViInv /\ [Next]_vars => ViInv'
<1> SUFFICES ASSUME ViInv, [Next]_vars PROVE ViInv'
  OBVIOUS
<1>1. CASE UNCHANGED vars
  <2>1. TypeOK' /\ ModeAsked'
    BY <1>1 DEF ViInv, TypeOK, ModeAsked, vars, next, Whole
  <2>2. Settled' /\ HalfIsCustom' /\ InTime' /\ CrashAsked'
    BY <1>1 DEF ViInv, Settled, HalfIsCustom, InTime, CrashAsked, vars, next, Programmed,
                Lines
  <2> QED
    BY <2>1, <2>2 DEF ViInv
<1>2. CASE Next
  <2>1. CASE SetMode \/ SetSpecialFeatures \/ (\E b \in BOOLEAN : Black(b))
               \/ (\E f \in Frames : SwapBuffer(f)) \/ (\E n \in Counts : SetEvent(n))
    <3>1. UNCHANGED <<manager, fault>>
      BY <2>1 DEF SetMode, SetSpecialFeatures, Black, SwapBuffer, SetEvent
    <3> QED
      BY <2>1, <3>1, GameStep
  <2>2. CASE (\E w \in Windows : Rewrite(w)) \/ Rewritten
    BY <2>2, RewriteStep
  <2>3. CASE Screen
    BY <2>3, ScreenStep
  <2> QED
    BY <1>2, <2>1, <2>2, <2>3, ReceiveStep, CrashStep, RetraceStep DEF Next, Call
<1> QED
  BY <1>1, <1>2

LEMMA ViInvHolds == Spec => []ViInv
BY InitInv, StepInv, PTL DEF Spec

-----------------------------------------------------------------------------
(* vimode.c:305-315, viswapcontext.c: once func_8007EE28 has returned and there
   was a retrace, the mode shown is whole and has its features; half a mode is
   the game's own and shown only while that is the one asked for.            *)
THEOREM ModesAreWhole == Spec => []WholeMode
<1>1. ViInv => WholeMode
  <2> SUFFICES ASSUME ViInv PROVE WholeMode
    OBVIOUS
  <2>1. ASSUME settled, pc = "idle"
        PROVE  /\ hw.control = "special" /\ hw.lines.first = hw.lines.second
               /\ hw.lines.first # Unmade
    <3>1. hw = Programmed(vi[next], custom) /\ vi[next].control = "special"
          /\ (vi[next].mode = "custom" => Whole(custom))
          /\ vi[next].mode \in {"libultra", "custom"}
      BY <2>1, NextContext DEF ViInv, Settled, ModeAsked, TypeOK
    <3>2. hw.lines = Lines(vi[next], custom) /\ hw.control = "special"
      BY <3>1 DEF Programmed
    <3>3. CASE vi[next].mode = "custom"
      BY <3>1, <3>2, <3>3 DEF Lines, Whole
    <3>4. CASE vi[next].mode = "libultra"
      BY <3>1, <3>2, <3>4 DEF Lines, Unmade
    <3> QED
      BY <3>1, <3>2, <3>3, <3>4
  <2> QED
    BY <2>1 DEF ViInv, HalfIsCustom, WholeMode
<1> QED
  BY <1>1, ViInvHolds, PTL

(* vimgr.c:93-104: whatever the counts and however they change. *)
THEOREM GameIsToldInTime == Spec => []ToldInTime
<1>1. ViInv => ToldInTime
  <2> SUFFICES ASSUME ViInv PROVE ToldInTime
    OBVIOUS
  <2>1. PICK n \in Counts \cup {1} : since + retrace <= n
    BY DEF ViInv, InTime
  <2>2. n \in Nat /\ since \in Nat /\ retrace \in Nat /\ retrace > 0
    BY DEF ViInv, TypeOK, InTime
  <2>3. since < n
    BY <2>1, <2>2
  <2> QED
    BY <2>3 DEF ToldInTime
<1> QED
  BY <1>1, ViInvHolds, PTL

(* fault.c:652-660: the crash screen is drawn in the buffer that is shown, whatever
   the threads that still run call before and after.                         *)
THEOREM CrashScreenSeen == Spec => []CrashIsSeen
<1>1. ViInv => CrashIsSeen
  BY DEF ViInv, Settled, CrashAsked, CrashIsSeen, Programmed
<1> QED
  BY <1>1, ViInvHolds, PTL

-----------------------------------------------------------------------------
(* The two contexts implement ViService: every call asks, the swap at a retrace
   shows what was asked for and asks for nothing else.                       *)
LEMMA AskedIsPicture ==
    ASSUME ViInv PROVE Programmed(vi[next], custom) \in Pictures
BY NextContext, PictureType DEF ViInv, TypeOK, Contexts, Customs

LEMMA ServiceStep ==
    ASSUME ViInv, ViInv', [Next]_vars
    PROVE  [Service!Next]_<<Programmed(vi[next], custom), hw>>
<1>1. Programmed(vi[next], custom)' \in Pictures
  <2>1. next' \in 0 .. 1
    <3>1. curr' \in 0 .. 1
      BY DEF ViInv, TypeOK
    <3>2. next' = 1 - curr'
      BY DEF next
    <3>3. \A i \in 0 .. 1 : 1 - i \in 0 .. 1
      OBVIOUS
    <3> QED
      BY <3>1, <3>2, <3>3, Zenon
  <2>2. vi'[next'] \in Contexts /\ custom' \in Customs
    BY <2>1 DEF ViInv, TypeOK, Contexts, Customs
  <2>3. Programmed(vi'[next'], custom') \in Pictures
    BY <2>2, PictureType
  <2> QED
    BY <2>3 DEF Programmed, Lines
<1>2. CASE UNCHANGED hw
  BY <1>1, <1>2 DEF Service!Next, Service!Ask
<1>3. CASE Retrace
  <2>1. vi'[next'] = vi[next] /\ custom' = custom /\ hw' = Programmed(vi[next], custom)
    BY <1>3, Swapped
  <2>2. Programmed(vi[next], custom)' = Programmed(vi[next], custom)
    BY <2>1 DEF Programmed, Lines
  <2> QED
    BY <2>1, <2>2 DEF Service!Next, Service!Retrace
<1>4. Next => UNCHANGED hw \/ Retrace
  BY DEF Next, Call, Rewrite, Rewritten, SetMode, SetSpecialFeatures, Black, SwapBuffer,
         SetEvent, Receive, Crash, Screen, BeginRound, Unblack, Look, Note, Replace, manager
<1> QED
  BY <1>2, <1>3, <1>4 DEF vars

THEOREM ViImplementsService == Spec => ViServiceSpec
<1>1. Init => Service!Init
  <2> SUFFICES ASSUME Init PROVE Service!Init
    OBVIOUS
  <2>1. ViInv /\ settled
    BY InitInv DEF Init
  <2> QED
    BY <2>1, AskedIsPicture DEF Service!Init, ViInv, Settled
<1>2. ViInv /\ ViInv' /\ [Next]_vars
        => [Service!Next]_<<Programmed(vi[next], custom), hw>>
  BY ServiceStep
<1> QED
  BY <1>1, <1>2, ViInvHolds, PTL DEF Spec, ViServiceSpec, Service!Spec


-----------------------------------------------------------------------------
HIDE ViAssumption

(* The timers.  A set of numbers that is not empty has a least one. *)
LEMMA LeastExists ==
    ASSUME NEW S, S \subseteq Nat, S # {}
    PROVE  \E m \in S : \A n \in S : m <= n
<1>1. PICK m \in S : \A n \in S : ~ (<<n, m>> \in OpToRel(<, Nat))
  BY NatLessThanWellFounded, WFMin, Zenon
<1>2. \A n \in S : m <= n
  <2> SUFFICES ASSUME NEW n \in S
               PROVE  ~ (n < m)
    BY SMT
  <2>1. n \in Nat /\ m \in Nat
    OBVIOUS
  <2>2. n < m => <<n, m>> \in OpToRel(<, Nat)
    BY <2>1 DEF OpToRel
  <2> QED
    BY <1>1, <2>2
<1> QED
  BY <1>2

(* What the first timers of a list have to go together, as far as the n-th. *)
AreSums(s, l, v, n) ==
    /\ s \in [0 .. n -> Nat] /\ s[0] = 0
    /\ \A i \in 1 .. n : s[i] = s[i - 1] + v[l[i]]

LEMMA SumsExist ==
    ASSUME NEW l \in Seq(Timers), NEW v, \A t \in Timers : v[t] \in Nat
    PROVE  \E s : AreSums(s, l, v, Len(l))
<1> DEFINE S == {n \in 0 .. Len(l) : ~ \E s : AreSums(s, l, v, n)}
<1>1. Len(l) \in Nat /\ \A i \in 1 .. Len(l) : v[l[i]] \in Nat
  BY ElementOfSeq
<1>2. SUFFICES ASSUME S # {}
               PROVE  FALSE
  BY <1>1
<1>3. PICK m \in S : \A n \in S : m <= n
  <2>1. S \subseteq Nat
    BY <1>1
  <2> HIDE DEF S
  <2> QED
    BY <1>2, <2>1, LeastExists
<1>4. m # 0
  <2>1. AreSums([i \in 0 .. 0 |-> 0], l, v, 0)
    BY DEF AreSums
  <2> QED
    BY <2>1, <1>3
<1>5. m - 1 \in 0 .. Len(l) /\ m \in 1 .. Len(l) /\ m - 1 \notin S
  BY <1>1, <1>3, <1>4
<1>6. PICK s : AreSums(s, l, v, m - 1)
  BY <1>5
<1> DEFINE e == [i \in 0 .. m |-> IF i = m THEN s[m - 1] + v[l[m]] ELSE s[i]]
<1>7. AreSums(e, l, v, m)
  <2>1. \A i \in 0 .. m - 1 : s[i] \in Nat
    BY <1>6 DEF AreSums
  <2>2. e \in [0 .. m -> Nat]
    BY <1>1, <1>5, <2>1
  <2>3. e[0] = 0
    BY <1>5, <1>6 DEF AreSums
  <2>4. ASSUME NEW i \in 1 .. m
        PROVE  e[i] = e[i - 1] + v[l[i]]
    <3>1. CASE i = m
      BY <1>5, <3>1
    <3>2. CASE i # m
      <4>1. i \in 1 .. m - 1 /\ i - 1 \in 0 .. m - 1 /\ i - 1 # m
        BY <1>5, <3>2
      <4>2. s[i] = s[i - 1] + v[l[i]]
        BY <1>6, <4>1 DEF AreSums
      <4> QED
        BY <1>5, <3>2, <4>1, <4>2
    <3> QED
      BY <3>1, <3>2
  <2> QED
    BY <2>2, <2>3, <2>4 DEF AreSums
<1> QED
  BY <1>3, <1>7

(* Sums is what adds up as the sums do. *)
LEMMA SumsAre ==
    ASSUME NEW l \in Seq(Timers), NEW v, \A t \in Timers : v[t] \in Nat,
           NEW s, AreSums(s, l, v, Len(l))
    PROVE  Clock!Sums(l, v) = s
<1>1. Len(l) \in Nat
  OBVIOUS
<1> DEFINE F(f) == [i \in 0 .. Len(l) |-> IF i = 0 THEN 0 ELSE f[i - 1] + v[l[i]]]
           c == CHOOSE f : f = F(f)
<1>2. s = F(s)
  BY <1>1 DEF AreSums
<1>3. c = F(c)
  BY <1>2, Zenon
<1>4. Clock!Sums(l, v) = c
  BY DEF Clock!Sums
<1> HIDE DEF c
<1>5. \A i \in 0 .. Len(l) : c[i] = IF i = 0 THEN 0 ELSE c[i - 1] + v[l[i]]
  BY <1>1, <1>3
<1>6. \A i \in 0 .. Len(l) : s[i] = IF i = 0 THEN 0 ELSE s[i - 1] + v[l[i]]
  BY <1>1 DEF AreSums
<1> DEFINE S == {n \in 0 .. Len(l) : c[n] # s[n]}
<1>7. S = {}
  <2> SUFFICES ASSUME S # {}
               PROVE  FALSE
    OBVIOUS
  <2>1. PICK m \in S : \A n \in S : m <= n
    <3>1. S \subseteq Nat
      BY <1>1
    <3> HIDE DEF S
    <3> QED
      BY <3>1, LeastExists
  <2>2. m # 0
    BY <1>1, <1>5, <1>6, <2>1
  <2>3. m - 1 \in 0 .. Len(l) /\ m \in 0 .. Len(l) /\ m - 1 \notin S
    BY <1>1, <2>1, <2>2
  <2>4. c[m - 1] = s[m - 1]
    BY <2>3
  <2>5. c[m] = s[m]
    BY <1>5, <1>6, <2>2, <2>3, <2>4
  <2> QED
    BY <2>1, <2>5
<1>8. c = [i \in 0 .. Len(l) |-> c[i]] /\ s = [i \in 0 .. Len(l) |-> s[i]]
  BY <1>2, <1>3
<1> QED
  BY <1>4, <1>7, <1>8

LEMMA SumsAdd ==
    ASSUME NEW l \in Seq(Timers), NEW v, \A t \in Timers : v[t] \in Nat
    PROVE  AreSums(Clock!Sums(l, v), l, v, Len(l))
<1>1. PICK s : AreSums(s, l, v, Len(l))
  BY SumsExist
<1> QED
  BY <1>1, SumsAre

(* Without the first timer the others have less to go. *)
LEMMA TailSums ==
    ASSUME NEW l \in Seq(Timers), NEW v, \A t \in Timers : v[t] \in Nat, l # <<>>
    PROVE  \A i \in 0 .. Len(l) - 1 : Clock!Sums(Tail(l), v)[i] = Clock!Sums(l, v)[i + 1] - v[l[1]]
<1> DEFINE s == Clock!Sums(l, v)
           n == Len(l)
           r == [i \in 0 .. n - 1 |-> s[i + 1] - v[l[1]]]
<1>1. AreSums(s, l, v, n)
  BY SumsAdd
<1>2. /\ n \in Nat \ {0} /\ Tail(l) \in Seq(Timers) /\ Len(Tail(l)) = n - 1
      /\ \A i \in 1 .. n - 1 : Tail(l)[i] = l[i + 1]
      /\ \A i \in 1 .. n : v[l[i]] \in Nat
  BY HeadTailProperties, ElementOfSeq
<1> HIDE DEF s, n
<1>3. /\ \A i \in 0 .. n : s[i] \in Nat
      /\ s[0] = 0
      /\ \A i \in 1 .. n : s[i] = s[i - 1] + v[l[i]]
  BY <1>1 DEF AreSums
<1>4. ASSUME NEW i \in 1 .. n - 1
      PROVE  r[i] = r[i - 1] + v[Tail(l)[i]]
  <2>1. i + 1 \in 1 .. n /\ (i + 1) - 1 = i /\ i \in 0 .. n - 1 /\ i - 1 \in 0 .. n - 1
        /\ (i - 1) + 1 = i /\ i \in 0 .. n
    BY <1>2
  <2>2. s[i + 1] = s[i] + v[l[i + 1]]
    BY <1>3, <2>1
  <2>3. r[i] = s[i + 1] - v[l[1]] /\ r[i - 1] = s[i] - v[l[1]]
    BY <2>1
  <2>4. v[l[i + 1]] \in Nat /\ v[l[1]] \in Nat /\ s[i] \in Nat
    BY <1>2, <1>3, <2>1
  <2> QED
    BY <1>2, <2>2, <2>3, <2>4
<1>5. r[0] = 0
  <2>1. s[1] = s[0] + v[l[1]] /\ v[l[1]] \in Nat /\ r[0] = s[0 + 1] - v[l[1]]
    BY <1>2, <1>3
  <2> QED
    BY <1>3, <2>1
<1> DEFINE S == {i \in 0 .. n - 1 : r[i] \notin Nat}
<1>6. S = {}
  <2> SUFFICES ASSUME S # {}
               PROVE  FALSE
    OBVIOUS
  <2>1. PICK m \in S : \A i \in S : m <= i
    <3>1. S \subseteq Nat
      BY <1>2
    <3> HIDE DEF S
    <3> QED
      BY <3>1, LeastExists
  <2>2. m \in 0 .. n - 1 /\ r[m] \notin Nat
    OBVIOUS
  <2>3. \A i \in 0 .. n - 1 : i < m => r[i] \in Nat
    BY <2>1, <2>2
  <2> HIDE DEF r, S
  <2>4. m # 0
    BY <1>5, <2>2
  <2>5. m \in 1 .. n - 1 /\ m - 1 \in 0 .. n - 1 /\ m - 1 < m /\ m + 1 \in 1 .. n
    BY <1>2, <2>2, <2>4
  <2>6. r[m - 1] \in Nat /\ v[Tail(l)[m]] \in Nat
    BY <1>2, <2>3, <2>5
  <2>7. r[m] = r[m - 1] + v[Tail(l)[m]]
    BY <1>4, <2>5
  <2>8. \A y \in Nat, z \in Nat : y + z \in Nat
    OBVIOUS
  <2>9. r[m - 1] + v[Tail(l)[m]] \in Nat
    BY <2>6, <2>8, Zenon
  <2> QED
    BY <2>2, <2>7, <2>9, Zenon
<1>7. r \in [0 .. n - 1 -> Nat]
  BY <1>6
<1> HIDE DEF r
<1>8. AreSums(r, Tail(l), v, Len(Tail(l)))
  BY <1>2, <1>4, <1>5, <1>7 DEF AreSums
<1>9. Clock!Sums(Tail(l), v) = r
  BY <1>2, <1>8, SumsAre
<1> QED
  BY <1>9 DEF r, s, n

(* What InsertAt returns. *)
LEMMA InsertedAt ==
    ASSUME NEW S, NEW s \in Seq(S), NEW e \in S, NEW i \in 1 .. Len(s) + 1
    PROVE  /\ Clock!InsertAt(s, i, e) \in Seq(S)
           /\ Len(Clock!InsertAt(s, i, e)) = Len(s) + 1
           /\ \A j \in 1 .. Len(s) + 1 :
                Clock!InsertAt(s, i, e)[j] = IF j < i THEN s[j] ELSE IF j = i THEN e ELSE s[j - 1]
<1> DEFINE a == SubSeq(s, 1, i - 1)
           b == SubSeq(s, i, Len(s))
<1>1. Len(s) \in Nat /\ \A j \in 1 .. Len(s) : s[j] \in S
  BY ElementOfSeq
<1>2. a \in Seq(S) /\ Len(a) = i - 1 /\ \A j \in 1 .. i - 1 : a[j] = s[j]
  BY <1>1, SubSeqProperties
<1>3. b \in Seq(S) /\ Len(b) = Len(s) - i + 1
      /\ \A j \in 1 .. Len(s) - i + 1 : b[j] = s[i + j - 1]
  BY <1>1, SubSeqProperties
<1>4. <<e>> \in Seq(S) /\ Len(<<e>>) = 1 /\ <<e>>[1] = e
  OBVIOUS
<1>5. /\ a \o <<e>> \in Seq(S) /\ Len(a \o <<e>>) = i
      /\ \A j \in 1 .. i : (a \o <<e>>)[j] = IF j < i THEN s[j] ELSE e
  BY <1>2, <1>4, ConcatProperties
<1> HIDE DEF a, b
<1> DEFINE c == a \o <<e>>
<1>6. c \in Seq(S) /\ Len(c) = i /\ \A j \in 1 .. i : c[j] = IF j < i THEN s[j] ELSE e
  BY <1>5
<1> HIDE DEF c
<1>7. /\ c \o b \in Seq(S) /\ Len(c \o b) = Len(c) + Len(b)
      /\ \A j \in 1 .. Len(c) + Len(b) :
           (c \o b)[j] = IF j <= Len(c) THEN c[j] ELSE b[j - Len(c)]
  BY <1>3, <1>6, ConcatProperties
<1>8. \A j \in 1 .. Len(s) + 1 : j > i => b[j - i] = s[j - 1]
  BY <1>1, <1>3
<1>9. Clock!InsertAt(s, i, e) = c \o b
  BY DEF Clock!InsertAt, a, b, c
<1> QED
  BY <1>1, <1>3, <1>6, <1>7, <1>8, <1>9



(* Where a timer enters the list: before it are those that go off sooner. *)
LEMMA BeforeIs ==
    ASSUME NEW l \in Seq(Timers), NEW s \in [0 .. Len(l) -> Nat], NEW x \in Nat
    PROVE  LET n == Clock!Before(l, s, x)
           IN  /\ n \in 0 .. Len(l) /\ \A i \in 1 .. n : x > s[i]
               /\ n < Len(l) => x <= s[n + 1]
<1> DEFINE T == {n \in 0 .. Len(l) : n < Len(l) => x <= s[n + 1]}
<1>1. Len(l) \in Nat
  OBVIOUS
<1>2. PICK m \in T : \A n \in T : m <= n
  <2>1. T \subseteq Nat /\ Len(l) \in T
    BY <1>1
  <2>2. T # {}
    BY <2>1
  <2> HIDE DEF T
  <2> QED
    BY <2>1, <2>2, LeastExists
<1>3. ASSUME NEW i \in 1 .. m
      PROVE  x > s[i]
  <2>1. i - 1 \in 0 .. Len(l) /\ i - 1 < Len(l) /\ i - 1 < m /\ (i - 1) + 1 = i
    BY <1>1
  <2>2. i - 1 \notin T
    BY <1>2, <2>1
  <2>3. s[i] \in Nat
    BY <2>1
  <2> QED
    BY <2>1, <2>2, <2>3
<1> DEFINE P(n) == /\ \A i \in 1 .. n : x > s[i]
                   /\ n < Len(l) => x <= s[n + 1]
<1>4. P(m) /\ m \in 0 .. Len(l)
  <2>1. m \in 0 .. Len(l) /\ (m < Len(l) => x <= s[m + 1])
    OBVIOUS
  <2> QED
    BY <1>3, <2>1
<1>5. Clock!Before(l, s, x) = CHOOSE n \in 0 .. Len(l) : P(n)
  BY DEF Clock!Before
<1> HIDE DEF P
<1>6. LET n == CHOOSE n \in 0 .. Len(l) : P(n) IN n \in 0 .. Len(l) /\ P(n)
  BY <1>4, Zenon
<1> QED
  BY <1>5, <1>6 DEF P

(* What __osInsertTimer makes of the list and the values: t is after the n-th timer, and
   every timer goes off when it would have, t when x have passed. *)
Inserted(l, v, t, x, n) ==
    LET in == Clock!Insert(l, v, t, x)
        s  == Clock!Sums(l, v)
        z  == Clock!Sums(in.list, in.value)
    IN  /\ n \in 0 .. Len(l)
        /\ in.list \in Seq(Timers) /\ Len(in.list) = Len(l) + 1
        /\ \A j \in 1 .. Len(l) + 1 :
             in.list[j] = IF j < n + 1 THEN l[j] ELSE IF j = n + 1 THEN t ELSE l[j - 1]
        /\ in.value \in [Timers -> Nat] /\ in.tim \in Nat
        /\ \A j \in 1 .. Len(l) + 1 :
             z[j] = IF j < n + 1 THEN s[j] ELSE IF j = n + 1 THEN x ELSE s[j - 1]

LEMMA InsertIs ==
    ASSUME NEW l \in Seq(Timers), Clock!IsInjective(l), NEW v \in [Timers -> Nat],
           NEW t \in Timers, \A i \in 1 .. Len(l) : l[i] # t, NEW x \in Nat
    PROVE  \E n : Inserted(l, v, t, x, n)
<1> DEFINE s == Clock!Sums(l, v)
           n == Clock!Before(l, s, x)
           d == x - s[n]
           w == [v EXCEPT ![t] = d]
           nl == Clock!InsertAt(l, n + 1, t)
           nv == IF n < Len(l) THEN [w EXCEPT ![l[n + 1]] = @ - d] ELSE w
           len == Len(l)
<1>1. Clock!Insert(l, v, t, x) = [list |-> nl, value |-> nv, tim |-> d]
  BY DEF Clock!Insert
<1>2. AreSums(s, l, v, Len(l))
  BY SumsAdd
<1>3. /\ len \in Nat /\ s \in [0 .. len -> Nat] /\ s[0] = 0
      /\ \A i \in 1 .. len : s[i] = s[i - 1] + v[l[i]]
  BY <1>2 DEF AreSums
<1>4. \A i \in 1 .. len : l[i] \in Timers /\ v[l[i]] \in Nat /\ l[i] # t
  BY ElementOfSeq
<1>5. \A i, j \in 1 .. len : l[i] = l[j] => i = j
  BY DEF Clock!IsInjective
<1> HIDE DEF s
<1>6. /\ n \in 0 .. len /\ \A i \in 1 .. n : x > s[i]
      /\ n < len => x <= s[n + 1]
  BY <1>3, BeforeIs
<1> HIDE DEF n
<1>7. n + 1 \in 1 .. len + 1
  BY <1>3, <1>6
<1>8. /\ nl \in Seq(Timers) /\ Len(nl) = len + 1
      /\ \A j \in 1 .. len + 1 :
           nl[j] = IF j < n + 1 THEN l[j] ELSE IF j = n + 1 THEN t ELSE l[j - 1]
  <2> DEFINE k == n + 1
  <2>1. k \in 1 .. Len(l) + 1 /\ l \in Seq(Timers) /\ t \in Timers
    BY <1>7
  <2> HIDE DEF k
  <2>2. /\ Clock!InsertAt(l, k, t) \in Seq(Timers)
        /\ Len(Clock!InsertAt(l, k, t)) = Len(l) + 1
        /\ \A j \in 1 .. Len(l) + 1 :
             Clock!InsertAt(l, k, t)[j] = IF j < k THEN l[j] ELSE IF j = k THEN t ELSE l[j - 1]
    BY ONLY <2>1, InsertedAt
  <2> QED
    BY <2>2 DEF k
<1>9. s[n] \in Nat /\ s[n] <= x
  <2>1. CASE n = 0
    BY <1>3, <2>1
  <2>2. CASE n # 0
    <3>1. n \in 1 .. n /\ n \in 0 .. len
      BY <1>3, <1>6, <2>2
    <3> QED
      BY <1>3, <1>6, <3>1
  <2> QED
    BY <2>1, <2>2
<1>10. d \in Nat
  BY <1>9
<1>11. ASSUME n < len
       PROVE  /\ n + 1 \in 1 .. len /\ l[n + 1] \in Timers /\ l[n + 1] # t
              /\ v[l[n + 1]] - d \in Nat
              /\ s[n + 1] = s[n] + v[l[n + 1]]
  <2>1. n + 1 \in 1 .. len /\ (n + 1) - 1 = n
    BY <1>3, <1>6, <1>11
  <2>2. s[n + 1] = s[n] + v[l[n + 1]]
    BY <1>3, <2>1
  <2>3. v[l[n + 1]] \in Nat /\ l[n + 1] \in Timers /\ l[n + 1] # t
    BY <1>4, <2>1
  <2>4. x <= s[n + 1]
    BY <1>6, <1>11
  <2> QED
    BY <1>9, <2>1, <2>2, <2>3, <2>4
<1>12. nv \in [Timers -> Nat] /\ nv[t] = d
       /\ (n < len => nv[l[n + 1]] = v[l[n + 1]] - d)
       /\ \A u \in Timers : u # t /\ (n < len => u # l[n + 1]) => nv[u] = v[u]
  <2>1. w \in [Timers -> Nat] /\ w[t] = d /\ \A u \in Timers : u # t => w[u] = v[u]
    BY <1>10
  <2> HIDE DEF w, d
  <2>2. CASE n < len
    BY <1>11, <2>1, <2>2
  <2>3. CASE ~ (n < len)
    BY <2>1, <2>3
  <2> QED
    BY <2>2, <2>3
<1> DEFINE z == [j \in 0 .. len + 1 |->
                   IF j < n + 1 THEN s[j] ELSE IF j = n + 1 THEN x ELSE s[j - 1]]
<1>13. /\ z = [j \in 0 .. len + 1 |-> z[j]]
       /\ \A j \in 0 .. len + 1 : /\ j < n + 1 => z[j] = s[j]
                                  /\ j = n + 1 => z[j] = x
                                  /\ j > n + 1 => z[j] = s[j - 1]
  BY <1>3, <1>6
<1>14. \A j \in 1 .. len + 1 : /\ j < n + 1 => nl[j] = l[j]
                               /\ j = n + 1 => nl[j] = t
                               /\ j > n + 1 => nl[j] = l[j - 1]
  BY <1>6, <1>8
<1> HIDE DEF nl, nv, d, z, len
<1>15. z \in [0 .. len + 1 -> Nat] /\ z[0] = 0
  <2>1. 0 \in 0 .. len + 1 /\ 0 < n + 1
    BY <1>3, <1>6
  <2>2. ASSUME NEW j \in 0 .. len + 1
        PROVE  z[j] \in Nat
    <3>1. CASE j < n + 1
      <4>1. j \in 0 .. len
        BY <1>3, <1>6, <3>1
      <4> QED
        BY <1>3, <1>13, <3>1, <4>1
    <3>2. CASE j = n + 1
      BY <1>13, <3>2
    <3>3. CASE j > n + 1
      <4>1. j - 1 \in 0 .. len
        BY <1>3, <1>6, <3>3
      <4> QED
        BY <1>3, <1>13, <3>3, <4>1
    <3> QED
      BY <1>3, <1>6, <3>1, <3>2, <3>3
  <2> QED
    BY <1>3, <1>13, <2>1, <2>2
<1>16. ASSUME NEW j \in 1 .. len + 1
       PROVE  z[j] = z[j - 1] + nv[nl[j]]
  <2>0. j - 1 \in 0 .. len + 1 /\ j \in 0 .. len + 1
    BY <1>3
  <2>1. CASE j < n + 1
    <3>1. j \in 1 .. len /\ j # n + 1 /\ j - 1 < n + 1
      BY <1>3, <1>6, <2>0, <2>1
    <3>2. z[j] = s[j] /\ z[j - 1] = s[j - 1] /\ nl[j] = l[j]
      BY <1>13, <1>14, <2>0, <2>1, <3>1
    <3>3. n < len => n + 1 \in 1 .. len /\ l[j] # l[n + 1]
      BY <1>5, <1>11, <3>1
    <3>4. nv[l[j]] = v[l[j]]
      BY <1>4, <1>12, <3>1, <3>3
    <3> QED
      BY <1>3, <3>1, <3>2, <3>4
  <2>2. CASE j = n + 1
    <3>1. j - 1 = n /\ n < n + 1
      BY <1>3, <1>6, <2>2
    <3>2. z[j] = x /\ z[j - 1] = s[n] /\ nl[j] = t
      BY <1>13, <1>14, <2>0, <2>2, <3>1
    <3> QED
      BY <1>9, <1>12, <3>2 DEF d
  <2>3. CASE j = n + 2
    <3>1. n < len /\ j - 1 = n + 1 /\ j > n + 1
      BY <1>3, <1>6, <2>0, <2>3
    <3>2. z[j] = s[n + 1] /\ z[j - 1] = x /\ nl[j] = l[n + 1]
      BY <1>13, <1>14, <2>0, <3>1
    <3>3. nv[l[n + 1]] = v[l[n + 1]] - d /\ v[l[n + 1]] \in Nat
      BY <1>4, <1>11, <1>12, <3>1
    <3> QED
      BY <1>9, <1>11, <3>1, <3>2, <3>3 DEF d
  <2>4. CASE j > n + 2
    <3>1. j - 1 \in 1 .. len /\ j - 1 # n + 1 /\ n < len /\ j > n + 1 /\ j - 1 > n + 1
      BY <1>3, <1>6, <2>0, <2>4
    <3>2. z[j] = s[j - 1] /\ z[j - 1] = s[(j - 1) - 1] /\ nl[j] = l[j - 1]
      BY <1>13, <1>14, <2>0, <3>1
    <3>3. l[j - 1] # l[n + 1]
      BY <1>5, <1>11, <3>1
    <3>4. nv[l[j - 1]] = v[l[j - 1]]
      BY <1>4, <1>12, <3>1, <3>3
    <3> QED
      BY <1>3, <3>1, <3>2, <3>4
  <2> QED
    BY <1>3, <1>6, <2>1, <2>2, <2>3, <2>4
<1>17. \A u \in Timers : nv[u] \in Nat
  BY <1>12
<1>18. AreSums(z, nl, nv, Len(nl))
  BY <1>8, <1>15, <1>16 DEF AreSums
<1>19. Clock!Sums(nl, nv) = z
  BY <1>8, <1>17, <1>18, SumsAre
<1>20. \A j \in 1 .. len + 1 :
         z[j] = IF j < n + 1 THEN s[j] ELSE IF j = n + 1 THEN x ELSE s[j - 1]
  BY <1>3, <1>6, <1>13
<1>21. Inserted(l, v, t, x, n)
  BY <1>1, <1>6, <1>8, <1>10, <1>12, <1>19, <1>20 DEF Inserted, s, len
<1> QED
  BY <1>21

(* What has a timer, and what it may be. *)
Has(l, t) == \E i \in 1 .. Len(l) : l[i] = t

LEMMA TailHas ==
    ASSUME NEW l \in Seq(Timers), Clock!IsInjective(l), l # <<>>
    PROVE  /\ Tail(l) \in Seq(Timers) /\ Len(Tail(l)) = Len(l) - 1 /\ Len(l) >= 1
           /\ \A i \in 1 .. Len(l) - 1 : Tail(l)[i] = l[i + 1]
           /\ Clock!IsInjective(Tail(l))
           /\ Head(l) = l[1] /\ l[1] \in Timers
           /\ \A u : Has(Tail(l), u) <=> Has(l, u) /\ u # l[1]
           /\ ~ Has(Tail(l), l[1])
<1> DEFINE r == Tail(l)
           n == Len(l)
<1>1. /\ n \in Nat \ {0} /\ r \in Seq(Timers) /\ Len(r) = n - 1
      /\ \A i \in 1 .. n - 1 : r[i] = l[i + 1]
      /\ Head(l) = l[1]
  BY HeadTailProperties
<1>2. l[1] \in Timers
  BY <1>1, ElementOfSeq
<1>3. \A i, j \in 1 .. n : l[i] = l[j] => i = j
  BY DEF Clock!IsInjective
<1>4. DOMAIN r = 1 .. n - 1
  BY <1>1
<1> HIDE DEF r, n
<1>5. Clock!IsInjective(r)
  <2> SUFFICES ASSUME NEW i \in 1 .. n - 1, NEW j \in 1 .. n - 1, r[i] = r[j]
               PROVE  i = j
    BY <1>4 DEF Clock!IsInjective
  <2>1. i + 1 \in 1 .. n /\ j + 1 \in 1 .. n
    BY <1>1
  <2>2. l[i + 1] = l[j + 1]
    BY <1>1
  <2>3. i + 1 = j + 1
    BY <1>3, <2>1, <2>2
  <2> QED
    BY <1>1, <2>3
<1>6. ASSUME NEW u
      PROVE  Has(r, u) <=> Has(l, u) /\ u # l[1]
  <2>1. ASSUME Has(r, u)
        PROVE  Has(l, u) /\ u # l[1]
    <3>1. PICK i \in 1 .. n - 1 : r[i] = u
      BY <1>1, <2>1 DEF Has
    <3>2. i + 1 \in 1 .. n /\ 1 \in 1 .. n /\ i + 1 # 1 /\ l[i + 1] = u
      BY <1>1, <3>1
    <3>3. l[i + 1] # l[1]
      BY <1>3, <3>2
    <3> QED
      BY <3>2, <3>3 DEF Has, n
  <2>2. ASSUME Has(l, u), u # l[1]
        PROVE  Has(r, u)
    <3>1. PICK i \in 1 .. n : l[i] = u
      BY <2>2 DEF Has, n
    <3>2. i # 1
      BY <2>2, <3>1
    <3>3. i - 1 \in 1 .. n - 1 /\ (i - 1) + 1 = i
      BY <1>1, <3>1, <3>2
    <3>4. r[i - 1] = u
      BY <1>1, <3>1, <3>3
    <3> QED
      BY <1>1, <3>3, <3>4 DEF Has
  <2> QED
    BY <2>1, <2>2
<1>7. n >= 1
  BY <1>1
<1> QED
  BY <1>1, <1>2, <1>5, <1>6, <1>7 DEF r, n

LEMMA InsertedHas ==
    ASSUME NEW l \in Seq(Timers), Clock!IsInjective(l), NEW t \in Timers, ~ Has(l, t),
           NEW r \in Seq(Timers), NEW n \in 0 .. Len(l), Len(r) = Len(l) + 1,
           \A j \in 1 .. Len(l) + 1 :
             r[j] = IF j < n + 1 THEN l[j] ELSE IF j = n + 1 THEN t ELSE l[j - 1]
    PROVE  /\ Clock!IsInjective(r)
           /\ \A u : Has(r, u) <=> Has(l, u) \/ u = t
<1> DEFINE m == Len(l)
<1>1. m \in Nat /\ DOMAIN r = 1 .. m + 1 /\ n \in 0 .. m
  OBVIOUS
<1>2. \A i, j \in 1 .. m : l[i] = l[j] => i = j
  BY DEF Clock!IsInjective
<1>3. \A i \in 1 .. m : l[i] # t
  BY DEF Has
<1>4. \A j \in 1 .. m + 1 : /\ j < n + 1 => j \in 1 .. m /\ r[j] = l[j]
                            /\ j = n + 1 => r[j] = t
                            /\ j > n + 1 => j - 1 \in 1 .. m /\ r[j] = l[j - 1]
  BY <1>1
<1> HIDE DEF m
<1>5. Clock!IsInjective(r)
  <2> SUFFICES ASSUME NEW i \in 1 .. m + 1, NEW j \in 1 .. m + 1, r[i] = r[j]
               PROVE  i = j
    BY <1>1 DEF Clock!IsInjective
  <2>1. CASE i < n + 1 /\ j < n + 1
    BY <1>2, <1>4, <2>1
  <2>2. CASE i < n + 1 /\ j = n + 1
    BY <1>3, <1>4, <2>2
  <2>3. CASE i < n + 1 /\ j > n + 1
    <3>1. i = j - 1
      BY <1>2, <1>4, <2>3
    <3> QED
      BY <1>1, <2>3, <3>1
  <2>4. CASE i = n + 1 /\ j < n + 1
    BY <1>3, <1>4, <2>4
  <2>5. CASE i = n + 1 /\ j > n + 1
    BY <1>3, <1>4, <2>5
  <2>6. CASE i > n + 1 /\ j < n + 1
    <3>1. j = i - 1
      BY <1>2, <1>4, <2>6
    <3> QED
      BY <1>1, <2>6, <3>1
  <2>7. CASE i > n + 1 /\ j = n + 1
    BY <1>3, <1>4, <2>7
  <2>8. CASE i > n + 1 /\ j > n + 1
    <3>1. i - 1 = j - 1
      BY <1>2, <1>4, <2>8
    <3> QED
      BY <1>1, <3>1
  <2>9. CASE i = n + 1 /\ j = n + 1
    BY <2>9
  <2> QED
    BY <1>1, <2>1, <2>2, <2>3, <2>4, <2>5, <2>6, <2>7, <2>8, <2>9
<1>6. ASSUME NEW u
      PROVE  Has(r, u) <=> Has(l, u) \/ u = t
  <2>1. ASSUME Has(r, u)
        PROVE  Has(l, u) \/ u = t
    <3>1. PICK j \in 1 .. m + 1 : r[j] = u
      BY <2>1 DEF Has, m
    <3>2. CASE j < n + 1
      BY <1>4, <3>1, <3>2 DEF Has, m
    <3>3. CASE j = n + 1
      BY <1>4, <3>1, <3>3
    <3>4. CASE j > n + 1
      BY <1>4, <3>1, <3>4 DEF Has, m
    <3> QED
      BY <1>1, <3>2, <3>3, <3>4
  <2>2. ASSUME Has(l, u)
        PROVE  Has(r, u)
    <3>1. PICK i \in 1 .. m : l[i] = u
      BY <2>2 DEF Has, m
    <3>2. CASE i < n + 1
      <4>1. i \in 1 .. m + 1 /\ r[i] = u
        BY <1>1, <1>4, <3>1, <3>2
      <4> QED
        BY <4>1 DEF Has, m
    <3>3. CASE i >= n + 1
      <4>1. i + 1 \in 1 .. m + 1 /\ i + 1 > n + 1 /\ (i + 1) - 1 = i
        BY <1>1, <3>3
      <4>2. r[i + 1] = u
        BY <1>4, <3>1, <4>1
      <4> QED
        BY <4>1, <4>2 DEF Has, m
    <3> QED
      BY <1>1, <3>2, <3>3
  <2>3. Has(r, t)
    <3>1. n + 1 \in 1 .. m + 1
      BY <1>1
    <3> QED
      BY <1>4, <3>1 DEF Has, m
  <2> QED
    BY <2>1, <2>2, <2>3
<1> QED
  BY <1>5, <1>6

(* Less to go for the first timer is less to go for them all. *)
LEMMA SameSums ==
    ASSUME NEW l \in Seq(Timers), NEW v \in [Timers -> Nat], NEW w \in [Timers -> Nat],
           \A i \in 1 .. Len(l) : v[l[i]] = w[l[i]]
    PROVE  Clock!Sums(l, v) = Clock!Sums(l, w)
<1> DEFINE s == Clock!Sums(l, v)
<1>1. AreSums(s, l, v, Len(l))
  BY SumsAdd
<1> HIDE DEF s
<1>2. AreSums(s, l, w, Len(l))
  BY <1>1 DEF AreSums
<1>3. Clock!Sums(l, w) = s
  BY <1>2, SumsAre
<1> QED
  BY <1>3 DEF s

LEMMA LessSums ==
    ASSUME NEW l \in Seq(Timers), Clock!IsInjective(l), l # <<>>, NEW v \in [Timers -> Nat],
           NEW e \in Nat, e <= v[l[1]], NEW w \in [Timers -> Nat], w[l[1]] = v[l[1]] - e,
           \A u \in Timers : u # l[1] => w[u] = v[u]
    PROVE  \A i \in 1 .. Len(l) : Clock!Sums(l, w)[i] = Clock!Sums(l, v)[i] - e
<1>1. /\ Tail(l) \in Seq(Timers) /\ Len(Tail(l)) = Len(l) - 1 /\ l[1] \in Timers
      /\ Len(l) >= 1 /\ Len(l) \in Nat
      /\ ~ Has(Tail(l), l[1])
  BY TailHas
<1>2. w \in [Timers -> Nat] /\ w[l[1]] = v[l[1]] - e /\ \A u \in Timers : u # l[1] => w[u] = v[u]
  BY <1>1
<1> DEFINE r == Tail(l)
           sv == Clock!Sums(l, v)
           sw == Clock!Sums(l, w)
           rv == Clock!Sums(r, v)
           rw == Clock!Sums(r, w)
<1>3. \A i \in 1 .. Len(r) : r[i] \in Timers /\ r[i] # l[1]
  BY <1>1, ElementOfSeq DEF Has
<1> HIDE DEF r
<1>4. \A i \in 1 .. Len(r) : v[r[i]] = w[r[i]]
  BY <1>2, <1>3
<1>5. rv = rw
  <2>1. r \in Seq(Timers)
    BY <1>1 DEF r
  <2> QED
    BY ONLY <1>2, <1>4, <2>1, v \in [Timers -> Nat], SameSums DEF rv, rw
<1>6. \A i \in 0 .. Len(l) - 1 : rv[i] = sv[i + 1] - v[l[1]]
  BY TailSums DEF r
<1>7. \A i \in 0 .. Len(l) - 1 : rw[i] = sw[i + 1] - w[l[1]]
  BY <1>2, TailSums DEF r
<1>8. AreSums(sv, l, v, Len(l)) /\ AreSums(sw, l, w, Len(l))
  BY <1>2, SumsAdd
<1> HIDE DEF sv, sw, rv, rw
<1>9. \A i \in 1 .. Len(l) : sv[i] \in Nat /\ sw[i] \in Nat
  <2>1. sv \in [0 .. Len(l) -> Nat] /\ sw \in [0 .. Len(l) -> Nat]
    BY <1>8 DEF AreSums
  <2>2. \A i \in 1 .. Len(l) : i \in 0 .. Len(l)
    BY <1>1
  <2> QED
    BY ONLY <2>1, <2>2
<1>10. ASSUME NEW i \in 1 .. Len(l)
       PROVE  sw[i] = sv[i] - e
  <2>1. i - 1 \in 0 .. Len(l) - 1 /\ (i - 1) + 1 = i
    BY <1>1
  <2>2. sv[i] - v[l[1]] = sw[i] - w[l[1]]
    BY <1>5, <1>6, <1>7, <2>1
  <2>3. v[l[1]] \in Nat /\ w[l[1]] = v[l[1]] - e /\ sv[i] \in Nat /\ sw[i] \in Nat
    BY <1>1, <1>2, <1>9
  <2>4. \A a, b, c, d \in Nat : a - b = c - d /\ d = b - e => c = a - e
    OBVIOUS
  <2>5. w[l[1]] \in Nat
    BY <1>1, <1>2
  <2>6. PICK a \in Nat, c \in Nat, b \in Nat, d \in Nat :
           a = sv[i] /\ c = sw[i] /\ b = v[l[1]] /\ d = w[l[1]]
    BY <2>3, <2>5
  <2>7. a - b = c - d /\ d = b - e
    BY <2>2, <2>3, <2>6
  <2>8. c = a - e
    BY ONLY <2>7, e \in Nat, a \in Nat, b \in Nat, c \in Nat, d \in Nat
  <2> QED
    BY <2>6, <2>8
<1> QED
  BY <1>2, <1>10 DEF sv, sw

-----------------------------------------------------------------------------
(* The invariant: what a timer owes its thread is never more than what the list says
   is left of it, but for what had elapsed when it was set, and an idle thread has a
   timer that does not go on. *)
Kinds ==
    /\ count \in 0 .. CounterWrap - 1 /\ compare \in 0 .. CounterWrap - 1
    /\ counter \in 0 .. CounterWrap - 1
    /\ newTime \in {Clock!None} \cup 0 .. CounterWrap - 1
    /\ irq \in BOOLEAN /\ events \in 0 .. EventCap /\ lag \in 0 .. Latency
    /\ list \in Seq(Timers)
    /\ value \in [Timers -> Nat] /\ tim \in [Timers -> Nat]
    /\ owed \in [Timers -> Nat] /\ stale \in [Timers -> Nat]
    /\ interval \in [Timers -> Intervals \cup {0}] /\ mesg \in [Timers -> 0 .. 1]
    /\ place \in [Timers -> {"idle", "check", "set", "wait"}]
    /\ mgr \in {"idle", "loop", "arm"}

InList(t) == IF interval[t] = 0 THEN Has(list, t) <=> place[t] # "idle" /\ mesg[t] = 0
                                ELSE Has(list, t)

Asleep ==
    /\ Clock!IsInjective(list)
    /\ \A t \in Timers : InList(t) /\ (place[t] = "idle" => interval[t] = 0)
    /\ mgr = "arm" => list # <<>>

Owing == \A i \in 1 .. Len(list) :
            /\ stale[list[i]] <= Clock!Elapsed
            /\ owed[list[i]] > 0 =>
                 owed[list[i]] + Clock!Elapsed <= Clock!Sums(list, value)[i] + stale[list[i]]

TimersInv == Kinds /\ Asleep /\ Owing /\ NotEarly

LEMMA Params ==
    /\ CounterWrap \in Nat \ {0} /\ EventCap \in Nat \ {0} /\ Latency \in Nat
    /\ Durations \subseteq Nat \ {0} /\ Intervals \subseteq Nat
    /\ Durations \subseteq Nat
<1>1. /\ CounterWrap \in Nat \ {0} /\ EventCap \in Nat \ {0} /\ Latency \in Nat
      /\ Durations \subseteq 1 .. CounterWrap - Latency - 1
      /\ Intervals \subseteq 0 .. CounterWrap - 1
  BY TimersAssumption DEF Clock!TimersAssumption
<1> QED
  BY <1>1

LEMMA InvShows == TimersInv => ListedWhileAsleep /\ NotEarly
<1> SUFFICES ASSUME TimersInv
             PROVE  ListedWhileAsleep
  BY DEF TimersInv
<1>1. Clock!TypeOK
  BY DEF TimersInv, Kinds, Clock!TypeOK
<1>2. Clock!IsInjective(list) /\ (mgr = "arm" => list # <<>>)
  BY DEF TimersInv, Asleep
<1>3. \A t \in Timers : Clock!Listed(t) <=> Has(list, t)
  BY DEF Clock!Listed, Has
<1>4. \A t \in Timers : InList(t)
  BY DEF TimersInv, Asleep
<1> QED
  BY <1>1, <1>2, <1>3, <1>4 DEF ListedWhileAsleep, Clock!ListedWhileAsleep, InList

LEMMA TimersStart == Clock!Init => TimersInv
<1> SUFFICES ASSUME Clock!Init
             PROVE  TimersInv
  OBVIOUS
<1>1. Kinds
  <2>1. irq \in BOOLEAN
    <3>1. irq = FALSE
      BY DEF Clock!Init
    <3> QED
      BY <3>1, Zenon
  <2> QED
    BY <2>1, Params DEF Clock!Init, Kinds
<1>2. list = <<>> /\ Len(list) = 0 /\ mgr = "idle"
      /\ \A t \in Timers : interval[t] = 0 /\ place[t] = "idle" /\ owed[t] = 0
  BY DEF Clock!Init
<1>3. \A t \in Timers : ~ Has(list, t)
  BY <1>2 DEF Has
<1>4. Clock!IsInjective(list)
  BY <1>2 DEF Clock!IsInjective
<1>5. Asleep
  BY <1>2, <1>3, <1>4 DEF Asleep, InList
<1>6. Owing
  BY <1>2 DEF Owing
<1>7. NotEarly
  BY <1>2 DEF NotEarly, Clock!NotEarly
<1> QED
  BY <1>1, <1>5, <1>6, <1>7 DEF TimersInv

(* What has elapsed is one more after a tick, or none. *)
LEMMA Turns ==
    ASSUME NEW n \in Nat \ {0}, NEW a \in 0 .. n - 1, NEW b \in 0 .. n - 1
    PROVE  (a - b) % n = IF a >= b THEN a - b ELSE a - b + n
OBVIOUS

LEMMA Turned ==
    ASSUME NEW n \in Nat \ {0}, NEW a \in 0 .. n - 1
    PROVE  (a + 1) % n = IF a + 1 = n THEN 0 ELSE a + 1
OBVIOUS

LEMMA ElapsedIs ==
    ASSUME Kinds
    PROVE  Clock!Elapsed \in Nat
<1>1. Clock!Elapsed = IF count >= counter THEN count - counter ELSE count - counter + CounterWrap
  BY Params, Turns DEF Kinds, Clock!Elapsed
<1>2. count \in 0 .. CounterWrap - 1 /\ counter \in 0 .. CounterWrap - 1 /\ CounterWrap \in Nat
  BY Params DEF Kinds
<1> QED
  BY <1>1, <1>2

LEMMA NoneElapsed ==
    ASSUME Kinds, counter' = count, count' = count
    PROVE  Clock!Elapsed' = 0
<1>1. Clock!Elapsed' = (count' - counter') % CounterWrap
  BY DEF Clock!Elapsed
<1>2. count \in 0 .. CounterWrap - 1 /\ CounterWrap \in Nat \ {0}
  BY Params DEF Kinds
<1>3. (count - count) % CounterWrap = count - count
  BY <1>2, Turns
<1> QED
  BY <1>1, <1>2, <1>3

LEMMA OneElapsed ==
    ASSUME Kinds, counter' = counter, count' = (count + 1) % CounterWrap
    PROVE  Clock!Elapsed' \in {Clock!Elapsed + 1, 0} /\ Clock!Elapsed \in Nat
           /\ count' \in 0 .. CounterWrap - 1
<1> DEFINE n == CounterWrap
           e(c) == IF c >= counter THEN c - counter ELSE c - counter + n
<1>1. count \in 0 .. n - 1 /\ counter \in 0 .. n - 1 /\ n \in Nat \ {0}
  BY Params DEF Kinds
<1>2. count' = IF count + 1 = n THEN 0 ELSE count + 1
  BY <1>1, Turned
<1>3. count' \in 0 .. n - 1
  BY <1>1, <1>2
<1>4. Clock!Elapsed = e(count)
  BY <1>1, Turns DEF Clock!Elapsed
<1>5. Clock!Elapsed' = (count' - counter) % n
  BY DEF Clock!Elapsed
<1>6. (count' - counter) % n = e(count')
  BY <1>1, <1>3, Turns
<1> QED
  BY <1>1, <1>2, <1>3, <1>4, <1>5, <1>6

LEMMA RestedIs ==
    ASSUME lag \in 0 .. Latency, Clock!Rested
    PROVE  lag' \in 0 .. Latency
<1>1. lag' = lag \/ lag' = 0
  BY DEF Clock!Rested
<1> QED
  BY <1>1, Params

(* What a step leaves alone. *)
LEMMA KeepsAsleep ==
    ASSUME Asleep, UNCHANGED <<list, interval, mesg, place>>, mgr' = "arm" => list # <<>>
    PROVE  Asleep'
BY DEF Asleep, InList, Has

(* What the timers of the list have to go is at least what is owed, but for what had
   elapsed before. *)
LEMMA OwedIs ==
    ASSUME Kinds, Owing
    PROVE  /\ Len(list) \in Nat /\ Clock!Elapsed \in Nat
           /\ \A i \in 1 .. Len(list) :
                /\ list[i] \in Timers /\ owed[list[i]] \in Nat /\ value[list[i]] \in Nat
                /\ Clock!Sums(list, value)[i] \in Nat
                /\ stale[list[i]] \in Nat /\ stale[list[i]] <= Clock!Elapsed
                /\ owed[list[i]] > 0 =>
                     owed[list[i]] + Clock!Elapsed
                       <= Clock!Sums(list, value)[i] + stale[list[i]]
           /\ list # <<>> => Clock!Sums(list, value)[1] = value[list[1]] /\ Len(list) >= 1
<1> DEFINE s == Clock!Sums(list, value)
<1>1. AreSums(s, list, value, Len(list)) /\ list \in Seq(Timers) /\ Len(list) \in Nat
  BY SumsAdd DEF Kinds
<1>2. \A i \in 1 .. Len(list) :
        /\ stale[list[i]] <= Clock!Elapsed
        /\ owed[list[i]] > 0 => owed[list[i]] + Clock!Elapsed <= s[i] + stale[list[i]]
  BY DEF Owing
<1>3. list # <<>> => Len(list) >= 1
  BY <1>1, EmptySeq
<1>4. \A i \in 1 .. Len(list) : list[i] \in Timers /\ owed[list[i]] \in Nat
                                /\ value[list[i]] \in Nat /\ stale[list[i]] \in Nat
  BY <1>1, ElementOfSeq DEF Kinds
<1> HIDE DEF s
<1>5. \A i \in 1 .. Len(list) : s[i] \in Nat
  BY <1>1 DEF AreSums
<1>6. list # <<>> => s[1] = value[list[1]]
  <2> SUFFICES ASSUME list # <<>>
               PROVE  s[1] = value[list[1]]
    OBVIOUS
  <2>1. 1 \in 1 .. Len(list)
    BY <1>1, <1>3
  <2>2. s[1] = s[0] + value[list[1]] /\ s[0] = 0
    BY <1>1, <2>1 DEF AreSums
  <2> QED
    BY <1>4, <2>1, <2>2
<1> QED
  BY <1>1, <1>2, <1>3, <1>4, <1>5, <1>6, ElapsedIs DEF s

(* What is owed is told apart from what had elapsed when it is counted, or never is. *)
LEMMA FreshIs ==
    ASSUME Clock!Fresh
    PROVE  stale' \in [Timers -> Nat] /\ \A t \in Timers : stale'[t] = 0
BY DEF Clock!Fresh

LEMMA ChargedIs ==
    ASSUME Kinds
    PROVE  /\ Clock!Charged \in [Timers -> Nat]
           /\ \A t \in Timers :
                /\ owed[t] \in Nat /\ stale[t] \in Nat
                /\ Clock!Charged[t] = IF owed[t] > stale[t] THEN owed[t] - stale[t] ELSE 0
                /\ Clock!Charged[t] > 0 => owed[t] > 0
<1>1. \A t \in Timers : owed[t] \in Nat /\ stale[t] \in Nat
  BY DEF Kinds
<1>2. \A t \in Timers :
        Clock!Charged[t] = IF owed[t] > stale[t] THEN owed[t] - stale[t] ELSE 0
  BY DEF Clock!Charged
<1>3. \A o, g \in Nat : (IF o > g THEN o - g ELSE 0) \in Nat /\ (o > g => o > 0)
  OBVIOUS
<1>4. Clock!Charged \in [Timers -> Nat]
  BY <1>1, <1>3 DEF Clock!Charged
<1> QED
  BY <1>1, <1>2, <1>3, <1>4

LEMMA FreshOwing ==
    ASSUME Kinds, Owing, UNCHANGED <<list, value, owed, count>>, counter' = count, Clock!Fresh
    PROVE  Owing'
<1>1. Clock!Elapsed' = 0
  BY NoneElapsed
<1>2. Clock!Sums(list, value)' = Clock!Sums(list, value)
  BY DEF Clock!Sums
<1> SUFFICES ASSUME NEW i \in 1 .. Len(list)
             PROVE  /\ stale'[list[i]] <= 0
                    /\ owed[list[i]] > 0 =>
                         owed[list[i]] + 0 <= Clock!Sums(list, value)[i] + stale'[list[i]]
  BY <1>1, <1>2 DEF Owing
<1> DEFINE e == Clock!Elapsed
           x == Clock!Sums(list, value)[i]
           o == owed[list[i]]
           g == stale[list[i]]
<1>3. /\ list[i] \in Timers /\ o \in Nat /\ x \in Nat /\ g \in Nat /\ g <= e /\ e \in Nat
      /\ o > 0 => o + e <= x + g
  BY OwedIs
<1>4. stale'[list[i]] = 0
  BY <1>3, FreshIs
<1> HIDE DEF e, x, o, g
<1>5. o > 0 => o + 0 <= x + 0
  BY <1>3
<1> QED
  BY <1>4, <1>5 DEF x, o

LEMMA KeepsOwing ==
    ASSUME Owing, UNCHANGED <<list, value, owed, stale, count, counter>>
    PROVE  Owing'
<1>1. Clock!Elapsed' = Clock!Elapsed /\ Clock!Sums(list, value)' = Clock!Sums(list, value)
  BY DEF Clock!Elapsed, Clock!Sums
<1> QED
  BY <1>1 DEF Owing

LEMMA KeepsEarly ==
    ASSUME NotEarly, UNCHANGED <<owed, interval, mesg>>
    PROVE  NotEarly'
BY DEF NotEarly, Clock!NotEarly

LEMMA ChargesEarly ==
    ASSUME Kinds, NotEarly, owed' = Clock!Charged, UNCHANGED <<interval, mesg>>
    PROVE  NotEarly'
BY ChargedIs DEF NotEarly, Clock!NotEarly

LEMMA TickStep == ASSUME TimersInv, Clock!Tick PROVE TimersInv'
<1>1. Kinds /\ Asleep /\ Owing /\ NotEarly
  BY DEF TimersInv
<1>2. /\ Clock!Busy => lag < Latency
      /\ lag' = IF Clock!Busy THEN lag + 1 ELSE 0
      /\ count' = (count + 1) % CounterWrap
      /\ irq' = (irq \/ count' = compare)
      /\ owed' = [t \in Timers |-> IF owed[t] > 0 THEN owed[t] - 1 ELSE 0]
      /\ UNCHANGED <<compare, newTime, events, counter, list, value, interval, mesg, place,
                     tim, mgr>>
      /\ IF Clock!Elapsed' = 0 THEN Clock!Fresh ELSE UNCHANGED stale
  BY DEF Clock!Tick
<1>3. /\ Clock!Elapsed' \in {Clock!Elapsed + 1, 0} /\ Clock!Elapsed \in Nat
      /\ count' \in 0 .. CounterWrap - 1
  BY <1>1, <1>2, OneElapsed
<1>4. irq' \in BOOLEAN
  BY <1>2, Zenon
<1>5. lag' \in 0 .. Latency
  <2>1. lag \in 0 .. Latency
    BY <1>1 DEF Kinds
  <2>2. CASE Clock!Busy
    BY <1>2, <2>1, <2>2, Params
  <2>3. CASE ~ Clock!Busy
    BY <1>2, <2>3, Params
  <2> QED
    BY <2>2, <2>3
<1>6. owed' \in [Timers -> Nat]
      /\ \A t \in Timers : owed'[t] = (IF owed[t] > 0 THEN owed[t] - 1 ELSE 0) /\ owed[t] \in Nat
  BY <1>1, <1>2 DEF Kinds
<1>11. /\ stale' \in [Timers -> Nat] /\ stale \in [Timers -> Nat]
       /\ \A t \in Timers : \/ Clock!Elapsed' = 0 /\ stale'[t] = 0
                            \/ Clock!Elapsed' = Clock!Elapsed + 1 /\ stale'[t] = stale[t]
  <2>1. stale \in [Timers -> Nat]
    BY <1>1 DEF Kinds
  <2>2. CASE Clock!Elapsed' = 0
    BY <1>2, <2>1, <2>2, FreshIs
  <2>3. CASE Clock!Elapsed' # 0
    BY <1>2, <1>3, <2>1, <2>3
  <2> QED
    BY <2>2, <2>3
<1>7. Kinds'
  BY <1>1, <1>2, <1>3, <1>4, <1>5, <1>6, <1>11 DEF Kinds
<1>8. Asleep'
  <2>1. mgr' = "arm" => list # <<>>
    BY <1>1, <1>2 DEF Asleep
  <2> QED
    BY <1>1, <1>2, <2>1, KeepsAsleep
<1>9. Owing'
  <2> SUFFICES ASSUME NEW i \in 1 .. Len(list)
               PROVE  /\ stale'[list[i]] <= Clock!Elapsed'
                      /\ owed'[list[i]] > 0 =>
                           owed'[list[i]] + Clock!Elapsed'
                             <= Clock!Sums(list, value)'[i] + stale'[list[i]]
    BY <1>2 DEF Owing
  <2> DEFINE e == Clock!Elapsed
             x == Clock!Sums(list, value)[i]
             o == owed[list[i]]
             g == stale[list[i]]
  <2>1. Clock!Sums(list, value)'[i] = x
    BY <1>2 DEF Clock!Sums
  <2>2. /\ list[i] \in Timers /\ o \in Nat /\ x \in Nat /\ g \in Nat /\ g <= e
        /\ o > 0 => o + e <= x + g
    BY <1>1, OwedIs
  <2>3. owed'[list[i]] = IF o > 0 THEN o - 1 ELSE 0
    BY <1>6, <2>2
  <2>4. \/ Clock!Elapsed' = 0 /\ stale'[list[i]] = 0
        \/ Clock!Elapsed' = e + 1 /\ stale'[list[i]] = g
    BY <1>11, <2>2
  <2>5. e \in Nat
    BY <1>3
  <2> HIDE DEF e, x, o, g
  <2>6. ASSUME o > 0
        PROVE  (o - 1) + 0 <= x + 0 /\ (o - 1) + (e + 1) <= x + g
    BY <2>2, <2>5, <2>6
  <2>7. g <= e + 1 /\ 0 <= 0
    BY <2>2, <2>5
  <2>8. CASE Clock!Elapsed' = 0 /\ stale'[list[i]] = 0
    BY <2>1, <2>3, <2>6, <2>7, <2>8
  <2>9. CASE Clock!Elapsed' = e + 1 /\ stale'[list[i]] = g
    BY <2>1, <2>3, <2>6, <2>7, <2>9
  <2> QED
    BY <2>4, <2>8, <2>9
<1>10. NotEarly'
  <2> SUFFICES ASSUME NEW t \in Timers, owed'[t] > 0, interval'[t] = 0
               PROVE  mesg'[t] = 0
    BY DEF NotEarly, Clock!NotEarly
  <2>1. owed[t] > 0
    BY <1>6
  <2> QED
    BY <1>1, <1>2, <2>1 DEF NotEarly, Clock!NotEarly
<1> QED
  BY <1>7, <1>8, <1>9, <1>10 DEF TimersInv

(* The steps that leave the list alone. *)
LEMMA InterruptStep == ASSUME TimersInv, Clock!Interrupt PROVE TimersInv'
<1>1. Kinds /\ Asleep /\ Owing /\ NotEarly
  BY DEF TimersInv
<1>2. /\ irq' = FALSE
      /\ events' = IF events < EventCap THEN events + 1 ELSE events
      /\ UNCHANGED <<count, compare, newTime, counter, list, value, interval, mesg, place, tim,
                     mgr, owed, stale>>
      /\ Clock!Rested
  BY DEF Clock!Interrupt
<1>3. irq' \in BOOLEAN
  BY <1>2, Zenon
<1>4. lag' \in 0 .. Latency
  BY <1>1, <1>2, RestedIs DEF Kinds
<1>5. Kinds'
  BY <1>1, <1>2, <1>3, <1>4, Params DEF Kinds
<1>6. Asleep'
  <2>1. mgr' = "arm" => list # <<>>
    BY <1>1, <1>2 DEF Asleep
  <2> QED
    BY <1>1, <1>2, <2>1, KeepsAsleep
<1> QED
  BY <1>1, <1>2, <1>5, <1>6, KeepsOwing, KeepsEarly DEF TimersInv

LEMMA WriteCompareStep == ASSUME TimersInv, Clock!WriteCompare PROVE TimersInv'
<1>1. Kinds /\ Asleep /\ Owing /\ NotEarly
  BY DEF TimersInv
<1>2. /\ newTime # Clock!None
      /\ compare' = newTime /\ irq' = FALSE
      /\ newTime' = Clock!None
      /\ UNCHANGED <<count, events, counter, list, value, interval, mesg, place, tim, mgr, owed,
                     stale>>
      /\ Clock!Rested
  BY DEF Clock!WriteCompare
<1>3. irq' \in BOOLEAN
  BY <1>2, Zenon
<1>4. lag' \in 0 .. Latency
  BY <1>1, <1>2, RestedIs DEF Kinds
<1>5. Kinds'
  BY <1>1, <1>2, <1>3, <1>4 DEF Kinds
<1>6. Asleep'
  <2>1. mgr' = "arm" => list # <<>>
    BY <1>1, <1>2 DEF Asleep
  <2> QED
    BY <1>1, <1>2, <2>1, KeepsAsleep
<1> QED
  BY <1>1, <1>2, <1>5, <1>6, KeepsOwing, KeepsEarly DEF TimersInv

LEMMA TakeEventStep == ASSUME TimersInv, Clock!TakeEvent, Clock!Rested PROVE TimersInv'
<1>1. Kinds /\ Asleep /\ Owing /\ NotEarly
  BY DEF TimersInv
<1>2. /\ events > 0 /\ events' = events - 1
      /\ mgr' = IF list = <<>> THEN "idle" ELSE "loop"
      /\ UNCHANGED <<count, interval, place, tim>>
      /\ UNCHANGED <<compare, irq, newTime, counter, list, value, mesg, owed, stale>>
  BY DEF Clock!TakeEvent, Clock!Manager
<1>3. lag' \in 0 .. Latency
  BY <1>1, RestedIs DEF Kinds
<1>4. Kinds'
  BY <1>1, <1>2, <1>3, Params DEF Kinds
<1>5. Asleep'
  BY <1>1, <1>2, KeepsAsleep
<1> QED
  BY <1>1, <1>2, <1>4, <1>5, KeepsOwing, KeepsEarly DEF TimersInv

LEMMA NoneLeftStep == ASSUME TimersInv, Clock!NoneLeft, Clock!Rested PROVE TimersInv'
<1>1. Kinds /\ Asleep /\ Owing /\ NotEarly
  BY DEF TimersInv
<1>2. /\ list = <<>> /\ compare' = 0 /\ irq' = FALSE /\ counter' = 0 /\ mgr' = "idle"
      /\ UNCHANGED <<count, interval, place, tim>>
      /\ UNCHANGED <<newTime, events, list, value, mesg, owed, stale>>
  BY DEF Clock!NoneLeft, Clock!Manager
<1>3. lag' \in 0 .. Latency
  BY <1>1, RestedIs DEF Kinds
<1>4. irq' \in BOOLEAN
  BY <1>2, Zenon
<1>5. 0 \in 0 .. CounterWrap - 1
  BY Params
<1>6. Kinds'
  BY <1>1, <1>2, <1>3, <1>4, <1>5 DEF Kinds
<1>7. Asleep'
  BY <1>1, <1>2, KeepsAsleep
<1>8. Owing'
  BY <1>2 DEF Owing
<1> QED
  BY <1>1, <1>2, <1>6, <1>7, <1>8, KeepsEarly DEF TimersInv

LEMMA ArmStep == ASSUME TimersInv, Clock!Arm, Clock!Rested PROVE TimersInv'
<1>1. Kinds /\ Asleep /\ Owing /\ NotEarly
  BY DEF TimersInv
<1>2. /\ mgr = "arm" /\ counter' = count
      /\ newTime' = (count + value[Head(list)]) % CounterWrap
      /\ mgr' = "idle"
      /\ UNCHANGED <<count, interval, place, tim>>
      /\ UNCHANGED <<compare, irq, events, list, value, mesg, owed>>
      /\ Clock!Fresh
  BY DEF Clock!Arm, Clock!Manager, Clock!SetTimerIntr
<1>3. lag' \in 0 .. Latency
  BY <1>1, RestedIs DEF Kinds
<1>4. newTime' \in 0 .. CounterWrap - 1
  <2>1. Head(list) \in Timers
    BY <1>1, <1>2, HeadTailProperties, ElementOfSeq DEF Kinds, Asleep
  <2>2. value[Head(list)] \in Nat /\ count \in Nat
    BY <1>1, <2>1 DEF Kinds
  <2>3. \A x \in Nat : x % CounterWrap \in 0 .. CounterWrap - 1
    BY Params
  <2>4. count + value[Head(list)] \in Nat
    BY <2>2
  <2> QED
    BY <1>2, <2>3, <2>4, Zenon
<1>5. Kinds'
  BY <1>1, <1>2, <1>3, <1>4, FreshIs DEF Kinds
<1>6. Asleep'
  BY <1>1, <1>2, KeepsAsleep
<1> QED
  BY <1>1, <1>2, <1>5, <1>6, FreshOwing, KeepsEarly DEF TimersInv

LEMMA NotYetStep == ASSUME TimersInv, Clock!NotYet, Clock!Rested PROVE TimersInv'
<1>1. Kinds /\ Asleep /\ Owing /\ NotEarly
  BY DEF TimersInv
<1> DEFINE e == Clock!Elapsed
<1>2. /\ list # <<>> /\ e < value[Head(list)]
      /\ value' = [value EXCEPT ![Head(list)] = @ - e]
      /\ counter' = count /\ mgr' = "arm"
      /\ UNCHANGED <<count, interval, place, tim>>
      /\ UNCHANGED <<compare, irq, newTime, events, list, mesg>>
      /\ owed' = Clock!Charged /\ Clock!Fresh
  BY DEF Clock!NotYet, Clock!Manager
<1>3. lag' \in 0 .. Latency
  BY <1>1, RestedIs DEF Kinds
<1>4. e \in Nat
  BY <1>1, ElapsedIs
<1>5. Clock!Elapsed' = 0
  BY <1>1, <1>2, NoneElapsed
<1>6. list \in Seq(Timers) /\ Clock!IsInjective(list) /\ Head(list) = list[1] /\ list[1] \in Timers
  BY <1>1, <1>2, TailHas DEF Kinds, Asleep
<1> HIDE DEF e
<1>7. value' = [value EXCEPT ![list[1]] = @ - e] /\ e <= value[list[1]] /\ value \in [Timers -> Nat]
  <2>1. value \in [Timers -> Nat]
    BY <1>1 DEF Kinds
  <2>2. value' = [value EXCEPT ![list[1]] = @ - e] /\ e < value[list[1]]
    BY <1>2, <1>6
  <2>3. value[list[1]] \in Nat
    BY <1>6, <2>1
  <2> QED
    BY <1>4, <2>1, <2>2, <2>3
<1> DEFINE w == value'
<1>8. /\ w \in [Timers -> Nat]
      /\ \A i \in 1 .. Len(list) : Clock!Sums(list, w)[i] = Clock!Sums(list, value)[i] - e
  <2>1. /\ w \in [Timers -> Nat] /\ w[list[1]] = value[list[1]] - e
        /\ \A u \in Timers : u # list[1] => w[u] = value[u]
    BY <1>4, <1>6, <1>7
  <2>2. list # <<>> /\ e <= value[list[1]] /\ value \in [Timers -> Nat]
    BY <1>2, <1>7
  <2> HIDE DEF w
  <2>3. \A i \in 1 .. Len(list) : Clock!Sums(list, w)[i] = Clock!Sums(list, value)[i] - e
    BY ONLY <1>4, <1>6, <2>1, <2>2, LessSums
  <2> QED
    BY <2>1, <2>3
<1>9. Kinds'
  BY <1>1, <1>2, <1>3, <1>8, ChargedIs, FreshIs DEF Kinds
<1>10. Asleep'
  BY <1>1, <1>2, KeepsAsleep
<1>11. Owing'
  <2> SUFFICES ASSUME NEW i \in 1 .. Len(list)
               PROVE  /\ stale'[list[i]] <= 0
                      /\ owed'[list[i]] > 0 =>
                           owed'[list[i]] + 0 <= Clock!Sums(list, value)'[i] + stale'[list[i]]
    BY <1>2, <1>5 DEF Owing
  <2> DEFINE x == Clock!Sums(list, value)[i]
             o == owed[list[i]]
             g == stale[list[i]]
  <2>1. /\ list[i] \in Timers /\ o \in Nat /\ x \in Nat /\ g \in Nat
        /\ o > 0 => o + e <= x + g
    BY <1>1, OwedIs DEF e
  <2>2. Clock!Sums(list, value)'[i] = x - e
    <3>1. Clock!Sums(list, value)' = Clock!Sums(list, w)
      BY <1>2 DEF Clock!Sums
    <3> HIDE DEF w
    <3> QED
      BY <1>8, <3>1
  <2>3. stale'[list[i]] = 0 /\ owed'[list[i]] = IF o > g THEN o - g ELSE 0
    BY <1>1, <1>2, <2>1, FreshIs, ChargedIs
  <2> HIDE DEF x, o, g, w
  <2>4. o > g => (o - g) + 0 <= (x - e) + 0
    BY <1>4, <2>1
  <2> QED
    BY <2>2, <2>3, <2>4
<1>12. NotEarly'
  BY <1>1, <1>2, ChargesEarly
<1> QED
  BY <1>9, <1>10, <1>11, <1>12 DEF TimersInv

(* A timer goes off. *)
LEMMA SumsNat ==
    ASSUME NEW l \in Seq(Timers), NEW v \in [Timers -> Nat], NEW i \in 1 .. Len(l)
    PROVE  Clock!Sums(l, v)[i] \in Nat
<1> DEFINE s == Clock!Sums(l, v)
<1>1. AreSums(s, l, v, Len(l)) /\ Len(l) \in Nat
  BY SumsAdd
<1> HIDE DEF s
<1>2. s[i] \in Nat
  BY <1>1 DEF AreSums
<1> QED
  BY <1>2 DEF s

LEMMA ExpireFacts ==
    ASSUME TimersInv, Clock!Expire
    PROVE  /\ Kinds /\ Asleep /\ Owing /\ NotEarly
           /\ list \in Seq(Timers) /\ Clock!IsInjective(list) /\ list # <<>>
           /\ Head(list) = list[1] /\ list[1] \in Timers
           /\ Clock!Elapsed >= value[list[1]] /\ Clock!Elapsed' = 0 /\ mgr = "loop"
           /\ counter' = count /\ mesg' = [mesg EXCEPT ![list[1]] = 1]
           /\ Clock!Fresh
           /\ UNCHANGED <<count, interval, place, tim>>
           /\ UNCHANGED <<compare, irq, newTime, events, mgr>>
<1>1. Kinds /\ Asleep /\ Owing /\ NotEarly /\ list \in Seq(Timers) /\ Clock!IsInjective(list)
  BY DEF TimersInv, Kinds, Asleep
<1>2. /\ list # <<>> /\ mgr = "loop"
      /\ Clock!Elapsed >= value[Head(list)]
      /\ counter' = count
      /\ mesg' = [mesg EXCEPT ![Head(list)] = 1] /\ Clock!Fresh
      /\ UNCHANGED <<count, interval, place, tim>>
      /\ UNCHANGED <<compare, irq, newTime, events, mgr>>
  BY DEF Clock!Expire, Clock!Manager
<1>3. Head(list) = list[1] /\ list[1] \in Timers
  BY <1>1, <1>2, TailHas
<1>4. Clock!Elapsed' = 0
  BY <1>1, <1>2, NoneElapsed
<1> QED
  BY <1>1, <1>2, <1>3, <1>4

(* What is owed to the others is still to go when the first has left. *)
LEMMA TailOwed ==
    ASSUME Kinds, Asleep, Owing, list # <<>>, Clock!Elapsed >= value[list[1]]
    PROVE  \A i \in 1 .. Len(Tail(list)) :
             Clock!Charged[Tail(list)[i]] > 0 =>
               Clock!Charged[Tail(list)[i]] <= Clock!Sums(Tail(list), value)[i]
<1>1. /\ Len(Tail(list)) = Len(list) - 1 /\ Len(list) >= 1
      /\ \A i \in 1 .. Len(list) - 1 : Tail(list)[i] = list[i + 1]
  BY TailHas DEF Kinds, Asleep
<1>2. \A i \in 0 .. Len(list) - 1 :
        Clock!Sums(Tail(list), value)[i] = Clock!Sums(list, value)[i + 1] - value[list[1]]
  BY TailSums DEF Kinds
<1> SUFFICES ASSUME NEW i \in 1 .. Len(list) - 1, Clock!Charged[list[i + 1]] > 0
             PROVE  Clock!Charged[list[i + 1]]
                      <= Clock!Sums(list, value)[i + 1] - value[list[1]]
  BY <1>1, <1>2
<1> DEFINE e == Clock!Elapsed
           x == Clock!Sums(list, value)[i + 1]
           o == owed[list[i + 1]]
           g == stale[list[i + 1]]
           v == value[list[1]]
<1>3. Len(list) \in Nat /\ e \in Nat
  BY OwedIs
<1>4. i + 1 \in 1 .. Len(list) /\ 1 \in 1 .. Len(list)
  BY <1>1, <1>3
<1>5. /\ list[i + 1] \in Timers /\ o \in Nat /\ x \in Nat /\ g \in Nat /\ v \in Nat
      /\ o > 0 => o + e <= x + g
  BY <1>4, OwedIs
<1>6. Clock!Charged[list[i + 1]] = IF o > g THEN o - g ELSE 0
  BY <1>5, ChargedIs
<1>7. e >= v
  OBVIOUS
<1> HIDE DEF e, x, o, g, v
<1>8. o > g
  BY <1>6
<1>9. o - g <= x - v
  BY <1>3, <1>5, <1>7, <1>8
<1> QED
  BY <1>6, <1>8, <1>9 DEF x, v

(* Nobody is told early. *)
LEMMA TellsInTime ==
    ASSUME TimersInv, Clock!Expire, owed' = Clock!Charged
    PROVE  NotEarly'
<1>1. /\ Kinds /\ Asleep /\ Owing /\ NotEarly /\ list # <<>> /\ list[1] \in Timers
      /\ Clock!Elapsed >= value[list[1]] /\ mesg' = [mesg EXCEPT ![list[1]] = 1]
      /\ interval' = interval
  BY ExpireFacts
<1> DEFINE e == Clock!Elapsed
           o == owed[list[1]]
           g == stale[list[1]]
           v == value[list[1]]
<1>2. /\ o \in Nat /\ e \in Nat /\ g \in Nat /\ v \in Nat
      /\ o > 0 => o + e <= v + g
  <2>1. Len(list) \in Nat /\ Len(list) >= 1
    BY <1>1, OwedIs
  <2>2. 1 \in 1 .. Len(list)
    BY <2>1
  <2>3. Clock!Sums(list, value)[1] = v
    BY <1>1, OwedIs
  <2> QED
    BY <1>1, <2>2, <2>3, OwedIs
<1>3. Clock!Charged[list[1]] = IF o > g THEN o - g ELSE 0
  BY <1>1, ChargedIs
<1>4. e >= v
  BY <1>1
<1> HIDE DEF e, o, g, v
<1>5. Clock!Charged[list[1]] = 0
  BY <1>2, <1>3, <1>4
<1>6. \A t \in Timers : t # list[1] => mesg'[t] = mesg[t]
  BY <1>1 DEF Kinds
<1> SUFFICES ASSUME NEW t \in Timers, Clock!Charged[t] > 0, interval[t] = 0
             PROVE  mesg'[t] = 0
  BY <1>1 DEF NotEarly, Clock!NotEarly
<1>7. t # list[1]
  BY <1>5
<1>8. owed[t] > 0
  BY <1>1, ChargedIs
<1> QED
  BY <1>1, <1>6, <1>7, <1>8 DEF NotEarly, Clock!NotEarly

LEMMA ExpireOnce ==
    ASSUME TimersInv, Clock!Expire, Clock!Rested, interval[list[1]] = 0
    PROVE  TimersInv'
<1>1. /\ Kinds /\ Asleep /\ Owing /\ NotEarly
      /\ list \in Seq(Timers) /\ Clock!IsInjective(list) /\ list # <<>>
      /\ Head(list) = list[1] /\ list[1] \in Timers
      /\ Clock!Elapsed >= value[list[1]] /\ Clock!Elapsed' = 0 /\ mgr = "loop"
      /\ counter' = count /\ mesg' = [mesg EXCEPT ![list[1]] = 1] /\ Clock!Fresh
      /\ UNCHANGED <<count, interval, place, tim>>
      /\ UNCHANGED <<compare, irq, newTime, events, mgr>>
  BY ExpireFacts
<1>2. list' = Tail(list) /\ value' = value /\ owed' = Clock!Charged
  BY <1>1 DEF Clock!Expire
<1>3. /\ Tail(list) \in Seq(Timers) /\ Clock!IsInjective(Tail(list))
      /\ \A u : Has(Tail(list), u) <=> Has(list, u) /\ u # list[1]
      /\ Has(list, list[1])
  <2>1. Len(list) >= 1 /\ Len(list) \in Nat
    BY <1>1, OwedIs
  <2>2. Has(list, list[1])
    BY <2>1 DEF Has
  <2> QED
    BY <1>1, <2>2, TailHas
<1>4. lag' \in 0 .. Latency
  BY <1>1, RestedIs DEF Kinds
<1>5. mesg' \in [Timers -> 0 .. 1] /\ mesg'[list[1]] = 1
      /\ \A t \in Timers : t # list[1] => mesg'[t] = mesg[t]
  BY <1>1 DEF Kinds
<1>6. Kinds'
  BY <1>1, <1>2, <1>3, <1>4, <1>5, ChargedIs, FreshIs DEF Kinds
<1>7. Asleep'
  <2>1. \A t \in Timers : InList(t) /\ (place[t] = "idle" => interval[t] = 0)
    BY <1>1 DEF Asleep
  <2>2. ASSUME NEW t \in Timers
        PROVE  InList(t)'
    <3>1. InList(t)' <=> IF interval[t] = 0
                         THEN Has(Tail(list), t) <=> place[t] # "idle" /\ mesg'[t] = 0
                         ELSE Has(Tail(list), t)
      BY <1>1, <1>2 DEF InList, Has
    <3>2. CASE t = list[1]
      BY <1>3, <1>5, <3>1, <3>2
    <3>3. CASE t # list[1]
      BY <1>3, <1>5, <2>1, <3>1, <3>3 DEF InList
    <3> QED
      BY <3>2, <3>3
  <2> QED
    BY <1>1, <1>2, <1>3, <2>1, <2>2 DEF Asleep
<1>8. Owing'
  <2> DEFINE l == Tail(list)
  <2>1. Clock!Sums(list, value)' = Clock!Sums(l, value)
    BY <1>2 DEF Clock!Sums
  <2> SUFFICES ASSUME NEW i \in 1 .. Len(l)
               PROVE  /\ stale'[l[i]] <= Clock!Elapsed'
                      /\ Clock!Charged[l[i]] > 0 =>
                           Clock!Charged[l[i]] + Clock!Elapsed'
                             <= Clock!Sums(l, value)[i] + stale'[l[i]]
    BY <1>2, <2>1 DEF Owing
  <2>2. l[i] \in Timers
    BY <1>3, ElementOfSeq
  <2>3. stale'[l[i]] = 0 /\ Clock!Charged[l[i]] \in Nat /\ Clock!Elapsed' = 0
    BY <1>1, <2>2, FreshIs, ChargedIs
  <2>4. Clock!Charged[l[i]] > 0 => Clock!Charged[l[i]] <= Clock!Sums(l, value)[i]
    BY <1>1, TailOwed
  <2>5. Clock!Sums(l, value)[i] \in Nat
    BY <1>1, <1>3, SumsNat DEF Kinds
  <2> HIDE DEF l
  <2> QED
    BY <2>3, <2>4, <2>5
<1>9. NotEarly'
  BY <1>2, TellsInTime
<1> QED
  BY <1>6, <1>7, <1>8, <1>9 DEF TimersInv

Due(o, x) == o \in Nat /\ x \in Nat /\ (o > 0 => o <= x)

LEMMA ExpireAndGoOn ==
    ASSUME TimersInv, Clock!Expire, Clock!Rested, interval[list[1]] # 0
    PROVE  TimersInv'
<1> DEFINE h == list[1]
           l == Tail(list)
           x == interval[h]
           in == Clock!Insert(l, value, h, x)
<1>1. /\ Kinds /\ Asleep /\ Owing /\ NotEarly
      /\ list \in Seq(Timers) /\ Clock!IsInjective(list) /\ list # <<>>
      /\ Head(list) = h /\ h \in Timers
      /\ Clock!Elapsed >= value[h] /\ Clock!Elapsed' = 0 /\ mgr = "loop"
      /\ counter' = count /\ mesg' = [mesg EXCEPT ![h] = 1] /\ Clock!Fresh
      /\ UNCHANGED <<count, interval, place, tim>>
      /\ UNCHANGED <<compare, irq, newTime, events, mgr>>
  BY ExpireFacts
<1>2. list' = in.list /\ value' = in.value /\ owed' = [Clock!Charged EXCEPT ![h] = x]
  BY <1>1 DEF Clock!Expire
<1>3. /\ l \in Seq(Timers) /\ Clock!IsInjective(l)
      /\ \A u : Has(l, u) <=> Has(list, u) /\ u # h
      /\ ~ Has(l, h)
  BY <1>1, TailHas
<1>4. value \in [Timers -> Nat] /\ x \in Nat /\ interval \in [Timers -> Intervals \cup {0}]
  BY <1>1, Params DEF Kinds
<1>5. PICK n : Inserted(l, value, h, x, n)
  <2>1. \A i \in 1 .. Len(l) : l[i] # h
    BY <1>3 DEF Has
  <2> HIDE DEF h, l, x
  <2> QED
    BY <1>1, <1>3, <1>4, <2>1, InsertIs
<1> DEFINE z == Clock!Sums(in.list, in.value)
           s == Clock!Sums(l, value)
<1>6. /\ n \in 0 .. Len(l)
      /\ in.list \in Seq(Timers) /\ Len(in.list) = Len(l) + 1
      /\ \A j \in 1 .. Len(l) + 1 :
           in.list[j] = IF j < n + 1 THEN l[j] ELSE IF j = n + 1 THEN h ELSE l[j - 1]
      /\ in.value \in [Timers -> Nat] /\ in.tim \in Nat
      /\ \A j \in 1 .. Len(l) + 1 :
           z[j] = IF j < n + 1 THEN s[j] ELSE IF j = n + 1 THEN x ELSE s[j - 1]
  BY <1>5 DEF Inserted
<1>7. \A i \in 1 .. Len(l) : Clock!Charged[l[i]] > 0 => Clock!Charged[l[i]] <= s[i]
  BY <1>1, TailOwed
<1>8. Clock!Sums(list, value)' = z
  BY <1>2 DEF Clock!Sums
<1> HIDE DEF in, z, s, l, x
<1>9. /\ Clock!IsInjective(in.list)
      /\ \A u : Has(in.list, u) <=> Has(l, u) \/ u = h
  BY <1>1, <1>3, <1>6, InsertedHas
<1>10. lag' \in 0 .. Latency
  BY <1>1, RestedIs DEF Kinds
<1>11. mesg' \in [Timers -> 0 .. 1]
  BY <1>1 DEF Kinds
<1>12. owed' \in [Timers -> Nat] /\ owed'[h] = x
       /\ \A t \in Timers : t # h => owed'[t] = Clock!Charged[t]
  BY <1>1, <1>2, <1>4, ChargedIs
<1>13. Kinds'
  BY <1>1, <1>2, <1>6, <1>10, <1>11, <1>12, FreshIs DEF Kinds
<1>14. Asleep'
  <2>1. \A t \in Timers : InList(t) /\ (place[t] = "idle" => interval[t] = 0)
    BY <1>1 DEF Asleep
  <2>2. ASSUME NEW t \in Timers
        PROVE  InList(t)'
    <3>1. InList(t)' <=> IF interval[t] = 0
                         THEN Has(in.list, t) <=> place[t] # "idle" /\ mesg'[t] = 0
                         ELSE Has(in.list, t)
      BY <1>1, <1>2 DEF InList, Has
    <3>2. CASE t = h
      BY <1>4, <1>9, <3>1, <3>2 DEF x
    <3>3. CASE t # h
      <4>1. mesg'[t] = mesg[t]
        BY <1>1, <3>3 DEF Kinds
      <4> QED
        BY <1>3, <1>9, <2>1, <3>1, <3>3, <4>1 DEF InList
    <3> QED
      BY <3>2, <3>3
  <2> QED
    BY <1>1, <1>2, <1>9, <2>1, <2>2 DEF Asleep
<1>15. Owing'
  <2> SUFFICES ASSUME NEW j \in 1 .. Len(l) + 1
               PROVE  /\ stale'[in.list[j]] <= Clock!Elapsed'
                      /\ owed'[in.list[j]] > 0 =>
                           owed'[in.list[j]] + Clock!Elapsed' <= z[j] + stale'[in.list[j]]
    BY <1>2, <1>6, <1>8 DEF Owing
  <2>1. Len(l) \in Nat /\ in.list[j] \in Timers
    BY <1>3, <1>6, ElementOfSeq
  <2>2. \A i \in 1 .. Len(l) : l[i] \in Timers /\ l[i] # h /\ Clock!Charged[l[i]] \in Nat
                               /\ s[i] \in Nat
    BY <1>1, <1>3, <1>4, ElementOfSeq, ChargedIs, SumsNat DEF Has, s
  <2>3. ASSUME NEW i \in 1 .. Len(l), in.list[j] = l[i], z[j] = s[i]
        PROVE  Due(owed'[in.list[j]], z[j])
    BY <1>7, <1>12, <2>2, <2>3 DEF Due
  <2>4. Due(owed'[in.list[j]], z[j])
    <3>1. CASE j < n + 1
      <4>1. j \in 1 .. Len(l)
        BY <1>6, <2>1, <3>1
      <4>2. in.list[j] = l[j] /\ z[j] = s[j]
        BY <1>6, <3>1
      <4> QED
        BY <2>3, <4>1, <4>2
    <3>2. CASE j = n + 1
      <4>1. in.list[j] = h /\ z[j] = x
        BY <1>6, <3>2
      <4> HIDE DEF h
      <4> QED
        BY <1>4, <1>12, <4>1 DEF Due
    <3>3. CASE j > n + 1
      <4>1. j - 1 \in 1 .. Len(l)
        BY <1>6, <2>1, <3>3
      <4>2. in.list[j] = l[j - 1] /\ z[j] = s[j - 1]
        BY <1>6, <2>1, <3>3
      <4> QED
        BY <2>3, <4>1, <4>2
    <3> QED
      BY <1>6, <2>1, <3>1, <3>2, <3>3
  <2>5. stale'[in.list[j]] = 0
    BY <1>1, <2>1, FreshIs
  <2> QED
    BY <1>1, <2>4, <2>5 DEF Due
<1>16. NotEarly'
  <2> SUFFICES ASSUME NEW t \in Timers, owed'[t] > 0, interval[t] = 0
               PROVE  mesg'[t] = 0
    BY <1>1 DEF NotEarly, Clock!NotEarly
  <2>1. t # h
    BY DEF x
  <2>2. mesg'[t] = mesg[t] /\ owed[t] > 0
    BY <1>1, <1>12, <2>1, ChargedIs DEF Kinds
  <2> QED
    BY <1>1, <2>2 DEF NotEarly, Clock!NotEarly
<1> QED
  BY <1>13, <1>14, <1>15, <1>16 DEF TimersInv

LEMMA ManageStep == ASSUME TimersInv, Clock!Manage PROVE TimersInv'
<1>1. Clock!Rested /\ (\/ Clock!TakeEvent \/ Clock!NoneLeft \/ Clock!NotYet \/ Clock!Arm
                       \/ Clock!Expire)
  BY DEF Clock!Manage
<1> QED
  BY <1>1, TakeEventStep, NoneLeftStep, NotYetStep, ArmStep, ExpireOnce, ExpireAndGoOn

(* The threads. *)
LEMMA SetTimerStep ==
    ASSUME TimersInv, NEW t \in Timers, Clock!SetTimer(t), Clock!Rested
    PROVE  TimersInv'
<1>1. Kinds /\ Asleep /\ Owing /\ NotEarly
  BY DEF TimersInv
<1>2. PICK x \in Durations, i \in Intervals :
         LET in == Clock!Insert(list, value, t, x)
         IN  /\ list' = in.list /\ value' = in.value
             /\ tim' = [tim EXCEPT ![t] = in.tim]
             /\ interval' = [interval EXCEPT ![t] = i]
             /\ owed' = [owed EXCEPT ![t] = x] /\ stale' = [stale EXCEPT ![t] = Clock!Elapsed]
  BY DEF Clock!SetTimer
<1>3. /\ place[t] = "idle"
      /\ mesg' = [mesg EXCEPT ![t] = 0]
      /\ place' = [place EXCEPT ![t] = "check"]
      /\ UNCHANGED <<newTime, counter>>
      /\ UNCHANGED <<count, compare, irq, events, mgr>>
  BY DEF Clock!SetTimer, Clock!Thread
<1> DEFINE in == Clock!Insert(list, value, t, x)
           e == Clock!Elapsed
           z == Clock!Sums(in.list, in.value)
           s == Clock!Sums(list, value)
<1>4. /\ list' = in.list /\ value' = in.value
      /\ tim' = [tim EXCEPT ![t] = in.tim]
      /\ interval' = [interval EXCEPT ![t] = i]
      /\ owed' = [owed EXCEPT ![t] = x] /\ stale' = [stale EXCEPT ![t] = e]
  BY <1>2
<1>5. list \in Seq(Timers) /\ Clock!IsInjective(list) /\ ~ Has(list, t)
  BY <1>1, <1>3 DEF Kinds, Asleep, InList
<1>6. value \in [Timers -> Nat] /\ x \in Nat /\ i \in Nat /\ e \in Nat
  BY <1>1, Params, ElapsedIs DEF Kinds
<1>7. PICK n : Inserted(list, value, t, x, n)
  <2>1. \A j \in 1 .. Len(list) : list[j] # t
    BY <1>5 DEF Has
  <2> QED
    BY <1>5, <1>6, <2>1, InsertIs
<1>8. /\ n \in 0 .. Len(list)
      /\ in.list \in Seq(Timers) /\ Len(in.list) = Len(list) + 1
      /\ \A j \in 1 .. Len(list) + 1 :
           in.list[j] = IF j < n + 1 THEN list[j] ELSE IF j = n + 1 THEN t ELSE list[j - 1]
      /\ in.value \in [Timers -> Nat] /\ in.tim \in Nat
      /\ \A j \in 1 .. Len(list) + 1 :
           z[j] = IF j < n + 1 THEN s[j] ELSE IF j = n + 1 THEN x ELSE s[j - 1]
  BY <1>7 DEF Inserted
<1>9. Clock!Sums(list, value)' = z
  BY <1>4 DEF Clock!Sums
<1>10. Clock!Elapsed' = e
  BY <1>3 DEF Clock!Elapsed
<1>11. /\ Len(list) \in Nat
       /\ \A j \in 1 .. Len(list) :
            /\ list[j] \in Timers /\ owed[list[j]] \in Nat /\ s[j] \in Nat
            /\ stale[list[j]] \in Nat /\ stale[list[j]] <= e
            /\ owed[list[j]] > 0 => owed[list[j]] + e <= s[j] + stale[list[j]]
  BY <1>1, OwedIs
<1> HIDE DEF in, z, s, e
<1>13. /\ Clock!IsInjective(in.list)
       /\ \A u : Has(in.list, u) <=> Has(list, u) \/ u = t
  BY <1>5, <1>8, InsertedHas
<1>14. lag' \in 0 .. Latency
  BY <1>1, RestedIs DEF Kinds
<1>15. /\ mesg' \in [Timers -> 0 .. 1] /\ mesg'[t] = 0
       /\ place' \in [Timers -> {"idle", "check", "set", "wait"}] /\ place'[t] = "check"
       /\ interval' \in [Timers -> Intervals \cup {0}] /\ tim' \in [Timers -> Nat]
       /\ \A u \in Timers : u # t => /\ mesg'[u] = mesg[u] /\ place'[u] = place[u]
                                     /\ interval'[u] = interval[u]
  <2>1. /\ mesg \in [Timers -> 0 .. 1] /\ tim \in [Timers -> Nat]
        /\ place \in [Timers -> {"idle", "check", "set", "wait"}]
        /\ interval \in [Timers -> Intervals \cup {0}]
    BY <1>1 DEF Kinds
  <2>2. tim' \in [Timers -> Nat] /\ interval' \in [Timers -> Intervals \cup {0}]
    BY <1>4, <1>8, <2>1
  <2>3. mesg' \in [Timers -> 0 .. 1] /\ mesg'[t] = 0
    BY <1>3, <2>1
  <2>4. place' \in [Timers -> {"idle", "check", "set", "wait"}] /\ place'[t] = "check"
    BY <1>3, <2>1
  <2>5. \A u \in Timers : u # t => mesg'[u] = mesg[u] /\ place'[u] = place[u]
    BY <1>3, <2>1
  <2>6. \A u \in Timers : u # t => interval'[u] = interval[u]
    BY <1>4, <2>1
  <2> QED
    BY <2>2, <2>3, <2>4, <2>5, <2>6
<1>16. /\ owed' \in [Timers -> Nat] /\ owed'[t] = x
       /\ stale' \in [Timers -> Nat] /\ stale'[t] = e
       /\ \A u \in Timers : u # t => owed'[u] = owed[u] /\ stale'[u] = stale[u]
  BY <1>1, <1>4, <1>6 DEF Kinds
<1>17. Kinds'
  BY <1>1, <1>3, <1>4, <1>8, <1>14, <1>15, <1>16 DEF Kinds
<1>18. Asleep'
  <2>1. \A u \in Timers : InList(u) /\ (place[u] = "idle" => interval[u] = 0)
    BY <1>1 DEF Asleep
  <2>2. ASSUME NEW u \in Timers
        PROVE  InList(u)' /\ (place'[u] = "idle" => interval'[u] = 0)
    <3>1. InList(u)' <=> IF interval'[u] = 0
                         THEN Has(in.list, u) <=> place'[u] # "idle" /\ mesg'[u] = 0
                         ELSE Has(in.list, u)
      BY <1>4 DEF InList, Has
    <3>2. CASE u = t
      BY <1>13, <1>15, <3>1, <3>2
    <3>3. CASE u # t
      BY <1>13, <1>15, <2>1, <3>1, <3>3 DEF InList
    <3> QED
      BY <3>2, <3>3
  <2>3. mgr' = "arm" => in.list # <<>>
    <3>1. Len(in.list) # 0
      BY <1>8, <1>11
    <3> QED
      BY <1>8, <3>1, EmptySeq
  <2> QED
    BY <1>4, <1>13, <2>2, <2>3 DEF Asleep
<1>19. Owing'
  <2> SUFFICES ASSUME NEW j \in 1 .. Len(list) + 1
               PROVE  /\ stale'[in.list[j]] <= e
                      /\ owed'[in.list[j]] > 0 =>
                           owed'[in.list[j]] + e <= z[j] + stale'[in.list[j]]
    BY <1>4, <1>8, <1>9, <1>10 DEF Owing
  <2>1. \A k \in 1 .. Len(list) : list[k] # t
    BY <1>5 DEF Has
  <2>2. ASSUME NEW k \in 1 .. Len(list), in.list[j] = list[k], z[j] = s[k]
        PROVE  /\ stale'[in.list[j]] <= e
               /\ owed'[in.list[j]] > 0 =>
                    owed'[in.list[j]] + e <= z[j] + stale'[in.list[j]]
    <3>1. list[k] \in Timers /\ list[k] # t
      BY <1>11, <2>1
    <3>2. owed'[list[k]] = owed[list[k]] /\ stale'[list[k]] = stale[list[k]]
      BY <1>16, <3>1
    <3>3. /\ stale[list[k]] <= e
          /\ owed[list[k]] > 0 => owed[list[k]] + e <= s[k] + stale[list[k]]
      BY <1>11
    <3> QED
      BY <2>2, <3>2, <3>3
  <2>3. CASE j < n + 1
    <3>1. j \in 1 .. Len(list)
      BY <1>8, <1>11, <2>3
    <3>2. in.list[j] = list[j] /\ z[j] = s[j]
      BY <1>8, <2>3
    <3> QED
      BY <2>2, <3>1, <3>2
  <2>4. CASE j = n + 1
    <3>1. ~(j < n + 1)
      BY <1>8, <2>4
    <3>2. in.list[j] = t
      BY <1>8, <2>4, <3>1
    <3>3. z[j] = x
      BY <1>8, <2>4, <3>1
    <3> QED
      BY <1>6, <1>16, <3>2, <3>3
  <2>5. CASE j > n + 1
    <3>1. j - 1 \in 1 .. Len(list)
      BY <1>8, <1>11, <2>5
    <3>2. in.list[j] = list[j - 1] /\ z[j] = s[j - 1]
      BY <1>8, <1>11, <2>5
    <3> QED
      BY <2>2, <3>1, <3>2
  <2> QED
    BY <1>8, <1>11, <2>3, <2>4, <2>5
<1>20. NotEarly'
  <2> SUFFICES ASSUME NEW u \in Timers, owed'[u] > 0, interval'[u] = 0
               PROVE  mesg'[u] = 0
    BY DEF NotEarly, Clock!NotEarly
  <2>1. CASE u = t
    BY <1>15, <2>1
  <2>2. CASE u # t
    BY <1>1, <1>15, <1>16, <2>2 DEF NotEarly, Clock!NotEarly
  <2> QED
    BY <2>1, <2>2
<1> QED
  BY <1>17, <1>18, <1>19, <1>20 DEF TimersInv

LEMMA StepStep ==
    ASSUME TimersInv, NEW t \in Timers, Clock!Step(t)
    PROVE  TimersInv'
<1>1. Kinds /\ Asleep /\ Owing /\ NotEarly
  BY DEF TimersInv
<1>2. Clock!Rested /\ (Clock!CheckFirst(t) \/ Clock!ArmFirst(t) \/ Clock!Wake(t))
  BY DEF Clock!Step
<1>3. lag' \in 0 .. Latency
  BY <1>1, <1>2, RestedIs DEF Kinds
<1>4. \A u \in Timers : InList(u) /\ (place[u] = "idle" => interval[u] = 0)
  BY <1>1 DEF Asleep
<1>5. CASE Clock!CheckFirst(t)
  <2> DEFINE p == IF list # <<>> /\ Head(list) = t THEN "set" ELSE "wait"
  <2>1. /\ place[t] = "check" /\ place' = [place EXCEPT ![t] = p]
        /\ UNCHANGED <<newTime, counter, list, value, interval, mesg, tim, owed, stale>>
        /\ UNCHANGED <<count, compare, irq, events, mgr>>
    BY <1>5 DEF Clock!CheckFirst, Clock!Thread
  <2>2. p \in {"set", "wait"}
    OBVIOUS
  <2> HIDE DEF p
  <2>3. /\ place' \in [Timers -> {"idle", "check", "set", "wait"}]
        /\ \A u \in Timers : place'[u] = "idle" <=> place[u] = "idle"
    BY <1>1, <2>1, <2>2 DEF Kinds
  <2>4. Kinds'
    BY <1>1, <1>3, <2>1, <2>3 DEF Kinds
  <2>5. Asleep'
    <3>1. ASSUME NEW u \in Timers
          PROVE  InList(u)' /\ (place'[u] = "idle" => interval'[u] = 0)
      <4>1. InList(u)' <=> IF interval[u] = 0
                           THEN Has(list, u) <=> place'[u] # "idle" /\ mesg[u] = 0
                           ELSE Has(list, u)
        BY <2>1 DEF InList, Has
      <4> QED
        BY <1>4, <2>1, <2>3, <4>1 DEF InList
    <3> QED
      BY <1>1, <2>1, <3>1 DEF Asleep
  <2> QED
    BY <1>1, <2>1, <2>4, <2>5, KeepsOwing, KeepsEarly DEF TimersInv
<1>6. CASE Clock!ArmFirst(t)
  <2>1. /\ place[t] = "set" /\ place' = [place EXCEPT ![t] = "wait"]
        /\ counter' = count /\ newTime' = (count + tim[t]) % CounterWrap
        /\ UNCHANGED <<list, value, interval, mesg, tim, owed>> /\ Clock!Fresh
        /\ UNCHANGED <<count, compare, irq, events, mgr>>
    BY <1>6 DEF Clock!ArmFirst, Clock!Thread, Clock!SetTimerIntr
  <2>2. newTime' \in 0 .. CounterWrap - 1
    <3>1. count + tim[t] \in Nat
      BY <1>1 DEF Kinds
    <3>2. \A x \in Nat : x % CounterWrap \in 0 .. CounterWrap - 1
      BY Params
    <3> QED
      BY <2>1, <3>1, <3>2, Zenon
  <2>3. /\ place' \in [Timers -> {"idle", "check", "set", "wait"}]
        /\ \A u \in Timers : place'[u] = "idle" <=> place[u] = "idle"
    BY <1>1, <2>1 DEF Kinds
  <2>4. Kinds'
    BY <1>1, <1>3, <2>1, <2>2, <2>3, FreshIs DEF Kinds
  <2>5. Asleep'
    <3>1. ASSUME NEW u \in Timers
          PROVE  InList(u)' /\ (place'[u] = "idle" => interval'[u] = 0)
      <4>1. InList(u)' <=> IF interval[u] = 0
                           THEN Has(list, u) <=> place'[u] # "idle" /\ mesg[u] = 0
                           ELSE Has(list, u)
        BY <2>1 DEF InList, Has
      <4> QED
        BY <1>4, <2>1, <2>3, <4>1 DEF InList
    <3> QED
      BY <1>1, <2>1, <3>1 DEF Asleep
  <2> QED
    BY <1>1, <2>1, <2>4, <2>5, FreshOwing, KeepsEarly DEF TimersInv
<1>7. CASE Clock!Wake(t)
  <2> DEFINE p == IF interval[t] = 0 THEN "idle" ELSE "wait"
  <2>1. /\ place[t] = "wait" /\ mesg[t] > 0 /\ place' = [place EXCEPT ![t] = p]
        /\ mesg' = [mesg EXCEPT ![t] = 0]
        /\ UNCHANGED <<newTime, counter, list, value, interval, tim, owed, stale>>
        /\ UNCHANGED <<count, compare, irq, events, mgr>>
    BY <1>7 DEF Clock!Wake, Clock!Thread
  <2>2. p \in {"idle", "wait"} /\ (p = "idle" <=> interval[t] = 0)
    OBVIOUS
  <2> HIDE DEF p
  <2>3. /\ place' \in [Timers -> {"idle", "check", "set", "wait"}] /\ place'[t] = p
        /\ mesg' \in [Timers -> 0 .. 1] /\ mesg'[t] = 0 /\ mesg[t] # 0
        /\ \A u \in Timers : u # t => place'[u] = place[u] /\ mesg'[u] = mesg[u]
    BY <1>1, <2>1, <2>2 DEF Kinds
  <2>4. Kinds'
    BY <1>1, <1>3, <2>1, <2>3 DEF Kinds
  <2>5. Asleep'
    <3>1. ASSUME NEW u \in Timers
          PROVE  InList(u)' /\ (place'[u] = "idle" => interval'[u] = 0)
      <4>1. InList(u)' <=> IF interval[u] = 0
                           THEN Has(list, u) <=> place'[u] # "idle" /\ mesg'[u] = 0
                           ELSE Has(list, u)
        BY <2>1 DEF InList, Has
      <4>2. CASE u = t
        BY <1>4, <2>1, <2>2, <2>3, <4>1, <4>2 DEF InList
      <4>3. CASE u # t
        BY <1>4, <2>1, <2>3, <4>1, <4>3 DEF InList
      <4> QED
        BY <4>2, <4>3
    <3> QED
      BY <1>1, <2>1, <3>1 DEF Asleep
  <2>6. NotEarly'
    <3> SUFFICES ASSUME NEW u \in Timers, owed[u] > 0, interval[u] = 0
                 PROVE  mesg'[u] = 0
      BY <2>1 DEF NotEarly, Clock!NotEarly
    <3> QED
      BY <1>1, <2>3 DEF NotEarly, Clock!NotEarly
  <2> QED
    BY <1>1, <2>1, <2>4, <2>5, <2>6, KeepsOwing DEF TimersInv
<1> QED
  BY <1>2, <1>5, <1>6, <1>7

LEMMA TimersStep == TimersInv /\ [Clock!Next]_(Clock!vars) => TimersInv'
<1> SUFFICES ASSUME TimersInv, [Clock!Next]_(Clock!vars)
             PROVE  TimersInv'
  OBVIOUS
<1>1. CASE UNCHANGED Clock!vars
  <2>1. UNCHANGED <<count, compare, irq, newTime, events, counter, list, value, interval,
                    mesg, place, tim, mgr, lag, owed, stale>>
    BY <1>1 DEF Clock!vars, Clock!clock
  <2>2. Kinds /\ Asleep /\ Owing /\ NotEarly
    BY DEF TimersInv
  <2>3. Kinds'
    BY <2>1, <2>2 DEF Kinds
  <2>4. Asleep'
    BY <2>1, <2>2 DEF Asleep, InList, Has
  <2> QED
    BY <2>1, <2>2, <2>3, <2>4, KeepsOwing, KeepsEarly DEF TimersInv
<1>2. CASE \E t \in Timers : (Clock!SetTimer(t) /\ Clock!Rested) \/ Clock!Step(t)
  BY <1>2, SetTimerStep, StepStep
<1> QED
  BY <1>1, <1>2, TickStep, InterruptStep, WriteCompareStep, ManageStep DEF Clock!Next

LEMMA TimersInvHolds == Clock!Spec => []TimersInv
  BY TimersStart, TimersStep, PTL DEF Clock!Spec

(* sleep.c:4-11, timerintr.c:62-65: however many threads sleep, and whatever they ask
   for, a timer is in the list once while its thread sleeps and out of it before its
   message is there, and no sleeper is left with neither. *)
THEOREM TimersAreListed == Clock!Spec => []ListedWhileAsleep
  BY TimersInvHolds, InvShows, PTL

(* timerintr.c:52-65, :112, settimer.c:48-52: however many sleep, and for however long,
   a sleep is whole but for what had passed, when it was set, since __osTimerCounter was
   written, and that only if the VI manager counts it before a thread that sets the first
   timer writes it again, as one that sleeps alone does. *)
THEOREM SleepIsWhole == Clock!Spec => []NotEarly
  BY TimersInvHolds, InvShows, PTL

-----------------------------------------------------------------------------
(* Halves of registers: what they wrap at is never needed as a number, and what wraps
   is told by Wrapped and Carried.                                            *)
W == Editor!Width16
Wrapped(x) == x % W
Carried(x) == x \div W

LEMMA Modulo ==
    ASSUME NEW w \in Nat, w > 0
    PROVE  /\ \A x \in Int : x % w \in 0 .. w - 1
           /\ \A x \in 0 .. w - 1 : x % w = x /\ x \div w = 0
           /\ \A x \in w .. 2 * w - 1 : x % w = x - w /\ x \div w = 1
           /\ \A x \in -w .. -1 : x % w = x + w
<1>1. \A x \in Int : x % w \in 0 .. w - 1
  OBVIOUS
<1>2. \A x \in 0 .. w - 1 : x % w = x /\ x \div w = 0
  OBVIOUS
<1>3. \A x \in w .. 2 * w - 1 : x % w = x - w /\ x \div w = 1
  OBVIOUS
<1>4. \A x \in -w .. -1 : x % w = x + w
  OBVIOUS
<1> QED
  BY <1>1, <1>2, <1>3, <1>4

LEMMA Width ==
    /\ W \in Nat /\ W > 100 * 256
    /\ \A x \in Int : Wrapped(x) \in 0 .. W - 1
    /\ \A x \in 0 .. W - 1 : Wrapped(x) = x /\ Carried(x) = 0
    /\ \A x \in W .. 2 * W - 1 : Wrapped(x) = x - W /\ Carried(x) = 1
    /\ \A x \in -W .. -1 : Wrapped(x) = x + W
<1>1. W \in Nat /\ W > 100 * 256 /\ W > 0
  BY DEF W, Editor!Width16
<1> QED
  BY <1>1, Modulo DEF Wrapped, Carried

(* The registers that pack two numbers. *)
Word16 == [hi : 0 .. W - 1, lo : 0 .. W - 1]

LEMMA HalvesIn ==
    ASSUME NEW w \in Word16
    PROVE  w.hi \in 0 .. W - 1 /\ w.lo \in 0 .. W - 1
BY DEF Word16

LEMMA WordIs ==
    ASSUME NEW hi \in Int, NEW lo \in Int
    PROVE  /\ Editor!Word(hi, lo) \in Word16
           /\ Editor!Word(hi, lo).hi = Wrapped(hi)
           /\ Editor!Word(hi, lo).lo = Wrapped(lo)
<1>1. Editor!Word(hi, lo) = [hi |-> Wrapped(hi), lo |-> Wrapped(lo)]
  BY DEF Editor!Word, W, Wrapped
<1> QED
  BY <1>1, Width DEF Word16

LEMMA AddIs ==
    ASSUME NEW a \in Word16, NEW b \in Word16
    PROVE  /\ Editor!Add(a, b) \in Word16
           /\ Editor!Add(a, b).lo = Wrapped(a.lo + b.lo)
           /\ a.lo + b.lo < W => Editor!Add(a, b).hi = Wrapped(a.hi + b.hi)
           /\ a.lo + b.lo >= W => Editor!Add(a, b).hi = Wrapped(a.hi + b.hi + 1)
<1>1. a.hi \in 0 .. W - 1 /\ a.lo \in 0 .. W - 1 /\ b.hi \in 0 .. W - 1 /\ b.lo \in 0 .. W - 1
  BY HalvesIn
<1> DEFINE c == Carried(a.lo + b.lo)
<1>2. /\ c \in Int
      /\ a.lo + b.lo < W => c = 0
      /\ a.lo + b.lo >= W => c = 1
  BY <1>1, Width
<1>3. Editor!Add(a, b) = Editor!Word(a.hi + b.hi + c, a.lo + b.lo)
  BY DEF Editor!Add, W, Carried
<1> HIDE DEF c
<1>4. /\ Editor!Add(a, b) \in Word16
      /\ Editor!Add(a, b).hi = Wrapped(a.hi + b.hi + c)
      /\ Editor!Add(a, b).lo = Wrapped(a.lo + b.lo)
  <2>1. a.hi + b.hi + c \in Int /\ a.lo + b.lo \in Int
    BY <1>1, <1>2, Width
  <2> QED
    BY <1>3, <2>1, WordIs
<1>5. a.hi + b.hi + 0 = a.hi + b.hi
  BY <1>1, Width
<1> QED
  BY <1>2, <1>4, <1>5

(* (hi << 16) + (s16)lo displaces both halves as was meant. *)
Moves == -1000 .. 1000
Room(w, h, l) == w.hi + h \in 0 .. W - 1 /\ w.lo + l \in 0 .. W - 1
Displaced(e, w, h, l) == e \in Word16 /\ e.hi = w.hi + h /\ e.lo = w.lo + l

LEMMA AdjustmentMoves ==
    ASSUME NEW w \in Word16, NEW h \in Moves, NEW l \in Moves, Room(w, h, l)
    PROVE  Displaced(Editor!Add(w, Editor!Adjustment(h, l)), w, h, l)
<1> USE DEF Moves, Room, Displaced
<1> DEFINE high == Editor!Word(h, 0)
           s == IF l < 0 THEN -1 ELSE 0
           low == Editor!Word(s, l)
           d == Editor!Add(high, low)
<1>1. w.hi \in 0 .. W - 1 /\ w.lo \in 0 .. W - 1 /\ W \in Nat /\ W > 5000
  BY HalvesIn, Width
<1>2. high \in Word16 /\ high.hi = Wrapped(h) /\ high.lo = Wrapped(0)
  BY WordIs
<1>3. s \in Int /\ (l < 0 => s = -1) /\ (l >= 0 => s = 0)
  OBVIOUS
<1> HIDE DEF s
<1>4. low \in Word16 /\ low.hi = Wrapped(s) /\ low.lo = Wrapped(l)
  BY <1>3, WordIs
<1>5. d = Editor!Adjustment(h, l)
  BY DEF Editor!Adjustment, s
<1> HIDE DEF high, low
<1>6. /\ d \in Word16 /\ d.lo = Wrapped(high.lo + low.lo)
      /\ high.lo + low.lo < W => d.hi = Wrapped(high.hi + low.hi)
  BY <1>2, <1>4, AddIs
<1> HIDE DEF d
<1>7. /\ high.lo = 0
      /\ h >= 0 => high.hi = h
      /\ h < 0 => high.hi = h + W
  BY <1>1, <1>2, Width
<1>8. /\ l >= 0 => low.lo = l /\ low.hi = 0
      /\ l < 0 => low.lo = l + W /\ low.hi = W - 1
  BY <1>1, <1>3, <1>4, Width
<1>9. /\ l >= 0 => d.lo = l
      /\ l < 0 => d.lo = l + W
      /\ l >= 0 => d.hi = Wrapped(high.hi)
      /\ l < 0 => d.hi = Wrapped(high.hi + W - 1)
  BY <1>1, <1>6, <1>7, <1>8, Width
<1>10. /\ l >= 0 /\ h >= 0 => d.hi = h
       /\ l >= 0 /\ h < 0 => d.hi = h + W
       /\ l < 0 /\ h > 0 => d.hi = h - 1
       /\ l < 0 /\ h <= 0 => d.hi = h + W - 1
  BY <1>1, <1>7, <1>9, Width
<1> DEFINE e == Editor!Add(w, d)
<1>11. /\ e \in Word16 /\ e.lo = Wrapped(w.lo + d.lo)
       /\ w.lo + d.lo < W => e.hi = Wrapped(w.hi + d.hi)
       /\ w.lo + d.lo >= W => e.hi = Wrapped(w.hi + d.hi + 1)
  BY <1>6, AddIs
<1> HIDE DEF e
<1>12. CASE l >= 0
  <2>1. e.lo = w.lo + l /\ e.hi = Wrapped(w.hi + d.hi)
    BY <1>1, <1>9, <1>11, <1>12, Width
  <2>2. e.hi = w.hi + h
    BY <1>1, <1>10, <1>12, <2>1, Width
  <2> QED
    BY <1>5, <1>11, <2>1, <2>2 DEF e
<1>13. CASE l < 0
  <2>1. e.lo = w.lo + l /\ e.hi = Wrapped(w.hi + d.hi + 1)
    BY <1>1, <1>9, <1>11, <1>13, Width
  <2>2. e.hi = w.hi + h
    BY <1>1, <1>10, <1>13, <2>1, Width
  <2> QED
    BY <1>5, <1>11, <2>1, <2>2 DEF e
<1> QED
  BY <1>12, <1>13

(* Small numbers do not wrap, and a small negative one that is added is taken away,
   except that the carry of the lower half makes up for one in the upper half. *)
LEMMA SmallWord ==
    ASSUME NEW hi \in 0 .. W - 1, NEW lo \in 0 .. W - 1
    PROVE  /\ Editor!Word(hi, lo) \in Word16
           /\ Editor!Word(hi, lo).hi = hi
           /\ Editor!Word(hi, lo).lo = lo
<1>1. hi \in Int /\ lo \in Int
  BY Width
<1>2. Wrapped(hi) = hi /\ Wrapped(lo) = lo
  BY Width
<1> QED
  BY <1>1, <1>2, WordIs

LEMMA AddSmall ==
    ASSUME NEW w \in Word16, NEW hi \in 0 .. W - 1, NEW lo \in 0 .. W - 1,
           w.hi + hi \in 0 .. W - 1, w.lo + lo \in 0 .. W - 1
    PROVE  /\ Editor!Add(w, Editor!Word(hi, lo)) \in Word16
           /\ Editor!Add(w, Editor!Word(hi, lo)).hi = w.hi + hi
           /\ Editor!Add(w, Editor!Word(hi, lo)).lo = w.lo + lo
<1>1. w.hi \in 0 .. W - 1 /\ w.lo \in 0 .. W - 1 /\ W \in Nat
  BY HalvesIn, Width
<1> DEFINE b == Editor!Word(hi, lo)
<1>2. b \in Word16 /\ b.hi = hi /\ b.lo = lo
  BY SmallWord
<1> HIDE DEF b
<1> DEFINE e == Editor!Add(w, b)
<1>3. /\ e \in Word16 /\ e.lo = Wrapped(w.lo + b.lo)
      /\ w.lo + b.lo < W => e.hi = Wrapped(w.hi + b.hi)
  BY <1>2, AddIs
<1> HIDE DEF e
<1>4. w.lo + b.lo < W
  BY <1>1, <1>2
<1>5. e.hi = w.hi + hi /\ e.lo = w.lo + lo
  BY <1>2, <1>3, <1>4, Width
<1> QED
  BY <1>3, <1>5 DEF e, b

LEMMA AddNegative ==
    ASSUME NEW w \in Word16, NEW hi \in 1 .. 100, NEW lo \in 1 .. 100,
           w.hi + 1 >= hi, w.lo >= lo
    PROVE  /\ Editor!Add(w, Editor!Word(-hi, -lo)) \in Word16
           /\ Editor!Add(w, Editor!Word(-hi, -lo)).hi = w.hi + 1 - hi
           /\ Editor!Add(w, Editor!Word(-hi, -lo)).lo = w.lo - lo
<1>1. w.hi \in 0 .. W - 1 /\ w.lo \in 0 .. W - 1 /\ W \in Nat /\ W > 100
  BY HalvesIn, Width
<1> DEFINE b == Editor!Word(-hi, -lo)
<1>2. b \in Word16 /\ b.hi = W - hi /\ b.lo = W - lo
  <2>1. -hi \in -W .. -1 /\ -lo \in -W .. -1 /\ -hi \in Int /\ -lo \in Int
    BY <1>1
  <2>2. Wrapped(-hi) = -hi + W /\ Wrapped(-lo) = -lo + W
    BY <2>1, Width
  <2>3. -hi + W = W - hi /\ -lo + W = W - lo
    BY <1>1
  <2> QED
    BY <2>1, <2>2, <2>3, WordIs
<1> HIDE DEF b
<1> DEFINE e == Editor!Add(w, b)
<1>3. /\ e \in Word16 /\ e.lo = Wrapped(w.lo + b.lo)
      /\ w.lo + b.lo >= W => e.hi = Wrapped(w.hi + b.hi + 1)
  BY <1>2, AddIs
<1> HIDE DEF e
<1>4. /\ w.lo + b.lo >= W /\ w.lo + b.lo \in W .. 2 * W - 1
      /\ w.hi + b.hi + 1 \in W .. 2 * W - 1
      /\ (w.lo + b.lo) - W = w.lo - lo /\ (w.hi + b.hi + 1) - W = w.hi + 1 - hi
  BY <1>1, <1>2
<1>5. /\ Wrapped(w.lo + b.lo) = (w.lo + b.lo) - W
      /\ Wrapped(w.hi + b.hi + 1) = (w.hi + b.hi + 1) - W
  BY <1>4, Width
<1>6. e.lo = w.lo - lo /\ e.hi = w.hi + 1 - hi
  BY <1>3, <1>4, <1>5
<1> QED
  BY <1>3, <1>6 DEF e, b

-----------------------------------------------------------------------------
(* The four numbers of a burst, and what is taken from the burst of one field. *)
Small == 0 .. 3300

LEMMA SmallIn == \A x \in Small : x \in 0 .. W - 1 /\ x \in Int
<1>1. W \in Nat /\ W > 3300
  BY Width
<1> QED
  BY <1>1 DEF Small

LEMMA BurstIs ==
    ASSUME NEW a \in 0 .. 255, NEW b \in 0 .. 90, NEW c \in 0 .. 15, NEW d \in 0 .. 100
    PROVE  /\ Editor!Burst(a, b, c, d) \in Word16
           /\ Editor!Burst(a, b, c, d).hi = c + d * 16
           /\ Editor!Burst(a, b, c, d).lo = a + b * 256
           /\ Editor!BurstFields(Editor!Burst(a, b, c, d)) = <<a, b, c, d>>
<1>1. a % 256 = a /\ b % 256 = b /\ c % 16 = c
  OBVIOUS
<1>2. Editor!Burst(a, b, c, d) = Editor!Word(c + d * 16, a + b * 256)
  BY <1>1 DEF Editor!Burst
<1>3. c + d * 16 \in 0 .. W - 1 /\ a + b * 256 \in 0 .. W - 1
  <2>1. c + d * 16 \in Nat /\ a + b * 256 \in Nat /\ c + d * 16 < 100 * 256 /\ a + b * 256 < 100 * 256
    OBVIOUS
  <2> QED
    BY <2>1, Width
<1>4. /\ Editor!Burst(a, b, c, d) \in Word16
      /\ Editor!Burst(a, b, c, d).hi = c + d * 16
      /\ Editor!Burst(a, b, c, d).lo = a + b * 256
  BY <1>2, <1>3, SmallWord
<1>5. /\ (a + b * 256) % 256 = a /\ (a + b * 256) \div 256 = b
      /\ (c + d * 16) % 16 = c /\ (c + d * 16) \div 16 = d
  OBVIOUS
<1> QED
  BY <1>4, <1>5 DEF Editor!BurstFields

LEMMA BurstIn ==
    \A a \in 0 .. 255, b \in 0 .. 90, c \in 0 .. 15, d \in 0 .. 100 :
       Editor!Burst(a, b, c, d) \in Word16
BY BurstIs

LEMMA BurstTold ==
    \A a \in 0 .. 255, b \in 0 .. 90, c \in 0 .. 15, d \in 0 .. 100 :
       Editor!BurstFields(Editor!Burst(a, b, c, d)) = <<a, b, c, d>>
BY BurstIs

(* Where a burst is made of small negative numbers, the low half is what it is without
   them, and then is as if they were taken away.                              *)
LEMMA BurstTakes ==
    /\ Editor!Burst(-2, -1, 12, -1) = Editor!Word(-4, 254 + 255 * 256)
    /\ Editor!Burst(-2, -1, 2, 0) = Editor!Word(2, 254 + 255 * 256)
    /\ 254 + 255 * 256 = W - 2
<1>1. W = 256 * 256
  BY DEF W, Editor!Width16
<1>2. 256 \in Nat /\ 256 > 0 /\ 16 \in Nat /\ 16 > 0
  OBVIOUS
<1>3. (-2) % 256 = -2 + 256 /\ (-1) % 256 = -1 + 256
  <2>1. \A x \in -256 .. -1 : x % 256 = x + 256
    BY <1>2, Modulo
  <2>2. -2 \in -256 .. -1 /\ -1 \in -256 .. -1
    OBVIOUS
  <2> QED
    BY <2>1, <2>2
<1>4. 12 % 16 = 12 /\ 2 % 16 = 2
  <2>1. 12 \in 0 .. 16 - 1 /\ 2 \in 0 .. 16 - 1
    OBVIOUS
  <2> QED
    BY <1>2, <2>1, Modulo
<1>5. -2 + 256 = 254 /\ -1 + 256 = 255 /\ 12 + (-1) * 16 = -4 /\ 2 + 0 * 16 = 2
  OBVIOUS
<1>6. 254 + 255 * 256 = W - 2
  BY <1>1
<1>7. Editor!Burst(-2, -1, 12, -1) = Editor!Word(-4, 254 + 255 * 256)
  BY <1>3, <1>4, <1>5 DEF Editor!Burst
<1>8. Editor!Burst(-2, -1, 2, 0) = Editor!Word(2, 254 + 255 * 256)
  BY <1>3, <1>4, <1>5 DEF Editor!Burst
<1> QED
  BY <1>6, <1>7, <1>8

(* Of the first field in MPAL and of the second in PAL, if both are shown. *)
LEMMA BurstsOfFields ==
    /\ Editor!BurstFields(Editor!Add(Editor!Burst(4, 2, 14, 0), Editor!Burst(-2, -1, 12, -1)))
         = <<2, 2, 11, 0>>
    /\ Editor!BurstFields(Editor!Add(Editor!Burst(107, 2, 9, 0), Editor!Burst(-2, -1, 2, 0)))
         = <<105, 2, 12, 0>>
    /\ Editor!Add(Editor!Burst(4, 2, 14, 0), Editor!Burst(-2, -1, 12, -1)) \in Word16
    /\ Editor!Add(Editor!Burst(107, 2, 9, 0), Editor!Burst(-2, -1, 2, 0)) \in Word16
<1> DEFINE m == Editor!Burst(4, 2, 14, 0)
           p == Editor!Burst(107, 2, 9, 0)
           x == Editor!Word(-4, W - 2)
           y == Editor!Word(2, W - 2)
<1>1. m \in Word16 /\ m.hi = 14 /\ m.lo = 4 + 2 * 256
  <2>1. 4 % 256 = 4 /\ 2 % 256 = 2 /\ 14 % 16 = 14
    OBVIOUS
  <2> DEFINE hi == 14 + 0 * 16
             lo == 4 + 2 * 256
  <2>2. m = Editor!Word(hi, lo)
    BY <2>1 DEF Editor!Burst
  <2>3. hi \in 0 .. W - 1 /\ lo \in 0 .. W - 1 /\ hi = 14 /\ lo = 4 + 2 * 256
    BY Width
  <2> HIDE DEF m, hi, lo
  <2>4. m \in Word16 /\ m.hi = hi /\ m.lo = lo
    BY <2>2, <2>3, SmallWord
  <2> QED
    BY <2>3, <2>4
<1>2. p \in Word16 /\ p.hi = 9 /\ p.lo = 107 + 2 * 256
  <2>1. 107 % 256 = 107 /\ 2 % 256 = 2 /\ 9 % 16 = 9
    OBVIOUS
  <2> DEFINE hi == 9 + 0 * 16
             lo == 107 + 2 * 256
  <2>2. p = Editor!Word(hi, lo)
    BY <2>1 DEF Editor!Burst
  <2>3. hi \in 0 .. W - 1 /\ lo \in 0 .. W - 1 /\ hi = 9 /\ lo = 107 + 2 * 256
    BY Width
  <2> HIDE DEF p, hi, lo
  <2>4. p \in Word16 /\ p.hi = hi /\ p.lo = lo
    BY <2>2, <2>3, SmallWord
  <2> QED
    BY <2>3, <2>4
<1>3. /\ x \in Word16 /\ x.hi = W - 4 /\ x.lo = W - 2
      /\ y \in Word16 /\ y.hi = 2 /\ y.lo = W - 2
  <2>1. W \in Nat /\ W > 100 * 256
    BY Width
  <2>2. /\ -4 \in Int /\ W - 2 \in Int /\ 2 \in Int
        /\ -4 \in -W .. -1 /\ W - 2 \in 0 .. W - 1 /\ 2 \in 0 .. W - 1 /\ -4 + W = W - 4
    BY <2>1
  <2>3. Wrapped(-4) = W - 4 /\ Wrapped(W - 2) = W - 2 /\ Wrapped(2) = 2
    BY <2>2, Width
  <2> QED
    BY <2>2, <2>3, WordIs
<1>4. /\ Editor!Burst(-2, -1, 12, -1) = x
      /\ Editor!Burst(-2, -1, 2, 0) = y
  BY BurstTakes
<1> HIDE DEF m, p, x, y
<1> DEFINE e == Editor!Add(m, x)
           f == Editor!Add(p, y)
<1>5. /\ e \in Word16 /\ e.lo = Wrapped(m.lo + x.lo)
      /\ m.lo + x.lo >= W => e.hi = Wrapped(m.hi + x.hi + 1)
  BY <1>1, <1>3, AddIs
<1>6. /\ f \in Word16 /\ f.lo = Wrapped(p.lo + y.lo)
      /\ p.lo + y.lo >= W => f.hi = Wrapped(p.hi + y.hi + 1)
  BY <1>2, <1>3, AddIs
<1> HIDE DEF e, f
<1>7. W \in Nat /\ W > 100 * 256
  BY Width
<1>8. e.lo = 2 + 2 * 256 /\ e.hi = 11
  <2>1. /\ m.lo + x.lo >= W /\ m.lo + x.lo \in W .. 2 * W - 1
        /\ m.hi + x.hi + 1 \in W .. 2 * W - 1
        /\ (m.lo + x.lo) - W = 2 + 2 * 256 /\ (m.hi + x.hi + 1) - W = 11
    BY <1>1, <1>3, <1>7
  <2>2. /\ Wrapped(m.lo + x.lo) = (m.lo + x.lo) - W
        /\ Wrapped(m.hi + x.hi + 1) = (m.hi + x.hi + 1) - W
    BY <2>1, Width
  <2> QED
    BY <1>5, <2>1, <2>2
<1>9. f.lo = 105 + 2 * 256 /\ f.hi = 12
  <2>1. /\ p.lo + y.lo >= W /\ p.lo + y.lo \in W .. 2 * W - 1
        /\ p.hi + y.hi + 1 \in 0 .. W - 1
        /\ (p.lo + y.lo) - W = 105 + 2 * 256 /\ p.hi + y.hi + 1 = 12
    BY <1>2, <1>3, <1>7
  <2>2. /\ Wrapped(p.lo + y.lo) = (p.lo + y.lo) - W
        /\ Wrapped(p.hi + y.hi + 1) = p.hi + y.hi + 1
    BY <2>1, Width
  <2> QED
    BY <1>6, <2>1, <2>2
<1>10. /\ Editor!BurstFields(e) = <<2, 2, 11, 0>>
       /\ Editor!BurstFields(f) = <<105, 2, 12, 0>>
  <2>1. /\ (2 + 2 * 256) % 256 = 2 /\ (2 + 2 * 256) \div 256 = 2 /\ 11 % 16 = 11 /\ 11 \div 16 = 0
        /\ (105 + 2 * 256) % 256 = 105 /\ (105 + 2 * 256) \div 256 = 2 /\ 12 % 16 = 12
        /\ 12 \div 16 = 0
    OBVIOUS
  <2> QED
    BY <1>8, <1>9, <2>1 DEF Editor!BurstFields
<1> QED
  BY <1>4, <1>5, <1>6, <1>10 DEF e, f, m, p

-----------------------------------------------------------------------------
(* What a mode is made from, and the registers it is made of. *)
Uppers == 0 .. 480
Lowers == -480 .. 0

Modes ==
    [viWidth : {0, Editor!ScreenWidth}, viHeight : 0 .. 240,
     leftAdjust : Editor!LeftAdjusts, rightAdjust : Editor!RightAdjusts,
     upperAdjust : Uppers, lowerAdjust : Lowers,
     viFeatures : SUBSET Editor!FeatureNames,
     fb16Bit : BOOLEAN, modeN : BOOLEAN, antialiasOff : BOOLEAN, loRes : BOOLEAN]

Bits ==
    {"PIXEL_ADV_3", "GAMMA_ON", "GAMMA_DITHER_ON", "SERRATE_ON", "DIVOT_ON", "TYPE_16", "TYPE_32",
     "ANTIALIAS_MODE_1", "ANTIALIAS_MODE_2", "ANTIALIAS_MODE_3", "DITHER_FILTER_ON"}

Regs ==
    [ctrl : SUBSET Bits, width : Int, burst : Word16, vSync : Int, hSync : Word16,
     leap : Word16, hStart : Word16, xScale : Int, origin : [0 .. 1 -> Int],
     yScale : [0 .. 1 -> Word16], vStart : [0 .. 1 -> Word16], vBurst : [0 .. 1 -> Word16]]

LEMMA SetControlIs ==
    ASSUME NEW m \in Modes, NEW r \in Regs
    PROVE  /\ Editor!SetControl(m, r) \in Regs
           /\ Editor!SetControl(m, r).ctrl = Editor!Control(m)
           /\ Editor!SetControl(m, r).width
                = m.viWidth * (IF ~m.loRes /\ m.modeN THEN 2 ELSE 1)
<1>1. Editor!Control(m) \in SUBSET Bits
  BY DEF Editor!Control, Editor!When, Bits
<1>2. m.viWidth * (IF ~m.loRes /\ m.modeN THEN 2 ELSE 1) \in Int
  BY DEF Modes, Editor!ScreenWidth
<1> QED
  BY <1>1, <1>2 DEF Editor!SetControl, Regs

(* The bursts of the TV types. *)
LEMMA BurstsIn ==
    /\ Editor!Burst(57, 34, 5, 62) \in Word16 /\ Editor!Burst(4, 2, 14, 0) \in Word16
    /\ Editor!Burst(58, 35, 4, 64) \in Word16 /\ Editor!Burst(107, 2, 9, 0) \in Word16
    /\ Editor!Burst(57, 30, 5, 70) \in Word16
<1>1. /\ 57 \in 0 .. 255 /\ 34 \in 0 .. 90 /\ 5 \in 0 .. 15 /\ 62 \in 0 .. 100
      /\ 4 \in 0 .. 255 /\ 2 \in 0 .. 90 /\ 14 \in 0 .. 15 /\ 0 \in 0 .. 100
      /\ 58 \in 0 .. 255 /\ 35 \in 0 .. 90 /\ 4 \in 0 .. 15 /\ 64 \in 0 .. 100
      /\ 107 \in 0 .. 255 /\ 9 \in 0 .. 15 /\ 30 \in 0 .. 90 /\ 70 \in 0 .. 100
  OBVIOUS
<1> QED
  BY <1>1, BurstIn

LEMMA BurstsTold ==
    /\ Editor!BurstFields(Editor!Burst(57, 34, 5, 62)) = <<57, 34, 5, 62>>
    /\ Editor!BurstFields(Editor!Burst(4, 2, 14, 0)) = <<4, 2, 14, 0>>
    /\ Editor!BurstFields(Editor!Burst(58, 35, 4, 64)) = <<58, 35, 4, 64>>
    /\ Editor!BurstFields(Editor!Burst(107, 2, 9, 0)) = <<107, 2, 9, 0>>
    /\ Editor!BurstFields(Editor!Burst(57, 30, 5, 70)) = <<57, 30, 5, 70>>
<1>1. Editor!BurstFields(Editor!Burst(57, 34, 5, 62)) = <<57, 34, 5, 62>>
  <2>1. 57 \in 0 .. 255 /\ 34 \in 0 .. 90 /\ 5 \in 0 .. 15 /\ 62 \in 0 .. 100
    OBVIOUS
  <2> QED
    BY <2>1, BurstTold
<1>2. Editor!BurstFields(Editor!Burst(4, 2, 14, 0)) = <<4, 2, 14, 0>>
  <2>1. 4 \in 0 .. 255 /\ 2 \in 0 .. 90 /\ 14 \in 0 .. 15 /\ 0 \in 0 .. 100
    OBVIOUS
  <2> QED
    BY <2>1, BurstTold
<1>3. Editor!BurstFields(Editor!Burst(58, 35, 4, 64)) = <<58, 35, 4, 64>>
  <2>1. 58 \in 0 .. 255 /\ 35 \in 0 .. 90 /\ 4 \in 0 .. 15 /\ 64 \in 0 .. 100
    OBVIOUS
  <2> QED
    BY <2>1, BurstTold
<1>4. Editor!BurstFields(Editor!Burst(107, 2, 9, 0)) = <<107, 2, 9, 0>>
  <2>1. 107 \in 0 .. 255 /\ 2 \in 0 .. 90 /\ 9 \in 0 .. 15 /\ 0 \in 0 .. 100
    OBVIOUS
  <2> QED
    BY <2>1, BurstTold
<1>5. Editor!BurstFields(Editor!Burst(57, 30, 5, 70)) = <<57, 30, 5, 70>>
  <2>1. 57 \in 0 .. 255 /\ 30 \in 0 .. 90 /\ 5 \in 0 .. 15 /\ 70 \in 0 .. 100
    OBVIOUS
  <2> QED
    BY <2>1, BurstTold
<1> QED
  BY <1>1, <1>2, <1>3, <1>4, <1>5

(* The other registers of the timing. *)
LEMMA HalvesOf ==
    ASSUME NEW hi \in Small, NEW lo \in Small
    PROVE  /\ Editor!Word(hi, lo) \in Word16
           /\ Editor!Word(hi, lo).hi = hi
           /\ Editor!Word(hi, lo).lo = lo
<1>1. hi \in 0 .. W - 1 /\ lo \in 0 .. W - 1
  BY SmallIn
<1> QED
  BY <1>1, SmallWord

(* The numbers of a TV type: vSync, hSync, leap, hStart, then the edges of a field. *)
TimingNumbers(tv) ==
    CASE tv = "NTSC" -> [vSync |-> 524, duration |-> 3093, leap |-> 0, upper |-> 3093, lower |-> 3093,
                         left |-> 108, right |-> 748, first |-> 37, last |-> 511]
      [] tv = "PAL" -> [vSync |-> 624, duration |-> 3177, leap |-> 21, upper |-> 3183, lower |-> 3182,
                        left |-> 128, right |-> 768, first |-> 95, last |-> 569]
      [] tv = "MPAL" -> [vSync |-> 524, duration |-> 3088, leap |-> 0, upper |-> 3100, lower |-> 3100,
                         left |-> 108, right |-> 748, first |-> 37, last |-> 511]

TVs == {"NTSC", "PAL", "MPAL"}

NumberType ==
    [vSync : Small, duration : Small, leap : Small, upper : Small, lower : Small,
     left : Small, right : Small, first : Small, last : Small]

LEMMA NumbersIn ==
    ASSUME NEW tv \in TVs
    PROVE  TimingNumbers(tv) \in NumberType
<1>1. CASE tv = "NTSC"
  BY <1>1 DEF TimingNumbers, NumberType, Small
<1>2. CASE tv = "PAL"
  BY <1>2 DEF TimingNumbers, NumberType, Small
<1>3. CASE tv = "MPAL"
  BY <1>3 DEF TimingNumbers, NumberType, Small
<1> QED
  BY <1>1, <1>2, <1>3 DEF TVs

LEMMA TimingIs ==
    ASSUME NEW tv \in TVs
    PROVE  LET n == TimingNumbers(tv)
               t == Editor!Timing(tv)
           IN  /\ t.vSync = n.vSync
               /\ t.hSync = Editor!Word(n.leap, n.duration)
               /\ t.leap = Editor!Word(n.upper, n.lower)
               /\ t.hStart = Editor!Word(n.left, n.right)
               /\ t.vStart = Editor!Both(Editor!Word(n.first, n.last))
<1>1. CASE tv = "NTSC"
  BY <1>1 DEF TimingNumbers, Editor!Timing, Editor!HSync, Editor!Leap, Editor!Start
<1>2. CASE tv = "PAL"
  BY <1>2 DEF TimingNumbers, Editor!Timing, Editor!HSync, Editor!Leap, Editor!Start
<1>3. CASE tv = "MPAL"
  BY <1>3 DEF TimingNumbers, Editor!Timing, Editor!HSync, Editor!Leap, Editor!Start
<1> QED
  BY <1>1, <1>2, <1>3 DEF TVs

LEMMA TimingBursts ==
    ASSUME NEW tv \in TVs
    PROVE  LET t == Editor!Timing(tv)
           IN  /\ t.burst \in Word16
               /\ tv = "NTSC" => t.burst = Editor!Burst(57, 34, 5, 62)
               /\ tv = "PAL" => t.burst = Editor!Burst(58, 35, 4, 64)
               /\ tv = "MPAL" => t.burst = Editor!Burst(57, 30, 5, 70)
               /\ tv \in {"NTSC", "MPAL"} => t.vBurst = Editor!Both(Editor!Burst(4, 2, 14, 0))
               /\ tv = "PAL" => t.vBurst = Editor!Both(Editor!Burst(107, 2, 9, 0))
<1>1. CASE tv = "NTSC"
  BY <1>1, BurstsIn DEF Editor!Timing
<1>2. CASE tv = "PAL"
  BY <1>2, BurstsIn DEF Editor!Timing
<1>3. CASE tv = "MPAL"
  BY <1>3, BurstsIn DEF Editor!Timing
<1> QED
  BY <1>1, <1>2, <1>3 DEF TVs

-----------------------------------------------------------------------------
(* What each piece of ViMode_Configure leaves in the registers. *)
LEMMA WordsOf ==
    ASSUME NEW tv \in TVs
    PROVE  LET t == Editor!Timing(tv)
           IN  /\ t.vSync \in Int /\ t.hSync \in Word16 /\ t.leap \in Word16
               /\ t.hStart \in Word16 /\ t.vStart \in [0 .. 1 -> Word16]
               /\ t.burst \in Word16 /\ t.vBurst \in [0 .. 1 -> Word16]
<1> DEFINE n == TimingNumbers(tv)
           t == Editor!Timing(tv)
<1>1. /\ n.vSync \in Small /\ n.duration \in Small /\ n.leap \in Small /\ n.upper \in Small
      /\ n.lower \in Small /\ n.left \in Small /\ n.right \in Small /\ n.first \in Small
      /\ n.last \in Small
  <2>1. n \in NumberType
    BY NumbersIn
  <2> HIDE DEF n
  <2> QED
    BY <2>1 DEF NumberType
<1>2. /\ t.vSync = n.vSync
      /\ t.hSync = Editor!Word(n.leap, n.duration)
      /\ t.leap = Editor!Word(n.upper, n.lower)
      /\ t.hStart = Editor!Word(n.left, n.right)
      /\ t.vStart = Editor!Both(Editor!Word(n.first, n.last))
  BY TimingIs
<1>3. t.burst \in Word16
  BY TimingBursts
<1>4. \E b \in Word16 : t.vBurst = Editor!Both(b)
  BY TimingBursts, BurstsIn DEF TVs
<1> HIDE DEF n, t
<1>5. t.vSync \in Int
  BY <1>1, <1>2, SmallIn
<1>6. \A x, y \in Small : Editor!Word(x, y) \in Word16
  BY HalvesOf
<1>7. t.hSync \in Word16 /\ t.leap \in Word16 /\ t.hStart \in Word16
  BY <1>1, <1>2, <1>6
<1>8. t.vStart \in [0 .. 1 -> Word16] /\ t.vBurst \in [0 .. 1 -> Word16]
  BY <1>1, <1>2, <1>4, <1>6 DEF Editor!Both
<1> QED
  BY <1>3, <1>5, <1>7, <1>8 DEF t

LEMMA SetTimingIs ==
    ASSUME NEW tv \in TVs, NEW r \in Regs
    PROVE  LET t == Editor!Timing(tv)
               e == Editor!SetTiming(tv, r)
           IN  /\ e \in Regs
               /\ e.ctrl = r.ctrl /\ e.width = r.width
               /\ e.burst = t.burst /\ e.vSync = t.vSync /\ e.hSync = t.hSync /\ e.leap = t.leap
               /\ e.hStart = t.hStart /\ e.vStart = t.vStart /\ e.vBurst = t.vBurst
<1> DEFINE t == Editor!Timing(tv)
           e == Editor!SetTiming(tv, r)
<1>1. /\ t.vSync \in Int /\ t.hSync \in Word16 /\ t.leap \in Word16
      /\ t.hStart \in Word16 /\ t.vStart \in [0 .. 1 -> Word16]
      /\ t.burst \in Word16 /\ t.vBurst \in [0 .. 1 -> Word16]
  BY WordsOf
<1>2. e = [r EXCEPT !.burst = t.burst, !.vSync = t.vSync, !.hSync = t.hSync,
                    !.leap = t.leap, !.hStart = t.hStart, !.vStart = t.vStart,
                    !.vBurst = t.vBurst]
  BY DEF Editor!SetTiming
<1> HIDE DEF t, e
<1>3. e \in Regs
  BY <1>1, <1>2 DEF Regs
<1>4. /\ e.ctrl = r.ctrl /\ e.width = r.width
      /\ e.burst = t.burst /\ e.vSync = t.vSync /\ e.hSync = t.hSync /\ e.leap = t.leap
      /\ e.hStart = t.hStart /\ e.vStart = t.vStart /\ e.vBurst = t.vBurst
  BY <1>2 DEF Regs
<1> QED
  BY <1>3, <1>4 DEF t, e

(* The edges of a mode are even in the vertical, and stay in their registers. *)
Fits(m, r) ==
    /\ Editor!Even(m.upperAdjust) = m.upperAdjust /\ Editor!Even(m.lowerAdjust) = m.lowerAdjust
    /\ Room(r.hStart, m.leftAdjust, m.rightAdjust)
    /\ \A f \in 0 .. 1 : Room(r.vStart[f], m.upperAdjust, m.lowerAdjust)

LEMMA AdjustIs ==
    ASSUME NEW m \in Modes, NEW r \in Regs, Fits(m, r)
    PROVE  LET e == Editor!Adjust(m, r)
           IN  /\ e \in Regs
               /\ Displaced(e.hStart, r.hStart, m.leftAdjust, m.rightAdjust)
               /\ \A f \in 0 .. 1 :
                     Displaced(e.vStart[f], r.vStart[f], m.upperAdjust, m.lowerAdjust)
               /\ e.ctrl = r.ctrl /\ e.width = r.width /\ e.burst = r.burst
               /\ e.vSync = r.vSync /\ e.hSync = r.hSync /\ e.leap = r.leap
               /\ e.vBurst = r.vBurst
<1> DEFINE e == Editor!Adjust(m, r)
           h == Editor!Add(r.hStart, Editor!Adjustment(m.leftAdjust, m.rightAdjust))
           v(f) == Editor!Add(r.vStart[f], Editor!Adjustment(m.upperAdjust, m.lowerAdjust))
<1>1. /\ m.leftAdjust \in Moves /\ m.rightAdjust \in Moves
      /\ m.upperAdjust \in Moves /\ m.lowerAdjust \in Moves
  BY DEF Modes, Editor!LeftAdjusts, Editor!RightAdjusts, Moves, Uppers, Lowers
<1>2. r.hStart \in Word16 /\ \A f \in 0 .. 1 : r.vStart[f] \in Word16
  BY DEF Regs
<1>3. Displaced(h, r.hStart, m.leftAdjust, m.rightAdjust)
  BY <1>1, <1>2, AdjustmentMoves DEF Fits
<1>4. \A f \in 0 .. 1 : Displaced(v(f), r.vStart[f], m.upperAdjust, m.lowerAdjust)
  BY <1>1, <1>2, AdjustmentMoves DEF Fits
<1>5. e = [r EXCEPT !.hStart = h, !.vStart = [f \in 0 .. 1 |-> v(f)]]
  BY DEF Editor!Adjust, Fits, Regs
<1> HIDE DEF e, h, v
<1>6. h \in Word16 /\ \A f \in 0 .. 1 : v(f) \in Word16
  BY <1>3, <1>4 DEF Displaced
<1>7. e \in Regs /\ e.hStart = h /\ \A f \in 0 .. 1 : e.vStart[f] = v(f)
  BY <1>5, <1>6 DEF Regs
<1>8. /\ e.ctrl = r.ctrl /\ e.width = r.width /\ e.burst = r.burst
      /\ e.vSync = r.vSync /\ e.hSync = r.hSync /\ e.leap = r.leap
      /\ e.vBurst = r.vBurst
  BY <1>5 DEF Regs
<1> QED
  BY <1>3, <1>4, <1>7, <1>8 DEF e

MpalTiming(r) == r.hSync = Editor!Word(0, 3088) /\ r.leap = Editor!Word(3100, 3100)

(* One field: the timing is that of a field that comes again and again. *)
LEMMA OneFieldIs ==
    ASSUME NEW tv \in TVs, NEW m \in Modes, NEW r \in Regs, Editor!Deinterlaced(m),
           tv = "MPAL" => MpalTiming(r)
    PROVE  LET e == Editor!Interlace(tv, m, r)
           IN  /\ e \in Regs
               /\ e.vSync = r.vSync + 1
               /\ tv # "MPAL" => e.hSync = r.hSync /\ e.leap = r.leap
               /\ tv = "MPAL" => /\ e.hSync.hi = 4 /\ e.hSync.lo = 3089
                                 /\ e.leap.hi = 3097 /\ e.leap.lo = 3098
               /\ e.ctrl = r.ctrl /\ e.width = r.width /\ e.burst = r.burst
               /\ e.hStart = r.hStart /\ e.vStart = r.vStart /\ e.vBurst = r.vBurst
<1> DEFINE e == Editor!Interlace(tv, m, r)
           h == IF tv = "MPAL" THEN Editor!Add(r.hSync, Editor!HSync(1, 4)) ELSE r.hSync
           l == IF tv = "MPAL" THEN Editor!Add(r.leap, Editor!Leap(-4, -2)) ELSE r.leap
<1>1. e = [r EXCEPT !.vSync = r.vSync + 1, !.hSync = h, !.leap = l]
  BY DEF Editor!Interlace, Regs
<1>2. tv = "MPAL" => h \in Word16 /\ h.hi = 4 /\ h.lo = 3089
  <2> DEFINE a == Editor!Word(0, 3088)
  <2>1. 0 \in Small /\ 3088 \in Small
    BY DEF Small
  <2>2. a \in Word16 /\ a.hi = 0 /\ a.lo = 3088
    BY <2>1, HalvesOf
  <2> HIDE DEF a
  <2>3. 4 \in 0 .. W - 1 /\ 1 \in 0 .. W - 1 /\ a.hi + 4 \in 0 .. W - 1 /\ a.lo + 1 \in 0 .. W - 1
    BY <2>2, Width
  <2> DEFINE b == Editor!Add(a, Editor!Word(4, 1))
  <2>4. b \in Word16 /\ b.hi = a.hi + 4 /\ b.lo = a.lo + 1
    BY <2>2, <2>3, AddSmall
  <2> HIDE DEF b
  <2>5. b \in Word16 /\ b.hi = 4 /\ b.lo = 3089
    BY <2>2, <2>4
  <2>6. tv = "MPAL" => h = b
    BY DEF b, a, MpalTiming, Editor!HSync
  <2> HIDE DEF h
  <2> QED
    BY <2>5, <2>6
<1>3. tv = "MPAL" => l \in Word16 /\ l.hi = 3097 /\ l.lo = 3098
  <2> DEFINE a == Editor!Word(3100, 3100)
  <2>1. 3100 \in Small
    BY DEF Small
  <2>2. a \in Word16 /\ a.hi = 3100 /\ a.lo = 3100
    BY <2>1, HalvesOf
  <2> HIDE DEF a
  <2>3. 4 \in 1 .. 100 /\ 2 \in 1 .. 100 /\ a.hi + 1 >= 4 /\ a.lo >= 2
    BY <2>2
  <2> DEFINE b == Editor!Add(a, Editor!Word(-4, -2))
  <2>7. a \in Word16
    BY <2>2
  <2>4. b \in Word16 /\ b.hi = a.hi + 1 - 4 /\ b.lo = a.lo - 2
    BY <2>3, <2>7, AddNegative
  <2> HIDE DEF b
  <2>5. b \in Word16 /\ b.hi = 3097 /\ b.lo = 3098
    BY <2>2, <2>4
  <2>6. tv = "MPAL" => l = b
    BY DEF b, a, MpalTiming, Editor!Leap
  <2> HIDE DEF l
  <2> QED
    BY <2>5, <2>6
<1>4. h \in Word16 /\ l \in Word16
  BY <1>2, <1>3 DEF Regs
<1>5. tv # "MPAL" => h = r.hSync /\ l = r.leap
  OBVIOUS
<1> HIDE DEF e, h, l
<1>6. e \in Regs /\ e.hSync = h /\ e.leap = l
  <2>1. r.vSync + 1 \in Int
    BY DEF Regs
  <2> DEFINE s == r.vSync + 1
  <2>2. e = [r EXCEPT !.vSync = s, !.hSync = h, !.leap = l]
    BY <1>1
  <2> HIDE DEF s
  <2>3. s \in Int
    BY <2>1 DEF s
  <2> QED
    BY <1>4, <2>2, <2>3 DEF Regs
<1>7. /\ e.vSync = r.vSync + 1
      /\ e.ctrl = r.ctrl /\ e.width = r.width /\ e.burst = r.burst
      /\ e.hStart = r.hStart /\ e.vStart = r.vStart /\ e.vBurst = r.vBurst
  BY <1>1 DEF Regs
<1> QED
  BY <1>2, <1>3, <1>5, <1>6, <1>7 DEF e

(* Two fields: the first begins two lines earlier, and the burst of one differs. *)
LEMMA TwoFieldsAre ==
    ASSUME NEW tv \in TVs, NEW m \in Modes, NEW r \in Regs, ~Editor!Deinterlaced(m),
           r.vStart[0].hi >= 2, r.vStart[0].lo >= 2,
           tv = "MPAL" => r.vBurst = Editor!Both(Editor!Burst(4, 2, 14, 0)),
           tv = "PAL" => r.vBurst = Editor!Both(Editor!Burst(107, 2, 9, 0))
    PROVE  LET e == Editor!Interlace(tv, m, r)
           IN  /\ e \in Regs
               /\ Displaced(e.vStart[0], r.vStart[0], -2, -2)
               /\ e.vStart[1] = r.vStart[1]
               /\ tv # "MPAL" => e.vBurst[0] = r.vBurst[0]
               /\ tv = "MPAL" => Editor!BurstFields(e.vBurst[0]) = <<2, 2, 11, 0>>
               /\ tv # "PAL" => e.vBurst[1] = r.vBurst[1]
               /\ tv = "PAL" => Editor!BurstFields(e.vBurst[1]) = <<105, 2, 12, 0>>
               /\ e.ctrl = r.ctrl /\ e.width = r.width /\ e.burst = r.burst
               /\ e.hStart = r.hStart /\ e.vSync = r.vSync /\ e.hSync = r.hSync /\ e.leap = r.leap
<1> DEFINE e == Editor!Interlace(tv, m, r)
           v == Editor!Add(r.vStart[0], Editor!Start(-3, -2))
           b == IF tv = "MPAL" THEN Editor!Add(r.vBurst[0], Editor!Burst(-2, -1, 12, -1))
                ELSE r.vBurst[0]
           c == IF tv = "PAL" THEN Editor!Add(r.vBurst[1], Editor!Burst(-2, -1, 2, 0))
                ELSE r.vBurst[1]
<1>1. e = [r EXCEPT !.vStart = [r.vStart EXCEPT ![0] = v],
                    !.vBurst = [r.vBurst EXCEPT ![0] = b, ![1] = c]]
  BY DEF Editor!Interlace, Regs
<1>2. Displaced(v, r.vStart[0], -2, -2)
  <2> DEFINE a == r.vStart[0]
  <2>1. a \in Word16 /\ a.hi + 1 >= 3 /\ a.lo >= 2 /\ 3 \in 1 .. 100 /\ 2 \in 1 .. 100
        /\ a.hi \in Int /\ a.lo \in Int
    <3>1. a \in Word16 /\ a.hi >= 2 /\ a.lo >= 2
      BY DEF Regs
    <3>2. a.hi \in 0 .. W - 1 /\ a.lo \in 0 .. W - 1
      BY <3>1, HalvesIn
    <3> HIDE DEF a
    <3> QED
      BY <3>1, <3>2, Width
  <2> HIDE DEF a
  <2> DEFINE d == Editor!Add(a, Editor!Word(-3, -2))
  <2>2. d \in Word16 /\ d.hi = a.hi + 1 - 3 /\ d.lo = a.lo - 2
    BY <2>1, AddNegative
  <2>3. v = d
    BY DEF Editor!Start, a
  <2> HIDE DEF d, v
  <2>4. d.hi = a.hi + (-2) /\ d.lo = a.lo + (-2)
    BY <2>1, <2>2
  <2> QED
    BY <2>2, <2>3, <2>4 DEF Displaced, a
<1>3. tv = "MPAL" => b \in Word16 /\ Editor!BurstFields(b) = <<2, 2, 11, 0>>
  <2>1. tv = "MPAL" => b = Editor!Add(Editor!Burst(4, 2, 14, 0), Editor!Burst(-2, -1, 12, -1))
    BY DEF Editor!Both
  <2> HIDE DEF b
  <2> QED
    BY <2>1, BurstsOfFields
<1>4. tv = "PAL" => c \in Word16 /\ Editor!BurstFields(c) = <<105, 2, 12, 0>>
  <2>1. tv = "PAL" => c = Editor!Add(Editor!Burst(107, 2, 9, 0), Editor!Burst(-2, -1, 2, 0))
    BY DEF Editor!Both
  <2> HIDE DEF c
  <2> QED
    BY <2>1, BurstsOfFields
<1>5. /\ tv # "MPAL" => b \in Word16 /\ b = r.vBurst[0]
      /\ tv # "PAL" => c \in Word16 /\ c = r.vBurst[1]
  BY DEF Regs
<1> HIDE DEF e, v, b, c
<1>6. b \in Word16 /\ c \in Word16 /\ v \in Word16
  BY <1>2, <1>3, <1>4, <1>5 DEF Displaced
<1>7. e \in Regs
  BY <1>1, <1>6 DEF Regs
<1>8. e.vStart[0] = v /\ e.vStart[1] = r.vStart[1] /\ e.vBurst[0] = b /\ e.vBurst[1] = c
  BY <1>1 DEF Regs
<1>9. /\ e.ctrl = r.ctrl /\ e.width = r.width /\ e.burst = r.burst
      /\ e.hStart = r.hStart /\ e.vSync = r.vSync /\ e.hSync = r.hSync /\ e.leap = r.leap
  BY <1>1 DEF Regs
<1> QED
  BY <1>2, <1>3, <1>4, <1>5, <1>7, <1>8, <1>9 DEF e

LEMMA Quotient == \A a \in Nat, b \in Nat : b > 0 => (a * b) \div b = a
OBVIOUS

(* The edges of a window leave it its lines. *)
Framed(m) ==
    /\ m.viHeight > 0
    /\ 2 * Editor!ScreenHeight + Editor!Even(m.lowerAdjust) - Editor!Even(m.upperAdjust)
         = 2 * m.viHeight
    /\ m.leftAdjust < 2 * Editor!ScreenWidth + m.rightAdjust

LineStep(m) == IF m.loRes \/ Editor!ModeF(m) THEN 1024 ELSE 512

LEMMA ScaleIs ==
    ASSUME NEW m \in Modes, NEW r \in Regs, Framed(m)
    PROVE  LET e == Editor!Scale(m, r)
           IN  /\ e \in Regs
               /\ \A f \in 0 .. 1 : e.yScale[f].lo = LineStep(m)
               /\ e.ctrl = r.ctrl /\ e.width = r.width /\ e.burst = r.burst
               /\ e.hStart = r.hStart /\ e.vSync = r.vSync /\ e.hSync = r.hSync
               /\ e.leap = r.leap /\ e.vStart = r.vStart /\ e.vBurst = r.vBurst
<1> DEFINE e == Editor!Scale(m, r)
           h == m.viHeight
           lines == 2 * Editor!ScreenHeight + Editor!Even(m.lowerAdjust)
                      - Editor!Even(m.upperAdjust)
           y == (IF ~m.loRes /\ Editor!ModeF(m) THEN 2 ELSE 1)
                  * (((m.viHeight * 2048) \div lines) \div (IF m.loRes THEN 1 ELSE 2))
           bytes == m.viWidth * 2 * (IF m.fb16Bit THEN 1 ELSE 2)
           x == (m.viWidth * 1024)
                  \div (2 * Editor!ScreenWidth + m.rightAdjust - m.leftAdjust)
           origin == [f \in 0 .. 1 |-> IF f = 1 /\ ~m.loRes THEN 2 * bytes ELSE bytes]
           scale == [f \in 0 .. 1 |-> Editor!Word(Editor!FieldShift(m, f), y)]
<1>1. e = [r EXCEPT !.xScale = x, !.origin = origin, !.yScale = scale]
  BY DEF Editor!Scale
<1>2. x \in Int
  <2>1. m.viWidth \in Nat
    BY DEF Modes, Editor!ScreenWidth
  <2> DEFINE d == 2 * Editor!ScreenWidth + m.rightAdjust - m.leftAdjust
  <2>2. d \in Int /\ d > 0
    <3>1. m.leftAdjust \in Int /\ m.rightAdjust \in Int
      BY DEF Modes, Editor!LeftAdjusts, Editor!RightAdjusts
    <3>2. m.leftAdjust < 2 * Editor!ScreenWidth + m.rightAdjust
      BY DEF Framed
    <3> QED
      BY <3>1, <3>2 DEF Editor!ScreenWidth
  <2> HIDE DEF d
  <2>3. (m.viWidth * 1024) \div d \in Int
    BY <2>1, <2>2
  <2> QED
    BY <2>3 DEF d
<1>3. origin \in [0 .. 1 -> Int]
  <2>1. bytes \in Int
    BY DEF Modes, Editor!ScreenWidth
  <2> HIDE DEF bytes
  <2> QED
    BY <2>1
<1>4. y = LineStep(m)
  <2>1. h \in Nat /\ h > 0 /\ lines = 2 * h
    BY DEF Framed, Modes
  <2> HIDE DEF lines, h
  <2>2. (h * 2048) \div (2 * h) = 1024
    <3>1. 2 * h \in Nat /\ 2 * h > 0 /\ h * 2048 = 1024 * (2 * h) /\ 1024 \in Nat
      BY <2>1
    <3> QED
      BY <3>1, Quotient
  <2>3. (m.viHeight * 2048) \div lines = 1024
    BY <2>1, <2>2 DEF h
  <2>4. 1024 \div 1 = 1024 /\ 1024 \div 2 = 512 /\ 2 * 512 = 1024 /\ 1 * 512 = 512
        /\ 1 * 1024 = 1024
    OBVIOUS
  <2>5. CASE m.loRes
    BY <2>3, <2>4, <2>5 DEF LineStep
  <2>6. CASE ~m.loRes /\ Editor!ModeF(m)
    BY <2>3, <2>4, <2>6 DEF LineStep
  <2>7. CASE ~m.loRes /\ ~Editor!ModeF(m)
    BY <2>3, <2>4, <2>7 DEF LineStep
  <2> QED
    BY <2>5, <2>6, <2>7
<1> HIDE DEF e, x, y, origin
<1>5. \A f \in 0 .. 1 : /\ scale[f] \in Word16
                        /\ scale[f].lo = LineStep(m)
  <2>1. \A f \in 0 .. 1 : Editor!FieldShift(m, f) \in Small
    BY DEF Editor!FieldShift, Small
  <2>2. y \in Small
    BY <1>4 DEF LineStep, Small
  <2> QED
    BY <1>4, <2>1, <2>2, HalvesOf
<1> HIDE DEF scale
<1>6. scale \in [0 .. 1 -> Word16]
  BY <1>5 DEF scale
<1>7. e \in Regs /\ e.yScale = scale
  BY <1>1, <1>2, <1>3, <1>6 DEF Regs
<1>8. /\ e.ctrl = r.ctrl /\ e.width = r.width /\ e.burst = r.burst
      /\ e.hStart = r.hStart /\ e.vSync = r.vSync /\ e.hSync = r.hSync
      /\ e.leap = r.leap /\ e.vStart = r.vStart /\ e.vBurst = r.vBurst
  BY <1>1 DEF Regs
<1> QED
  BY <1>5, <1>7, <1>8 DEF e

-----------------------------------------------------------------------------
(* Features, bit by bit. *)
LEMMA FeaturesIn ==
    ASSUME NEW m \in Modes, NEW c \in SUBSET Bits
    PROVE  Editor!Features(m, c) \in SUBSET Bits
BY DEF Editor!Features, Editor!When, Bits

LEMMA ControlMade ==
    ASSUME NEW m \in Modes, NEW r, r.ctrl = Editor!Features(m, Editor!Control(m))
    PROVE  LET features == m.viFeatures
               filtered == /\ "DITHER_FILTER_ON" \in features
                           /\ "DITHER_FILTER_OFF" \notin features
           IN  Editor!SpecialFeatures(m, r, r.ctrl) =
              {"PIXEL_ADV_3"}
                \cup Editor!When("GAMMA_OFF" \notin features, "GAMMA_ON")
                \cup Editor!When("GAMMA_DITHER_OFF" \notin features, "GAMMA_DITHER_ON")
                \cup Editor!When("DIVOT_OFF" \notin features
                            /\ ("DIVOT_ON" \in features \/ ~m.antialiasOff), "DIVOT_ON")
                \cup Editor!When(~Editor!Deinterlaced(m), "SERRATE_ON")
                \cup {IF m.fb16Bit THEN "TYPE_16" ELSE "TYPE_32"}
                \cup (IF filtered THEN {"DITHER_FILTER_ON"} ELSE Editor!LibultraAntialias(m))
BY DEF Editor!SpecialFeatures, Editor!Features, Editor!Control, Editor!When, Editor!AntialiasMask,
       Editor!LibultraAntialias, Modes

-----------------------------------------------------------------------------
(* ViMode_Configure and ViMode_ConfigureFeatures, all of it. *)
Fitting(tv, m) ==
    LET n == TimingNumbers(tv)
    IN  /\ n.left + m.leftAdjust \in Small /\ n.right + m.rightAdjust \in Small
        /\ n.first + m.upperAdjust \in Small /\ n.last + m.lowerAdjust \in Small

Made(tv, m, r) == Editor!ConfigureFeatures(m, Editor!Configure(tv, m, r))

(* The numbers of the vertical timing of a field: two lines less for the first. *)
Earlier(m, f) == IF ~Editor!Deinterlaced(m) /\ f = 0 THEN -2 ELSE 0

LEMMA TimedIs ==
    ASSUME NEW tv \in TVs, NEW m \in Modes, NEW r \in Regs, Fitting(tv, m),
           Editor!Even(m.upperAdjust) = m.upperAdjust, Editor!Even(m.lowerAdjust) = m.lowerAdjust
    PROVE  LET n == TimingNumbers(tv)
               t == Editor!Timing(tv)
               e == Editor!Adjust(m, Editor!SetTiming(tv, Editor!SetControl(m, r)))
           IN  /\ e \in Regs
               /\ e.hStart.hi = n.left + m.leftAdjust /\ e.hStart.lo = n.right + m.rightAdjust
               /\ \A f \in 0 .. 1 : /\ e.vStart[f].hi = n.first + m.upperAdjust
                                    /\ e.vStart[f].lo = n.last + m.lowerAdjust
               /\ e.ctrl = Editor!Control(m)
               /\ e.width = m.viWidth * (IF ~m.loRes /\ m.modeN THEN 2 ELSE 1)
               /\ e.burst = t.burst /\ e.vSync = t.vSync /\ e.hSync = t.hSync /\ e.leap = t.leap
               /\ e.vBurst = t.vBurst
<1> DEFINE n == TimingNumbers(tv)
           t == Editor!Timing(tv)
           a == Editor!SetControl(m, r)
           b == Editor!SetTiming(tv, a)
           e == Editor!Adjust(m, b)
           wide == m.viWidth * (IF ~m.loRes /\ m.modeN THEN 2 ELSE 1)
<1>1. a \in Regs /\ a.ctrl = Editor!Control(m) /\ a.width = wide
  BY SetControlIs
<1> HIDE DEF a, wide
<1>2. /\ b \in Regs
      /\ b.ctrl = a.ctrl /\ b.width = a.width
      /\ b.burst = t.burst /\ b.vSync = t.vSync /\ b.hSync = t.hSync /\ b.leap = t.leap
      /\ b.hStart = t.hStart /\ b.vStart = t.vStart /\ b.vBurst = t.vBurst
  BY <1>1, SetTimingIs
<1>3. n \in NumberType
  BY NumbersIn
<1>4. /\ t.hStart = Editor!Word(n.left, n.right)
      /\ t.vStart = Editor!Both(Editor!Word(n.first, n.last))
  BY TimingIs
<1>5. /\ n.left + m.leftAdjust \in Small /\ n.right + m.rightAdjust \in Small
      /\ n.first + m.upperAdjust \in Small /\ n.last + m.lowerAdjust \in Small
  BY DEF Fitting
<1> HIDE DEF b, n, t
<1>6. /\ b.hStart.hi = n.left /\ b.hStart.lo = n.right
      /\ \A f \in 0 .. 1 : b.vStart[f].hi = n.first /\ b.vStart[f].lo = n.last
  BY <1>2, <1>3, <1>4, HalvesOf DEF NumberType, Editor!Both
<1>7. Fits(m, b)
  BY <1>5, <1>6, SmallIn DEF Fits, Room
<1>8. /\ e \in Regs
      /\ Displaced(e.hStart, b.hStart, m.leftAdjust, m.rightAdjust)
      /\ \A f \in 0 .. 1 : Displaced(e.vStart[f], b.vStart[f], m.upperAdjust, m.lowerAdjust)
      /\ e.ctrl = b.ctrl /\ e.width = b.width /\ e.burst = b.burst
      /\ e.vSync = b.vSync /\ e.hSync = b.hSync /\ e.leap = b.leap
      /\ e.vBurst = b.vBurst
  BY <1>2, <1>7, AdjustIs
<1> HIDE DEF e
<1>9. /\ e.hStart.hi = n.left + m.leftAdjust /\ e.hStart.lo = n.right + m.rightAdjust
      /\ \A f \in 0 .. 1 : /\ e.vStart[f].hi = n.first + m.upperAdjust
                           /\ e.vStart[f].lo = n.last + m.lowerAdjust
  BY <1>6, <1>8 DEF Displaced
<1>10. /\ e.ctrl = Editor!Control(m) /\ e.width = wide
       /\ e.burst = t.burst /\ e.vSync = t.vSync /\ e.hSync = t.hSync /\ e.leap = t.leap
       /\ e.vBurst = t.vBurst
  BY <1>1, <1>2, <1>8
<1> QED
  BY <1>8, <1>9, <1>10 DEF e, b, a, n, t, wide

LEMMA InterlacedIs ==
    ASSUME NEW tv \in TVs, NEW m \in Modes, NEW r \in Regs,
           r.hSync = Editor!Timing(tv).hSync, r.leap = Editor!Timing(tv).leap,
           r.vBurst = Editor!Timing(tv).vBurst,
           r.vStart[0].hi >= 2, r.vStart[0].lo >= 2
    PROVE  LET e == Editor!Interlace(tv, m, r)
           IN  /\ e \in Regs
               /\ e.ctrl = r.ctrl /\ e.width = r.width /\ e.burst = r.burst /\ e.hStart = r.hStart
               /\ Editor!Deinterlaced(m) => e.vSync = r.vSync + 1 /\ e.vBurst = r.vBurst
               /\ ~Editor!Deinterlaced(m) => e.vSync = r.vSync
               /\ ~Editor!Deinterlaced(m) \/ tv # "MPAL" => e.hSync = r.hSync /\ e.leap = r.leap
               /\ Editor!Deinterlaced(m) /\ tv = "MPAL" => /\ e.hSync.hi = 4 /\ e.hSync.lo = 3089
                                                           /\ e.leap.hi = 3097 /\ e.leap.lo = 3098
               /\ Editor!Deinterlaced(m) => e.vStart = r.vStart
               /\ ~Editor!Deinterlaced(m) => /\ Displaced(e.vStart[0], r.vStart[0], -2, -2)
                                             /\ e.vStart[1] = r.vStart[1]
               /\ ~Editor!Deinterlaced(m) /\ tv # "MPAL" => e.vBurst[0] = r.vBurst[0]
               /\ ~Editor!Deinterlaced(m) /\ tv = "MPAL"
                     => Editor!BurstFields(e.vBurst[0]) = <<2, 2, 11, 0>>
               /\ ~Editor!Deinterlaced(m) /\ tv # "PAL" => e.vBurst[1] = r.vBurst[1]
               /\ ~Editor!Deinterlaced(m) /\ tv = "PAL"
                     => Editor!BurstFields(e.vBurst[1]) = <<105, 2, 12, 0>>
<1>1. tv = "MPAL" => MpalTiming(r)
  BY DEF MpalTiming, Editor!Timing, Editor!HSync, Editor!Leap
<1>2. /\ tv = "MPAL" => r.vBurst = Editor!Both(Editor!Burst(4, 2, 14, 0))
      /\ tv = "PAL" => r.vBurst = Editor!Both(Editor!Burst(107, 2, 9, 0))
  BY TimingBursts
<1>3. CASE Editor!Deinterlaced(m)
  BY <1>1, <1>3, OneFieldIs
<1>4. CASE ~Editor!Deinterlaced(m)
  BY <1>2, <1>4, TwoFieldsAre
<1> QED
  BY <1>3, <1>4

(* All of the mode, told field by field. *)
MadeOf(e, tv, m) ==
    LET n == TimingNumbers(tv)
        t == Editor!Timing(tv)
        one == Editor!Deinterlaced(m)
    IN  /\ e \in Regs
        /\ e.ctrl = Editor!Features(m, Editor!Control(m))
        /\ e.width = m.viWidth * (IF ~m.loRes /\ m.modeN THEN 2 ELSE 1)
        /\ \A f \in 0 .. 1 : e.yScale[f].lo = LineStep(m)
        /\ e.hStart.hi = n.left + m.leftAdjust /\ e.hStart.lo = n.right + m.rightAdjust
        /\ e.burst = t.burst
        /\ e.vSync = t.vSync + (IF one THEN 1 ELSE 0)
        /\ ~one \/ tv # "MPAL" => e.hSync = t.hSync /\ e.leap = t.leap
        /\ one /\ tv = "MPAL" => /\ e.hSync.hi = 4 /\ e.hSync.lo = 3089
                                 /\ e.leap.hi = 3097 /\ e.leap.lo = 3098
        /\ \A f \in 0 .. 1 : /\ e.vStart[f].hi = (n.first + m.upperAdjust) + Earlier(m, f)
                             /\ e.vStart[f].lo = (n.last + m.lowerAdjust) + Earlier(m, f)
        /\ one \/ tv # "MPAL" => e.vBurst[0] = t.vBurst[0]
        /\ ~one /\ tv = "MPAL" => Editor!BurstFields(e.vBurst[0]) = <<2, 2, 11, 0>>
        /\ one \/ tv # "PAL" => e.vBurst[1] = t.vBurst[1]
        /\ ~one /\ tv = "PAL" => Editor!BurstFields(e.vBurst[1]) = <<105, 2, 12, 0>>

LEMMA MadeIs ==
    ASSUME NEW tv \in TVs, NEW m \in Modes, NEW r \in Regs, Fitting(tv, m), Framed(m),
           Editor!Even(m.upperAdjust) = m.upperAdjust, Editor!Even(m.lowerAdjust) = m.lowerAdjust,
           TimingNumbers(tv).first + m.upperAdjust >= 2, TimingNumbers(tv).last + m.lowerAdjust >= 2
    PROVE  MadeOf(Made(tv, m, r), tv, m)
<1> DEFINE n == TimingNumbers(tv)
           t == Editor!Timing(tv)
           one == Editor!Deinterlaced(m)
           a == Editor!Adjust(m, Editor!SetTiming(tv, Editor!SetControl(m, r)))
           b == Editor!Interlace(tv, m, a)
           c == Editor!Scale(m, b)
           e == Made(tv, m, r)
           wide == m.viWidth * (IF ~m.loRes /\ m.modeN THEN 2 ELSE 1)
<1>1. /\ a \in Regs
      /\ a.hStart.hi = n.left + m.leftAdjust /\ a.hStart.lo = n.right + m.rightAdjust
      /\ \A f \in 0 .. 1 : /\ a.vStart[f].hi = n.first + m.upperAdjust
                           /\ a.vStart[f].lo = n.last + m.lowerAdjust
      /\ a.ctrl = Editor!Control(m)
      /\ a.width = wide
      /\ a.burst = t.burst /\ a.vSync = t.vSync /\ a.hSync = t.hSync /\ a.leap = t.leap
      /\ a.vBurst = t.vBurst
  BY TimedIs
<1>2. a.vStart[0].hi >= 2 /\ a.vStart[0].lo >= 2
  <2> HIDE DEF a, n
  <2>1. n.first + m.upperAdjust >= 2 /\ n.last + m.lowerAdjust >= 2
    BY DEF n
  <2> QED
    BY <1>1, <2>1
<1> HIDE DEF a
<1>3. /\ b \in Regs
      /\ b.ctrl = a.ctrl /\ b.width = a.width /\ b.burst = a.burst /\ b.hStart = a.hStart
      /\ one => b.vSync = a.vSync + 1 /\ b.vBurst = a.vBurst
      /\ ~one => b.vSync = a.vSync
      /\ ~one \/ tv # "MPAL" => b.hSync = a.hSync /\ b.leap = a.leap
      /\ one /\ tv = "MPAL" => /\ b.hSync.hi = 4 /\ b.hSync.lo = 3089
                               /\ b.leap.hi = 3097 /\ b.leap.lo = 3098
      /\ one => b.vStart = a.vStart
      /\ ~one => /\ Displaced(b.vStart[0], a.vStart[0], -2, -2)
                 /\ b.vStart[1] = a.vStart[1]
      /\ ~one /\ tv # "MPAL" => b.vBurst[0] = a.vBurst[0]
      /\ ~one /\ tv = "MPAL" => Editor!BurstFields(b.vBurst[0]) = <<2, 2, 11, 0>>
      /\ ~one /\ tv # "PAL" => b.vBurst[1] = a.vBurst[1]
      /\ ~one /\ tv = "PAL" => Editor!BurstFields(b.vBurst[1]) = <<105, 2, 12, 0>>
  BY <1>1, <1>2, InterlacedIs
<1> HIDE DEF b
<1>4. /\ c \in Regs
      /\ \A f \in 0 .. 1 : c.yScale[f].lo = LineStep(m)
      /\ c.ctrl = b.ctrl /\ c.width = b.width /\ c.burst = b.burst
      /\ c.hStart = b.hStart /\ c.vSync = b.vSync /\ c.hSync = b.hSync
      /\ c.leap = b.leap /\ c.vStart = b.vStart /\ c.vBurst = b.vBurst
  BY <1>3, ScaleIs
<1>5. e = [c EXCEPT !.ctrl = Editor!Features(m, c.ctrl)]
  BY <1>4 DEF Made, Editor!Configure, Editor!ConfigureFeatures, a, b, Regs
<1> HIDE DEF c, e
<1>6. Editor!Features(m, c.ctrl) \in SUBSET Bits
  BY <1>4, FeaturesIn DEF Regs
<1>7. e \in Regs /\ e.ctrl = Editor!Features(m, c.ctrl)
  BY <1>4, <1>5, <1>6 DEF Regs
<1>8. /\ e.yScale = c.yScale /\ e.width = c.width /\ e.burst = c.burst
      /\ e.hStart = c.hStart /\ e.vSync = c.vSync /\ e.hSync = c.hSync
      /\ e.leap = c.leap /\ e.vStart = c.vStart /\ e.vBurst = c.vBurst
  BY <1>4, <1>5 DEF Regs
<1> HIDE DEF n, t, one, wide
<1>9. /\ e.ctrl = Editor!Features(m, Editor!Control(m))
      /\ e.width = wide /\ \A f \in 0 .. 1 : e.yScale[f].lo = LineStep(m)
      /\ e.hStart.hi = n.left + m.leftAdjust /\ e.hStart.lo = n.right + m.rightAdjust
      /\ e.burst = t.burst
  BY <1>1, <1>3, <1>4, <1>7, <1>8
<1>10. e.vSync = t.vSync + (IF one THEN 1 ELSE 0)
  <2>1. t.vSync \in Int
    BY WordsOf DEF t
  <2> QED
    BY <1>1, <1>3, <1>4, <1>8, <2>1
<1>11. /\ ~one \/ tv # "MPAL" => e.hSync = t.hSync /\ e.leap = t.leap
       /\ one /\ tv = "MPAL" => /\ e.hSync.hi = 4 /\ e.hSync.lo = 3089
                                /\ e.leap.hi = 3097 /\ e.leap.lo = 3098
       /\ one \/ tv # "MPAL" => e.vBurst[0] = t.vBurst[0]
       /\ ~one /\ tv = "MPAL" => Editor!BurstFields(e.vBurst[0]) = <<2, 2, 11, 0>>
       /\ one \/ tv # "PAL" => e.vBurst[1] = t.vBurst[1]
       /\ ~one /\ tv = "PAL" => Editor!BurstFields(e.vBurst[1]) = <<105, 2, 12, 0>>
  BY <1>1, <1>3, <1>4, <1>8
<1>12. \A f \in 0 .. 1 : /\ e.vStart[f].hi = (n.first + m.upperAdjust) + Earlier(m, f)
                         /\ e.vStart[f].lo = (n.last + m.lowerAdjust) + Earlier(m, f)
  <2> DEFINE u == n.first + m.upperAdjust
             l == n.last + m.lowerAdjust
  <2>1. u \in Int /\ l \in Int
    BY SmallIn DEF Fitting, n
  <2> HIDE DEF u, l
  <2>2. \A f \in 0 .. 1 : a.vStart[f].hi = u /\ a.vStart[f].lo = l
    BY <1>1 DEF u, l
  <2>3. \A f \in 0 .. 1 : one => e.vStart[f].hi = u /\ e.vStart[f].lo = l
    BY <1>3, <1>4, <1>8, <2>2
  <2>4. ~one => /\ e.vStart[0].hi = u + (-2) /\ e.vStart[0].lo = l + (-2)
                /\ e.vStart[1].hi = u /\ e.vStart[1].lo = l
    BY <1>3, <1>4, <1>8, <2>2 DEF Displaced
  <2>5. \A f \in 0 .. 1 : e.vStart[f].hi = u + Earlier(m, f) /\ e.vStart[f].lo = l + Earlier(m, f)
    BY <2>1, <2>3, <2>4 DEF Earlier, one
  <2> QED
    BY <2>5 DEF u, l
<1> QED
  BY <1>7, <1>9, <1>10, <1>11, <1>12 DEF MadeOf, e, n, t, one, wide

-----------------------------------------------------------------------------
(* The timing of libultra is that of ViMode_Configure, taken apart. *)
TimingAlike(l, n, t, tv, one, f) ==
    /\ l[1] = t.vSync + (IF one THEN 1 ELSE 0)
    /\ l[2] = IF one /\ tv = "MPAL" THEN <<3089, 4>> ELSE <<n.duration, n.leap>>
    /\ l[3] = IF one /\ tv = "MPAL" THEN <<3097, 3098>> ELSE <<n.upper, n.lower>>
    /\ l[4] = <<n.left, n.right>>
    /\ l[6 + f] = IF ~one /\ f = 0 THEN <<n.first + (-2), n.last + (-2)>>
                  ELSE <<n.first, n.last>>

LEMMA TimingMatches ==
    ASSUME NEW tv \in TVs, NEW one \in BOOLEAN, NEW f \in 0 .. 1
    PROVE  TimingAlike(Editor!Numbers(tv, one), TimingNumbers(tv), Editor!Timing(tv), tv, one, f)
<1>1. CASE tv = "NTSC"
  <2>1. CASE one
    BY <1>1, <2>1 DEF TimingAlike, TimingNumbers, Editor!Timing, Editor!Numbers
  <2>2. CASE ~one
    BY <1>1, <2>2 DEF TimingAlike, TimingNumbers, Editor!Timing, Editor!Numbers
  <2> QED
    BY <2>1, <2>2
<1>2. CASE tv = "PAL"
  <2>1. CASE one
    BY <1>2, <2>1 DEF TimingAlike, TimingNumbers, Editor!Timing, Editor!Numbers
  <2>2. CASE ~one
    BY <1>2, <2>2 DEF TimingAlike, TimingNumbers, Editor!Timing, Editor!Numbers
  <2> QED
    BY <2>1, <2>2
<1>3. CASE tv = "MPAL"
  <2>1. CASE one
    BY <1>3, <2>1 DEF TimingAlike, TimingNumbers, Editor!Timing, Editor!Numbers
  <2>2. CASE ~one
    BY <1>3, <2>2 DEF TimingAlike, TimingNumbers, Editor!Timing, Editor!Numbers
  <2> QED
    BY <2>1, <2>2
<1> QED
  BY <1>1, <1>2, <1>3 DEF TVs

BurstsAlike(l, t, tv, one, f) ==
    /\ l[5] = Editor!BurstFields(t.burst)
    /\ ~(~one /\ tv = "MPAL" /\ f = 0) /\ ~(~one /\ tv = "PAL" /\ f = 1)
          => l[8 + f] = Editor!BurstFields(t.vBurst[f])
    /\ ~one /\ tv = "MPAL" /\ f = 0 => l[8 + f] = <<2, 2, 11, 0>>
    /\ ~one /\ tv = "PAL" /\ f = 1 => l[8 + f] = <<105, 2, 12, 0>>

LEMMA BurstsMatch ==
    ASSUME NEW tv \in TVs, NEW one \in BOOLEAN, NEW f \in 0 .. 1
    PROVE  BurstsAlike(Editor!Numbers(tv, one), Editor!Timing(tv), tv, one, f)
<1>1. CASE tv = "NTSC"
  <2>1. CASE one
    BY <1>1, <2>1, BurstsTold DEF BurstsAlike, Editor!Timing, Editor!Numbers, Editor!Both
  <2>2. CASE ~one
    BY <1>1, <2>2, BurstsTold DEF BurstsAlike, Editor!Timing, Editor!Numbers, Editor!Both
  <2> QED
    BY <2>1, <2>2
<1>2. CASE tv = "PAL"
  <2>1. CASE one
    BY <1>2, <2>1, BurstsTold DEF BurstsAlike, Editor!Timing, Editor!Numbers, Editor!Both
  <2>2. CASE ~one
    BY <1>2, <2>2, BurstsTold DEF BurstsAlike, Editor!Timing, Editor!Numbers, Editor!Both
  <2> QED
    BY <2>1, <2>2
<1>3. CASE tv = "MPAL"
  <2>1. CASE one
    BY <1>3, <2>1, BurstsTold DEF BurstsAlike, Editor!Timing, Editor!Numbers, Editor!Both
  <2>2. CASE ~one
    BY <1>3, <2>2, BurstsTold DEF BurstsAlike, Editor!Timing, Editor!Numbers, Editor!Both
  <2> QED
    BY <2>1, <2>2
<1> QED
  BY <1>1, <1>2, <1>3 DEF TVs

LEMMA EvenIs == \A n \in Int : Editor!Even(2 * n) = 2 * n
BY DEF Editor!Even

(* How far the edges of a picture can be moved. *)
LeftEdges == 108 .. 128
RightEdges == 748 .. 768
FirstLines == 37 .. 95
LastLines == 511 .. 569

LEMMA EdgesStay ==
    /\ \A x \in LeftEdges, y \in Editor!LeftAdjusts : x + y \in Small
    /\ \A x \in RightEdges, y \in Editor!RightAdjusts : x + y \in Small
    /\ \A x \in FirstLines, y \in Uppers : x + y \in Small /\ x + y >= 2
    /\ \A x \in LastLines, y \in Lowers : x + y \in Small /\ x + y >= 2
<1>1. \A x \in LeftEdges, y \in Editor!LeftAdjusts : x + y \in Small
  BY DEF Small, LeftEdges, Editor!LeftAdjusts
<1>2. \A x \in RightEdges, y \in Editor!RightAdjusts : x + y \in Small
  BY DEF Small, RightEdges, Editor!RightAdjusts
<1>3. \A x \in FirstLines, y \in Uppers : x + y \in Small /\ x + y >= 2
  BY DEF Small, FirstLines, Uppers
<1>4. \A x \in LastLines, y \in Lowers : x + y \in Small /\ x + y >= 2
  BY DEF Small, LastLines, Lowers
<1> QED
  BY <1>1, <1>2, <1>3, <1>4

LEMMA WindowIs ==
    ASSUME NEW m \in Modes, NEW u \in 0 .. 240, NEW l \in 0 .. 240, u < l,
           m.leftAdjust < 2 * Editor!ScreenWidth + m.rightAdjust, NEW tv \in TVs
    PROVE  LET w == Editor!WithWindow(m, u, l)
           IN  /\ w \in Modes /\ Framed(w) /\ Fitting(tv, w)
               /\ Editor!Even(w.upperAdjust) = w.upperAdjust
               /\ Editor!Even(w.lowerAdjust) = w.lowerAdjust
               /\ TimingNumbers(tv).first + w.upperAdjust >= 2
               /\ TimingNumbers(tv).last + w.lowerAdjust >= 2
<1> DEFINE w == Editor!WithWindow(m, u, l)
<1>1. /\ w.upperAdjust = 2 * u /\ w.lowerAdjust = 2 * l - 2 * Editor!ScreenHeight
      /\ w.viHeight = l - u
      /\ w.leftAdjust = m.leftAdjust /\ w.rightAdjust = m.rightAdjust
  BY DEF Editor!WithWindow, Modes
<1> DEFINE a == 2 * u
           b == 2 * l - 2 * Editor!ScreenHeight
           h == l - u
<1>2. /\ h \in 0 .. 240 /\ h > 0 /\ a \in Uppers /\ b \in Lowers
  BY DEF Editor!ScreenHeight, Uppers, Lowers
<1>3. w \in Modes
  <2>1. w = [m EXCEPT !.upperAdjust = a, !.lowerAdjust = b, !.viHeight = h]
    BY DEF Editor!WithWindow
  <2> HIDE DEF w, a, b, h
  <2> QED
    BY <1>2, <2>1 DEF Modes
<1> HIDE DEF w
<1>4. Editor!Even(w.upperAdjust) = w.upperAdjust /\ Editor!Even(w.lowerAdjust) = w.lowerAdjust
  <2>1. Editor!Even(a) = a
    BY EvenIs
  <2> DEFINE k == l - 240
  <2>2. k \in Int /\ b = 2 * k
    BY DEF Editor!ScreenHeight
  <2> HIDE DEF a, b, k
  <2>3. Editor!Even(b) = b
    BY <2>2, EvenIs
  <2> QED
    BY <1>1, <2>1, <2>3 DEF a, b
<1>5. Framed(w)
  <2>1. 2 * Editor!ScreenHeight + w.lowerAdjust - w.upperAdjust = 2 * w.viHeight
    BY <1>1 DEF Editor!ScreenHeight
  <2> QED
    BY <1>1, <1>2, <1>4, <2>1 DEF Framed
<1>6. /\ w.leftAdjust \in Editor!LeftAdjusts /\ w.rightAdjust \in Editor!RightAdjusts
      /\ w.upperAdjust \in Uppers /\ w.lowerAdjust \in Lowers
  BY <1>3 DEF Modes
<1> DEFINE n == TimingNumbers(tv)
<1>7. /\ n.left \in LeftEdges /\ n.right \in RightEdges
      /\ n.first \in FirstLines /\ n.last \in LastLines
  <2> USE DEF LeftEdges, RightEdges, FirstLines, LastLines
  <2>1. CASE tv = "NTSC"
    BY <2>1 DEF TimingNumbers
  <2>2. CASE tv = "PAL"
    BY <2>2 DEF TimingNumbers
  <2>3. CASE tv = "MPAL"
    BY <2>3 DEF TimingNumbers
  <2> QED
    BY <2>1, <2>2, <2>3 DEF TVs
<1>8. /\ n.left + w.leftAdjust \in Small /\ n.right + w.rightAdjust \in Small
      /\ n.first + w.upperAdjust \in Small /\ n.last + w.lowerAdjust \in Small
      /\ n.first + w.upperAdjust >= 2 /\ n.last + w.lowerAdjust >= 2
  <2> HIDE DEF n
  <2> QED
    BY <1>6, <1>7, EdgesStay
<1> QED
  BY <1>3, <1>4, <1>5, <1>8 DEF w, Fitting

-----------------------------------------------------------------------------
LEMMA ShownTiming ==
    tvType \in TVs /\ viMode \in Modes /\ MadeOf(regs, tvType, viMode) => Editor!TimingShown
<1> DEFINE one == Editor!Deinterlaced(viMode)
           n == TimingNumbers(tvType)
           t == Editor!Timing(tvType)
           l == Editor!Numbers(tvType, one)
<1> SUFFICES ASSUME tvType \in TVs, viMode \in Modes, MadeOf(regs, tvType, viMode),
                    NEW f \in 0 .. 1
             PROVE  LET shown == Editor!Shown(f)
                        start == l[6 + f]
                    IN  /\ shown.vSync = l[1]
                        /\ <<shown.hSync.lo, shown.hSync.hi>> = l[2]
                        /\ Editor!Halves(shown.leap) = l[3]
                        /\ Editor!Halves(shown.hStart)
                             = <<l[4][1] + viMode.leftAdjust, l[4][2] + viMode.rightAdjust>>
                        /\ Editor!BurstFields(shown.burst) = l[5]
                        /\ Editor!Halves(shown.vStart)
                             = <<start[1] + viMode.upperAdjust, start[2] + viMode.lowerAdjust>>
                        /\ Editor!BurstFields(shown.vBurst) = l[8 + f]
  BY DEF Editor!TimingShown
<1> DEFINE e == regs
<1>1. /\ e.vSync = t.vSync + (IF one THEN 1 ELSE 0)
      /\ e.hStart.hi = n.left + viMode.leftAdjust /\ e.hStart.lo = n.right + viMode.rightAdjust
      /\ e.burst = t.burst
      /\ ~one \/ tvType # "MPAL" => e.hSync = t.hSync /\ e.leap = t.leap
      /\ one /\ tvType = "MPAL" => /\ e.hSync.hi = 4 /\ e.hSync.lo = 3089
                                   /\ e.leap.hi = 3097 /\ e.leap.lo = 3098
      /\ e.vStart[f].hi = (n.first + viMode.upperAdjust) + Earlier(viMode, f)
      /\ e.vStart[f].lo = (n.last + viMode.lowerAdjust) + Earlier(viMode, f)
  BY DEF MadeOf
<1>2. /\ one \/ tvType # "MPAL" => e.vBurst[0] = t.vBurst[0]
      /\ ~one /\ tvType = "MPAL" => Editor!BurstFields(e.vBurst[0]) = <<2, 2, 11, 0>>
      /\ one \/ tvType # "PAL" => e.vBurst[1] = t.vBurst[1]
      /\ ~one /\ tvType = "PAL" => Editor!BurstFields(e.vBurst[1]) = <<105, 2, 12, 0>>
  BY DEF MadeOf
<1>3. one \in BOOLEAN
  BY DEF Editor!Deinterlaced, Modes
<1>4. TimingAlike(l, n, t, tvType, one, f)
  BY <1>3, TimingMatches
<1>5. BurstsAlike(l, t, tvType, one, f)
  BY <1>3, BurstsMatch
<1>6. n \in NumberType
  BY NumbersIn
<1>7. /\ t.hSync = Editor!Word(n.leap, n.duration)
      /\ t.leap = Editor!Word(n.upper, n.lower)
  BY TimingIs
<1>8. Earlier(viMode, f) = IF ~one /\ f = 0 THEN -2 ELSE 0
  BY DEF Earlier
<1>9. viMode.upperAdjust \in Int /\ viMode.lowerAdjust \in Int
  BY DEF Modes, Uppers, Lowers
<1> DEFINE shown == Editor!Shown(f)
<1>10. /\ shown.vSync = e.vSync /\ shown.hSync = e.hSync /\ shown.leap = e.leap
       /\ shown.hStart = e.hStart /\ shown.burst = e.burst /\ shown.vStart = e.vStart[f]
       /\ shown.vBurst = e.vBurst[f]
  BY DEF Editor!Shown
<1> HIDE DEF one, n, t, l, e, shown
<1>11. /\ t.hSync.hi = n.leap /\ t.hSync.lo = n.duration
       /\ t.leap.hi = n.upper /\ t.leap.lo = n.lower
  BY <1>6, <1>7, HalvesOf DEF NumberType
<1>12. n.first \in Int /\ n.last \in Int
  BY <1>6, SmallIn DEF NumberType
<1>13. shown.vSync = l[1]
  BY <1>1, <1>4, <1>10 DEF TimingAlike
<1>14. <<shown.hSync.lo, shown.hSync.hi>> = l[2]
  BY <1>1, <1>4, <1>10, <1>11 DEF TimingAlike
<1>15. Editor!Halves(shown.leap) = l[3]
  BY <1>1, <1>4, <1>10, <1>11 DEF TimingAlike, Editor!Halves
<1>16. Editor!Halves(shown.hStart)
         = <<l[4][1] + viMode.leftAdjust, l[4][2] + viMode.rightAdjust>>
  BY <1>1, <1>4, <1>10 DEF TimingAlike, Editor!Halves
<1>17. Editor!BurstFields(shown.burst) = l[5]
  BY <1>1, <1>5, <1>10 DEF BurstsAlike
<1>18. Editor!Halves(shown.vStart)
         = <<l[6 + f][1] + viMode.upperAdjust, l[6 + f][2] + viMode.lowerAdjust>>
  <2>1. /\ shown.vStart.hi = l[6 + f][1] + viMode.upperAdjust
        /\ shown.vStart.lo = l[6 + f][2] + viMode.lowerAdjust
    BY <1>1, <1>4, <1>8, <1>9, <1>10, <1>12 DEF TimingAlike
  <2> QED
    BY <2>1 DEF Editor!Halves
<1>19. Editor!BurstFields(shown.vBurst) = l[8 + f]
  BY <1>2, <1>5, <1>10 DEF BurstsAlike
<1> QED
  BY <1>13, <1>14, <1>15, <1>16, <1>17, <1>18, <1>19 DEF l, shown

LEMMA ShownLines ==
    viMode \in Modes /\ MadeOf(regs, tvType, viMode) => Editor!LinesShown
<1> SUFFICES ASSUME viMode \in Modes, MadeOf(regs, tvType, viMode), NEW f \in 0 .. 1
             PROVE  Editor!Shown(f).width * Editor!Shown(f).yScale.lo = 1024 * viMode.viWidth
  BY DEF Editor!LinesShown
<1>1. /\ Editor!Shown(f).width = viMode.viWidth * (IF ~viMode.loRes /\ viMode.modeN THEN 2 ELSE 1)
      /\ Editor!Shown(f).yScale.lo = LineStep(viMode)
  BY DEF MadeOf, Editor!Shown
<1>2. viMode.viWidth \in Int /\ viMode.loRes \in BOOLEAN /\ viMode.modeN \in BOOLEAN
  BY DEF Modes, Editor!ScreenWidth
<1>3. \A x \in Int : (x * 1) * 1024 = 1024 * x /\ (x * 2) * 512 = 1024 * x
  OBVIOUS
<1>4. CASE viMode.loRes \/ ~viMode.modeN
  BY <1>1, <1>2, <1>3, <1>4 DEF LineStep, Editor!ModeF
<1>5. CASE ~viMode.loRes /\ viMode.modeN
  BY <1>1, <1>2, <1>3, <1>5 DEF LineStep, Editor!ModeF
<1> QED
  BY <1>2, <1>4, <1>5

LEMMA ShownControl ==
    /\ viMode \in Modes /\ MadeOf(regs, tvType, viMode)
    /\ setMode.control = Editor!SpecialFeatures(viMode, regs, regs.ctrl)
    => Editor!ControlShown
BY ControlMade DEF MadeOf, Editor!ControlShown

-----------------------------------------------------------------------------
(* What the editor has in hand between two calls: a mode within its bounds, registers
   within theirs, and, if they were set from the mode, registers that show it.  *)
EditorInv ==
    /\ tvType \in TvTypes
    /\ viMode \in Modes
    /\ viMode.leftAdjust < 2 * Editor!ScreenWidth + viMode.rightAdjust
    /\ regs \in Regs
    /\ setMode.custom \in BOOLEAN /\ applied \in BOOLEAN /\ (applied => setMode.custom)
    /\ applied => /\ MadeOf(regs, tvType, viMode)
                  /\ setMode.control = Editor!SpecialFeatures(viMode, regs, regs.ctrl)

LEMMA EditorConstants ==
    /\ TvTypes \subseteq TVs
    /\ \A s \in Settings : s \in Editor!SettingType
                             /\ s.leftAdjust < 2 * Editor!ScreenWidth + s.rightAdjust
    /\ \A w \in Edges : w[1] \in 0 .. 240 /\ w[2] \in 0 .. 240 /\ w[1] < w[2]
BY ViModeAssumption DEF Editor!ViModeAssumption, TVs

LEMMA EditorInitInv == Editor!Init => EditorInv
<1> SUFFICES ASSUME Editor!Init PROVE EditorInv
  OBVIOUS
<1>1. viMode \in Modes /\ viMode.leftAdjust < 2 * Editor!ScreenWidth + viMode.rightAdjust
  BY DEF Editor!Init, Editor!Defaults, Modes, Uppers, Lowers, Editor!LeftAdjusts,
         Editor!RightAdjusts, Editor!FeatureNames, Editor!ScreenWidth, Editor!ScreenHeight
<1>2. regs \in Regs
  <2> DEFINE z == Editor!Word(0, 0)
  <2>1. z \in Word16
    <3>1. 0 \in Small
      BY DEF Small
    <3> QED
      BY <3>1, HalvesOf
  <2>2. Editor!Blank =
          [ctrl |-> {}, width |-> 0, burst |-> z, vSync |-> 0, hSync |-> z,
           leap |-> z, hStart |-> z, xScale |-> 0, origin |-> [f \in 0 .. 1 |-> 0],
           yScale |-> [f \in 0 .. 1 |-> z], vStart |-> [f \in 0 .. 1 |-> z],
           vBurst |-> [f \in 0 .. 1 |-> z]]
    BY DEF Editor!Blank, Editor!Both
  <2> HIDE DEF z
  <2>3. Editor!Blank \in Regs
    BY <2>1, <2>2 DEF Regs
  <2> QED
    BY <2>3 DEF Editor!Init
<1> QED
  BY <1>1, <1>2 DEF Editor!Init, EditorInv

LEMMA ChooseInv ==
    ASSUME EditorInv, NEW s \in Settings, Editor!Choose(s)
    PROVE  EditorInv'
<1>1. s \in Editor!SettingType /\ s.leftAdjust < 2 * Editor!ScreenWidth + s.rightAdjust
  BY EditorConstants
<1>2. /\ viMode' \in Modes
      /\ viMode'.leftAdjust = s.leftAdjust /\ viMode'.rightAdjust = s.rightAdjust
  BY <1>1 DEF EditorInv, Editor!Choose, Modes, Editor!SettingType
<1> QED
  BY <1>1, <1>2 DEF EditorInv, Editor!Choose

LEMMA UpdateInv ==
    ASSUME EditorInv, Editor!Update
    PROVE  EditorInv'
<1>1. 0 \in Uppers /\ 0 \in Lowers /\ 0 \in Editor!LeftAdjusts /\ 0 \in Editor!RightAdjusts
  BY DEF Uppers, Lowers, Editor!LeftAdjusts, Editor!RightAdjusts
<1>2. viMode' = [viMode EXCEPT !.viWidth = 0, !.viHeight = 0, !.upperAdjust = 0,
                               !.lowerAdjust = 0, !.leftAdjust = 0, !.rightAdjust = 0]
  BY DEF Editor!Update
<1>3. viMode \in Modes
  BY DEF EditorInv
<1>4. viMode' \in Modes
  <2>1. 0 \in {0, Editor!ScreenWidth} /\ 0 \in 0 .. 240
    OBVIOUS
  <2> QED
    BY ONLY <1>1, <1>2, <1>3, <2>1 DEF Modes
<1>5. viMode'.leftAdjust = 0 /\ viMode'.rightAdjust = 0
  BY <1>2, <1>3 DEF Modes
<1>6. viMode'.leftAdjust < 2 * Editor!ScreenWidth + viMode'.rightAdjust
  BY <1>5 DEF Editor!ScreenWidth
<1>7. /\ tvType' \in TvTypes /\ regs' \in Regs
      /\ setMode'.custom \in BOOLEAN /\ applied' = FALSE
  BY DEF EditorInv, Editor!Update
<1> QED
  BY <1>4, <1>6, <1>7 DEF EditorInv

LEMMA WindowInv ==
    ASSUME EditorInv, NEW w \in Edges, Editor!Window(w[1], w[2])
    PROVE  EditorInv'
<1> DEFINE m == Editor!WithWindow(viMode, w[1], w[2])
           r == Made(tvType, m, regs)
<1>1. w[1] \in 0 .. 240 /\ w[2] \in 0 .. 240 /\ w[1] < w[2] /\ tvType \in TVs
  BY EditorConstants DEF EditorInv
<1>2. /\ viMode' = m /\ regs' = r /\ applied' = TRUE /\ tvType' = tvType
      /\ setMode' = Editor!SetSpecialFeatures(m, r, Editor!SetMode(r))
  BY DEF Editor!Window, Made
<1>3. /\ m \in Modes /\ Framed(m) /\ Fitting(tvType, m)
      /\ Editor!Even(m.upperAdjust) = m.upperAdjust
      /\ Editor!Even(m.lowerAdjust) = m.lowerAdjust
      /\ TimingNumbers(tvType).first + m.upperAdjust >= 2
      /\ TimingNumbers(tvType).last + m.lowerAdjust >= 2
  BY <1>1, WindowIs DEF EditorInv
<1> HIDE DEF m
<1>4. MadeOf(r, tvType, m)
  BY <1>1, <1>3, MadeIs DEF EditorInv
<1> HIDE DEF r
<1>5. r \in Regs
  BY <1>4 DEF MadeOf
<1>6. setMode'.custom = TRUE /\ setMode'.control = Editor!SpecialFeatures(m, r, r.ctrl)
  BY <1>2 DEF Editor!SetSpecialFeatures, Editor!SetMode
<1>7. m.leftAdjust < 2 * Editor!ScreenWidth + m.rightAdjust
  BY <1>3 DEF Framed
<1> QED
  BY <1>2, <1>3, <1>4, <1>5, <1>6, <1>7 DEF EditorInv

LEMMA EditorStepInv == EditorInv /\ [Editor!Next]_(Editor!vars) => EditorInv'
<1> SUFFICES ASSUME EditorInv, [Editor!Next]_(Editor!vars) PROVE EditorInv'
  OBVIOUS
<1>1. CASE Editor!Next
  BY <1>1, ChooseInv, UpdateInv, WindowInv DEF Editor!Next
<1>2. CASE UNCHANGED Editor!vars
  BY <1>2 DEF Editor!vars, EditorInv
<1> QED
  BY <1>1, <1>2

LEMMA EditorShows == EditorInv => ModeShown
<1> SUFFICES ASSUME EditorInv PROVE ModeShown
  OBVIOUS
<1>1. tvType \in TVs
  BY EditorConstants DEF EditorInv
<1>2. applied => Editor!TimingShown /\ Editor!LinesShown /\ Editor!ControlShown
  BY <1>1, ShownTiming, ShownLines, ShownControl DEF EditorInv
<1>3. ~applied => Editor!TimingShown /\ Editor!LinesShown /\ Editor!ControlShown
  BY DEF Editor!TimingShown, Editor!LinesShown, Editor!ControlShown
<1>4. Editor!TypeOK
  <2>1. \A x \in Word16 : Editor!IsWord(x)
    BY HalvesIn DEF Editor!IsWord, W
  <2>2. /\ \A x \in {regs.burst, regs.hSync, regs.leap, regs.hStart} : x \in Word16
        /\ \A f \in 0 .. 1 : /\ regs.vStart[f] \in Word16 /\ regs.vBurst[f] \in Word16
                             /\ regs.yScale[f] \in Word16
    BY DEF EditorInv, Regs
  <2> QED
    BY <2>1, <2>2 DEF Editor!TypeOK, EditorInv
<1> QED
  BY <1>2, <1>3, <1>4 DEF ModeShown, Editor!ModeShown

(* For any TV, any settings and edges that keep the picture within a line and any
   window: after func_8007EE28 all of the mode is what was asked for.          *)
THEOREM ModesAreShown == Editor!Spec => []ModeShown
<1>1. Editor!Init => EditorInv
  BY EditorInitInv
<1>2. EditorInv /\ [Editor!Next]_(Editor!vars) => EditorInv'
  BY EditorStepInv
<1>3. EditorInv => ModeShown
  BY EditorShows
<1> QED
  BY <1>1, <1>2, <1>3, PTL DEF Editor!Spec
=============================================================================
