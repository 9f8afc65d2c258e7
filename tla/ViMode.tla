------------------------------- MODULE ViMode -------------------------------
(***************************************************************************)
(* The video mode the game makes for itself, src/main/vimode.c: registers of *)
(* the video interface are put together in the game's own OSViMode, from     *)
(* which the VI manager of libultra then programs the hardware at every      *)
(* retrace.                                                                 *)
(*                                                                         *)
(* A register that packs two numbers is a pair of 16-bit halves, and adding  *)
(* to it carries from one half into the other, as the code relies on.  A     *)
(* control register is the set of its bits.                                  *)
(***************************************************************************)
EXTENDS Integers

CONSTANTS
    TvTypes,    \* what osTvType may be: "NTSC", "PAL" or "MPAL"
    Settings,   \* what the rest of the game may set in the ViMode
    Windows     \* the upper and lower edges it may ask for, in lines

ScreenWidth == 320
ScreenHeight == 240

FeatureNames ==
    {"GAMMA_ON", "GAMMA_OFF", "GAMMA_DITHER_ON", "GAMMA_DITHER_OFF", "DIVOT_ON", "DIVOT_OFF",
     "DITHER_FILTER_ON", "DITHER_FILTER_OFF"}

(* Left and right may be moved from where a line begins to where the ten bits of hStart
   end, whatever the TV (vimode.c:277-285 lets them only inwards); what is left of a
   line is not empty, as xScale is a quotient by it.                           *)
LeftAdjusts == -108 .. 255
RightAdjusts == -748 .. 255

SettingType ==
    [loRes : BOOLEAN, antialiasOff : BOOLEAN, modeN : BOOLEAN, fb16Bit : BOOLEAN,
     viFeatures : SUBSET FeatureNames, leftAdjust : LeftAdjusts, rightAdjust : RightAdjusts]

ViModeAssumption ==
    /\ TvTypes \subseteq {"NTSC", "PAL", "MPAL"}
    /\ Settings \subseteq {s \in SettingType : s.leftAdjust < 2 * ScreenWidth + s.rightAdjust}
    /\ Windows \subseteq {w \in (0 .. 240) \X (0 .. 240) : w[1] < w[2]}

VARIABLES
    tvType,     \* osTvType
    viMode,     \* the fields of the ViMode other than customViMode
    regs,       \* customViMode
    next,       \* __osViNext: is its mode customViMode, and its control register
    applied     \* history: the settings in viMode have been made a mode and set

vars == <<tvType, viMode, regs, next, applied>>

-----------------------------------------------------------------------------
Width16 == 256 * 256    \* 2^16

Word(hi, lo) == [hi |-> hi % Width16, lo |-> lo % Width16]

(* Variant: the halves are added separately. *)
AddHalves(a, b) == Word(a.hi + b.hi, a.lo + b.lo)

Add(a, b) == Word(a.hi + b.hi + (a.lo + b.lo) \div Width16, a.lo + b.lo)

(* START, HSTART; LEAP; HSYNC; BURST: two or four numbers in a register. *)
Start(start, end) == Word(start, end)
Leap(upper, lower) == Word(upper, lower)
HSync(duration, leap) == Word(leap, duration)
Burst(hsync, color, vsync, start) ==
    Word((vsync % 16) + start * 16, (hsync % 256) + (color % 256) * 256)

(* (hi << 16) + (s16)lo *)
Adjustment(hi, lo) == Add(Word(hi, 0), Word(IF lo < 0 THEN -1 ELSE 0, lo))

AntialiasMask == {"ANTIALIAS_MODE_1", "ANTIALIAS_MODE_2", "ANTIALIAS_MODE_3"}

When(cond, bit) == IF cond THEN {bit} ELSE {}

ModeF(m) == ~m.modeN
Deinterlaced(m) == m.loRes /\ m.modeN

(* The pieces of ViMode_Configure, in the order it has them. *)
Control(m) ==
    {"PIXEL_ADV_3", "GAMMA_ON", "GAMMA_DITHER_ON"}
       \cup When(~Deinterlaced(m), "SERRATE_ON")
       \cup When(~m.antialiasOff, "DIVOT_ON")
       \cup {IF m.fb16Bit THEN "TYPE_16" ELSE "TYPE_32"}
       \cup (IF m.loRes /\ ~m.antialiasOff /\ m.modeN /\ m.fb16Bit THEN {"ANTIALIAS_MODE_1"}
             ELSE IF m.antialiasOff /\ m.modeN /\ ~m.fb16Bit THEN {"ANTIALIAS_MODE_3"}
             ELSE When(m.antialiasOff, "ANTIALIAS_MODE_2"))

SetControl(m, r) ==
    [r EXCEPT !.ctrl = Control(m),
              !.width = m.viWidth * (IF ~m.loRes /\ m.modeN THEN 2 ELSE 1)]

Both(x) == [f \in 0 .. 1 |-> x]

Timing(tv) ==
    CASE tv = "NTSC" -> [burst |-> Burst(57, 34, 5, 62), vSync |-> 524,
                         hSync |-> HSync(3093, 0), leap |-> Leap(3093, 3093),
                         hStart |-> Start(108, 748), vStart |-> Both(Start(37, 511)),
                         vBurst |-> Both(Burst(4, 2, 14, 0))]
      [] tv = "PAL" -> [burst |-> Burst(58, 35, 4, 64), vSync |-> 624,
                        hSync |-> HSync(3177, 21), leap |-> Leap(3183, 3182),
                        hStart |-> Start(128, 768), vStart |-> Both(Start(95, 569)),
                        vBurst |-> Both(Burst(107, 2, 9, 0))]
      [] tv = "MPAL" -> [burst |-> Burst(57, 30, 5, 70), vSync |-> 524,
                         hSync |-> HSync(3088, 0), leap |-> Leap(3100, 3100),
                         hStart |-> Start(108, 748), vStart |-> Both(Start(37, 511)),
                         vBurst |-> Both(Burst(4, 2, 14, 0))]

SetTiming(tv, r) ==
    LET t == Timing(tv)
    IN  [r EXCEPT !.burst = t.burst, !.vSync = t.vSync, !.hSync = t.hSync,
                  !.leap = t.leap, !.hStart = t.hStart, !.vStart = t.vStart,
                  !.vBurst = t.vBurst]

Even(n) == n - (n % 2)

Adjust(m, r) ==
    LET edges == Adjustment(Even(m.upperAdjust), Even(m.lowerAdjust))
    IN  [r EXCEPT !.hStart = Add(@, Adjustment(m.leftAdjust, m.rightAdjust)),
                  !.vStart = [f \in 0 .. 1 |-> Add(@[f], edges)]]

Interlace(tv, m, r) ==
    IF Deinterlaced(m)
    THEN [r EXCEPT !.vSync = @ + 1,
                   !.hSync = IF tv = "MPAL" THEN Add(@, HSync(1, 4)) ELSE @,
                   !.leap = IF tv = "MPAL" THEN Add(@, Leap(-4, -2)) ELSE @]
    ELSE [r EXCEPT !.vStart[0] = Add(@, Start(-3, -2)),
                   !.vBurst[0] = IF tv = "MPAL" THEN Add(@, Burst(-2, -1, 12, -1)) ELSE @,
                   !.vBurst[1] = IF tv = "PAL" THEN Add(@, Burst(-2, -1, 2, 0)) ELSE @]

(* The 10-bit fraction by which a field is shifted. *)
FieldShift(m, f) ==
    IF ~ModeF(m) THEN 0
    ELSE IF ~m.loRes THEN 512
    ELSE IF f = 0 THEN 256 ELSE 768

Scale(m, r) ==
    LET lines == 2 * ScreenHeight + Even(m.lowerAdjust) - Even(m.upperAdjust)
        yScale == (IF ~m.loRes /\ ModeF(m) THEN 2 ELSE 1)
                    * (((m.viHeight * 2048) \div lines) \div (IF m.loRes THEN 1 ELSE 2))
        bytes == m.viWidth * 2 * (IF m.fb16Bit THEN 1 ELSE 2)
    IN  [r EXCEPT !.xScale = (m.viWidth * 1024) \div (2 * ScreenWidth + m.rightAdjust - m.leftAdjust),
                  !.origin = [f \in 0 .. 1 |-> IF f = 1 /\ ~m.loRes THEN 2 * bytes ELSE bytes],
                  !.yScale = [f \in 0 .. 1 |-> Word(FieldShift(m, f), yScale)]]

(* What ViMode_ConfigureFeatures and osViSetSpecialFeatures have in common: each
   feature may be turned on, off, or both, and then it is off.               *)
Features(m, ctrl) ==
    (ctrl \cup When("GAMMA_ON" \in m.viFeatures, "GAMMA_ON")
          \cup When("GAMMA_DITHER_ON" \in m.viFeatures, "GAMMA_DITHER_ON")
          \cup When("DIVOT_ON" \in m.viFeatures, "DIVOT_ON"))
       \ (When("GAMMA_OFF" \in m.viFeatures, "GAMMA_ON")
          \cup When("GAMMA_DITHER_OFF" \in m.viFeatures, "GAMMA_DITHER_ON")
          \cup When("DIVOT_OFF" \in m.viFeatures, "DIVOT_ON"))

(* The dither filter goes without the modes of the anti-aliasing field. *)
SpecialFeatures(m, mode, ctrl) ==
    LET on == IF "DITHER_FILTER_ON" \in m.viFeatures
              THEN (Features(m, ctrl) \cup {"DITHER_FILTER_ON"}) \ AntialiasMask
              ELSE Features(m, ctrl)
    IN  IF "DITHER_FILTER_OFF" \in m.viFeatures
        THEN (on \ {"DITHER_FILTER_ON"}) \cup (mode.ctrl \cap AntialiasMask)
        ELSE on

-----------------------------------------------------------------------------
Defaults ==
    [viWidth |-> ScreenWidth, viHeight |-> ScreenHeight,
     leftAdjust |-> 0, rightAdjust |-> 0, upperAdjust |-> 0, lowerAdjust |-> 0,
     viFeatures |-> {"DITHER_FILTER_ON", "GAMMA_OFF"},
     fb16Bit |-> TRUE, modeN |-> TRUE, antialiasOff |-> FALSE, loRes |-> TRUE]

Blank ==
    [ctrl |-> {}, width |-> 0, burst |-> Word(0, 0), vSync |-> 0, hSync |-> Word(0, 0),
     leap |-> Word(0, 0), hStart |-> Word(0, 0), xScale |-> 0, origin |-> Both(0),
     yScale |-> Both(Word(0, 0)), vStart |-> Both(Word(0, 0)), vBurst |-> Both(Word(0, 0))]

(* ViMode_Init.  The VI manager has one of the modes of libultra. *)
Init ==
    /\ tvType \in TvTypes
    /\ viMode = Defaults
    /\ regs = Blank
    /\ next = [custom |-> FALSE, control |-> {}]
    /\ applied = FALSE

(* The game sets what it wants in the ViMode. *)
Choose(s) ==
    /\ viMode' = [viMode EXCEPT !.loRes = s.loRes, !.antialiasOff = s.antialiasOff,
                                !.modeN = s.modeN, !.fb16Bit = s.fb16Bit,
                                !.viFeatures = s.viFeatures,
                                !.leftAdjust = s.leftAdjust, !.rightAdjust = s.rightAdjust]
    /\ applied' = FALSE
    /\ UNCHANGED <<tvType, regs, next>>

(* ViMode_Update: ViMode_Load forgets the sizes and leaves editState such that no
   test of it that follows succeeds.                                         *)
Update ==
    /\ viMode' = [viMode EXCEPT !.viWidth = 0, !.viHeight = 0, !.upperAdjust = 0,
                                !.lowerAdjust = 0, !.leftAdjust = 0, !.rightAdjust = 0]
    /\ applied' = FALSE
    /\ UNCHANGED <<tvType, regs, next>>

Configure(tv, m, r) ==
    Scale(m, Interlace(tv, m, Adjust(m, SetTiming(tv, SetControl(m, r)))))

ConfigureFeatures(m, r) == [r EXCEPT !.ctrl = Features(m, @)]

(* osViSetMode, which notes the control register down, and osViSetSpecialFeatures,
   which changes that note.                                                  *)
SetMode(r) == [custom |-> TRUE, control |-> r.ctrl]
SetSpecialFeatures(m, r, n) == [n EXCEPT !.control = SpecialFeatures(m, r, @)]

(* The ViMode for a picture that has the lines from upper to lower. *)
WithWindow(m, upper, lower) ==
    [m EXCEPT !.upperAdjust = 2 * upper,
              !.lowerAdjust = 2 * lower - 2 * ScreenHeight,
              !.viHeight = lower - upper]

(* func_8007EE28 *)
Window(upper, lower) ==
    /\ viMode' = WithWindow(viMode, upper, lower)
    /\ regs' = ConfigureFeatures(viMode', Configure(tvType, viMode', regs))
    /\ next' = SetSpecialFeatures(viMode', regs', SetMode(regs'))
    /\ applied' = TRUE
    /\ UNCHANGED tvType

Next ==
    \/ \E s \in Settings : Choose(s)
    \/ Update
    \/ \E w \in Windows : Window(w[1], w[2])

Spec == Init /\ [][Next]_vars

(* __osViSwapContext: what the hardware is programmed with when the display comes
   to field f, once it is the turn of customViMode.  The registers are read from
   the mode itself, but the control register is the one noted down.          *)
Shown(f) ==
    [ctrl |-> next.control, width |-> regs.width, burst |-> regs.burst,
     vSync |-> regs.vSync, hSync |-> regs.hSync, leap |-> regs.leap,
     hStart |-> regs.hStart, xScale |-> regs.xScale, origin |-> regs.origin[f],
     yScale |-> regs.yScale[f], vStart |-> regs.vStart[f], vBurst |-> regs.vBurst[f]]

-----------------------------------------------------------------------------
IsWord(w) == w.hi \in 0 .. Width16 - 1 /\ w.lo \in 0 .. Width16 - 1

(* Every register is in its range. *)
TypeOK ==
    /\ tvType \in TvTypes
    /\ applied \in BOOLEAN
    /\ next.custom \in BOOLEAN /\ (applied => next.custom)
    /\ \A w \in {regs.burst, regs.hSync, regs.leap, regs.hStart} : IsWord(w)
    /\ \A f \in 0 .. 1 :
          IsWord(regs.vStart[f]) /\ IsWord(regs.vBurst[f]) /\ IsWord(regs.yScale[f])

(* The anti-aliasing field of the modes of libultra, by the second and the last two
   letters of their names: P or A, then N or F and 1 or 2, for L and for H.  *)
LibultraAntialias(m) ==
    LET name == <<IF m.antialiasOff THEN "P" ELSE "A", IF m.modeN THEN "N" ELSE "F",
                  IF m.fb16Bit THEN 1 ELSE 2>>
    IN  IF m.loRes /\ name = <<"A", "N", 1>> THEN {"ANTIALIAS_MODE_1"}
        ELSE IF name \in {<<"P", "N", 1>>, <<"P", "F", 1>>, <<"P", "F", 2>>} THEN {"ANTIALIAS_MODE_2"}
        ELSE IF name = <<"P", "N", 2>> THEN {"ANTIALIAS_MODE_3"}
        ELSE {}

(* The timing of the modes of libultra: vSync, hSync, leap, hStart, the burst, then
   vStart and vBurst of the two fields, each number by itself.  That of PAL is
   not libultra's but this game's own.                                       *)
Numbers(tv, deinterlaced) ==
    CASE tv = "NTSC" /\ deinterlaced ->
           <<525, <<3093, 0>>, <<3093, 3093>>, <<108, 748>>, <<57, 34, 5, 62>>,
             <<37, 511>>, <<37, 511>>, <<4, 2, 14, 0>>, <<4, 2, 14, 0>> >>
      [] tv = "NTSC" /\ ~deinterlaced ->
           <<524, <<3093, 0>>, <<3093, 3093>>, <<108, 748>>, <<57, 34, 5, 62>>,
             <<35, 509>>, <<37, 511>>, <<4, 2, 14, 0>>, <<4, 2, 14, 0>> >>
      [] tv = "MPAL" /\ deinterlaced ->
           <<525, <<3089, 4>>, <<3097, 3098>>, <<108, 748>>, <<57, 30, 5, 70>>,
             <<37, 511>>, <<37, 511>>, <<4, 2, 14, 0>>, <<4, 2, 14, 0>> >>
      [] tv = "MPAL" /\ ~deinterlaced ->
           <<524, <<3088, 0>>, <<3100, 3100>>, <<108, 748>>, <<57, 30, 5, 70>>,
             <<35, 509>>, <<37, 511>>, <<2, 2, 11, 0>>, <<4, 2, 14, 0>> >>
      [] tv = "PAL" /\ deinterlaced ->
           <<625, <<3177, 21>>, <<3183, 3182>>, <<128, 768>>, <<58, 35, 4, 64>>,
             <<95, 569>>, <<95, 569>>, <<107, 2, 9, 0>>, <<107, 2, 9, 0>> >>
      [] tv = "PAL" /\ ~deinterlaced ->
           <<624, <<3177, 21>>, <<3183, 3182>>, <<128, 768>>, <<58, 35, 4, 64>>,
             <<93, 567>>, <<95, 569>>, <<107, 2, 9, 0>>, <<105, 2, 12, 0>> >>

Halves(w) == <<w.hi, w.lo>>
BurstFields(w) == <<w.lo % 256, w.lo \div 256, w.hi % 16, w.hi \div 16>>

(* The hardware gets the timing of the modes of libultra for the TV and the
   interlacing chosen, except that every edge of the picture is exactly as much
   displaced as was asked for: no number in a register has disturbed another. *)
TimingShown ==
    applied =>
        \A f \in 0 .. 1 :
           LET n == Numbers(tvType, Deinterlaced(viMode))
               start == n[6 + f]
               shown == Shown(f)
           IN  /\ shown.vSync = n[1]
               /\ <<shown.hSync.lo, shown.hSync.hi>> = n[2]
               /\ Halves(shown.leap) = n[3]
               /\ Halves(shown.hStart)
                    = <<n[4][1] + viMode.leftAdjust, n[4][2] + viMode.rightAdjust>>
               /\ BurstFields(shown.burst) = n[5]
               /\ Halves(shown.vStart)
                    = <<start[1] + viMode.upperAdjust, start[2] + viMode.lowerAdjust>>
               /\ BurstFields(shown.vBurst) = n[8 + f]

(* Whatever the window, its lines are not stretched: scanning on by one line, the
   hardware goes on by one line of the frame buffer, in some modes by half a line
   of twice the width.                                                       *)
LinesShown ==
    applied => \A f \in 0 .. 1 : Shown(f).width * Shown(f).yScale.lo = 1024 * viMode.viWidth

(* A feature that was asked for is there, one that was turned off is not, and the
   rest is as in the mode of libultra the settings name.                      *)
ControlShown ==
    applied =>
        LET m == viMode
            features == m.viFeatures
            filtered == "DITHER_FILTER_ON" \in features /\ "DITHER_FILTER_OFF" \notin features
        IN  next.control =
              {"PIXEL_ADV_3"}
                \cup When("GAMMA_OFF" \notin features, "GAMMA_ON")
                \cup When("GAMMA_DITHER_OFF" \notin features, "GAMMA_DITHER_ON")
                \cup When("DIVOT_OFF" \notin features
                            /\ ("DIVOT_ON" \in features \/ ~m.antialiasOff), "DIVOT_ON")
                \cup When(~Deinterlaced(m), "SERRATE_ON")
                \cup {IF m.fb16Bit THEN "TYPE_16" ELSE "TYPE_32"}
                \cup (IF filtered THEN {"DITHER_FILTER_ON"} ELSE LibultraAntialias(m))

(* vimode.c:305-315: after func_8007EE28 all of the mode is what was asked for. *)
ModeShown == TypeOK /\ TimingShown /\ LinesShown /\ ControlShown
=============================================================================
