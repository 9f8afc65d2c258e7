------------------------------- MODULE GfxPrint -------------------------------
(***************************************************************************)
(* The text printer of src/main/O2/gfxprint.c: a gfxprint keeps a pen, a   *)
(* colour and drawing modes, and turns characters into commands appended   *)
(* to a display list, which the RDP executes in that order.  To spare      *)
(* commands, the RDP's mode is only set by the first glyph after a change  *)
(* (isChanged) and its primitive colour only when the colour is given, so  *)
(* a glyph is drawn by a mode and a colour set many calls before.          *)
(*                                                                         *)
(* Of the RDP the model keeps its mode and its primitive colour as they    *)
(* are at the end of the list written so far.  Horizontal positions are    *)
(* kept modulo Tab: the code only ever compares them modulo 256, which     *)
(* divides 2^32.  Vertical positions and the shape of glyphs are left out. *)
(***************************************************************************)
EXTENDS Integers

CONSTANTS
    Columns,    \* the columns callers give to locate and setoffset
    Colours     \* the colours callers give to gfxprint_color

Tab == 256      \* 8 glyphs, in quarters of a pixel
Glyph == 32     \* width of a glyph
Black == 0      \* the colour of shadows, and of a new gfxprint

\* An s32 each.
ASSUME ColumnsAssumption == Columns \subseteq Int

VARIABLES
    isOpen, isGradient, isChanged,  \* the flags of the gfxprint; isShadow is
                                    \*   set by gfxprint_init and never cleared
    color,          \* its colour
    posX, offsetX,  \* the pen and the left margin
    inTab,          \* gfxprint_putc is in the loop of a tab
    rdp,            \* mode and primitive colour of the RDP
    reopened,       \* history: the list was opened with isChanged clear, and
                    \*   no call has set isChanged since
    shown           \* history: mode and colour the last call drew a glyph with

pen == <<posX, offsetX>>
vars == <<isOpen, isGradient, isChanged, color, pen, inTab, rdp, reopened, shown>>

\* Modes of the RDP: the two of gfxprint_putc1, the one gfxprint_setup leaves,
\* which is neither, and any other.
Modes == {"plain", "gradient", "setup", "other"}
Rdp == [mode : Modes, prim : Colours \cup {Black}]
NoGlyph == [mode |-> "other", prim |-> Black, drawn |-> FALSE]

Init ==
    /\ isOpen = FALSE
    /\ isGradient = FALSE
    /\ isChanged = TRUE
    /\ color = Black
    /\ posX = 0
    /\ offsetX = 0
    /\ inTab = FALSE
    /\ rdp \in Rdp
    /\ reopened = FALSE
    /\ shown = NoGlyph

Calling == ~inTab /\ shown' = NoGlyph
Printing == isOpen /\ Calling

\* gfxprint_init, of a gfxprint in any state.
InitPrint ==
    /\ Calling
    /\ isOpen' = FALSE
    /\ isGradient' = FALSE
    /\ isChanged' = TRUE
    /\ color' = Black
    /\ posX' = 0
    /\ offsetX' = 0
    /\ reopened' = FALSE
    /\ UNCHANGED <<inTab, rdp>>

\* While no list is open the rest of the game draws.
Others ==
    /\ ~isOpen
    /\ Calling
    /\ rdp' \in Rdp
    /\ UNCHANGED <<isOpen, isGradient, isChanged, color, pen, inTab, reopened>>

\* gfxprint_setup.
Setup == [mode |-> "setup", prim |-> color]

\* gfxprint_open, of a gfxprint in any state; a second one changes nothing.
Open ==
    /\ Calling
    /\ IF isOpen THEN UNCHANGED <<isOpen, rdp, reopened>>
                 ELSE isOpen' = TRUE /\ rdp' = Setup /\ reopened' = ~isChanged
    /\ UNCHANGED <<isGradient, isChanged, color, pen, inTab>>

\* gfxprint_close.
Close ==
    /\ Calling
    /\ isOpen' = FALSE
    /\ UNCHANGED <<isGradient, isChanged, color, pen, inTab, rdp, reopened>>

\* gfxprint_color.
SetColor(c) ==
    /\ Printing
    /\ color' = c
    /\ rdp' = [rdp EXCEPT !.prim = c]
    /\ UNCHANGED <<isOpen, isGradient, isChanged, pen, inTab, reopened>>

\* Columns are pixels, positions quarters of a pixel.
Quarters(x) == 4 * x

\* gfxprint_locate.
Locate(x) ==
    /\ Calling
    /\ posX' = (offsetX + Quarters(x)) % Tab
    /\ UNCHANGED <<isOpen, isGradient, isChanged, color, offsetX, inTab, rdp, reopened>>

\* gfxprint_setoffset: the pen stays where it is.
SetOffset(x) ==
    /\ Calling
    /\ offsetX' = Quarters(x) % Tab
    /\ UNCHANGED <<isOpen, isGradient, isChanged, color, posX, inTab, rdp, reopened>>

-----------------------------------------------------------------------------
(* Characters. *)

\* The mode the glyph is drawn in.
ModeSet == IF ~isChanged THEN rdp.mode
           ELSE IF isGradient THEN "gradient" ELSE "plain"

\* The primitive colour after the shadow, which is black, was drawn.
AfterShadow == color

\* gfxprint_putc1.
PutGlyph ==
    /\ isChanged' = FALSE
    /\ rdp' = [mode |-> ModeSet, prim |-> AfterShadow]
    /\ shown' = [mode |-> rdp'.mode, prim |-> rdp'.prim, drawn |-> TRUE]
    /\ posX' = (posX + Glyph) % Tab
    /\ UNCHANGED <<isOpen, isGradient, color, offsetX, reopened>>

\* gfxprint_putc of a character with a glyph.
PutChar ==
    /\ isOpen /\ ~inTab
    /\ PutGlyph
    /\ UNCHANGED inTab

\* The margin is forgotten: what PutTab could be.
PutTabAbsolute ==
    /\ isOpen
    /\ PutGlyph
    /\ inTab' = (posX' % Tab # 0)

\* One turn of the loop of a tab: a blank, and the test.
PutTab ==
    /\ isOpen
    /\ PutGlyph
    /\ inTab' = ((posX' - offsetX) % Tab # 0)

\* A line feed or a carriage return.
PutReturn ==
    /\ Printing
    /\ posX' = offsetX
    /\ UNCHANGED <<isOpen, isGradient, isChanged, color, offsetX, inTab, rdp, reopened>>

\* Without setChanged: what PutGradient could be.
PutGradientOnly(on) ==
    /\ Printing
    /\ isGradient' = on
    /\ reopened' = FALSE
    /\ UNCHANGED <<isOpen, isChanged, color, pen, inTab, rdp>>

\* GFXPRINT_ENABLE_GRADIENT_CHAR and GFXPRINT_CLEAR_GRADIENT_CHAR.
PutGradient(on) ==
    /\ Printing
    /\ isGradient' = on
    /\ isChanged' = TRUE
    /\ reopened' = FALSE
    /\ UNCHANGED <<isOpen, color, pen, inTab, rdp>>

Next ==
    \/ InitPrint \/ Others \/ Open \/ Close
    \/ \E c \in Colours : SetColor(c)
    \/ \E x \in Columns : Locate(x) \/ SetOffset(x)
    \/ PutChar \/ PutTab \/ PutReturn
    \/ \E on \in BOOLEAN : PutGradient(on)

\* The loop of a tab is left to itself: nothing keeps its thread from running.
Spec == Init /\ [][Next]_vars /\ WF_vars(inTab /\ PutTab)

-----------------------------------------------------------------------------
(* Properties. *)

\* Everything has its type; a tab is only under way in an open list.
TypeOK ==
    /\ isOpen \in BOOLEAN /\ isGradient \in BOOLEAN /\ isChanged \in BOOLEAN
    /\ inTab \in BOOLEAN /\ reopened \in BOOLEAN
    /\ color \in Colours \cup {Black}
    /\ posX \in 0 .. Tab - 1 /\ offsetX \in 0 .. Tab - 1
    /\ inTab => isOpen
    /\ rdp \in Rdp
    /\ shown \in [mode : Modes, prim : Colours \cup {Black}, drawn : BOOLEAN]

ModeAsked == IF isGradient THEN "gradient" ELSE "plain"

\* What every call relies on and leaves (:36, :55-63, :85-112, :155-165,
\* :214-230): in an open list the RDP holds the colour and, unless isChanged says
\* it has to be sent, the mode.  A list opened by a gfxprint that drew before
\* keeps the mode of gfxprint_setup until the mode is asked for again.
PrintInv ==
    /\ TypeOK
    /\ reopened => ~isChanged
    /\ isOpen => rdp.prim = color
    /\ isOpen /\ ~isChanged => rdp.mode = IF reopened THEN "setup" ELSE ModeAsked

\* gfxprint_putc1, the gradient characters, gfxprint_setup and gfxprint_color
\* (:36, :55-63, :85-106, :155-165): each glyph is drawn in the colour last given,
\* in this list or in one before, and in the mode last asked for, though the mode
\* is only sent when isChanged says so; but after a gfxprint that drew is opened
\* again (:214-219), in the mode of gfxprint_setup.
GlyphAsAsked ==
    shown.drawn => /\ shown.mode = IF reopened THEN "setup" ELSE ModeAsked
                   /\ shown.prim = color

\* What a glyph is drawn by is set many calls before, and still right.
PrinterInv == PrintInv /\ GlyphAsAsked

\* The pen is whole glyphs away from the margin.
InStep == (posX - offsetX) % Glyph = 0

\* gfxprint_putc (:138-143): the loop of a tab ends when the pen is whole glyphs
\* away from the margin, and otherwise, whatever is printed, never: columns that
\* are no multiples of eight pixels, which gfxprint_locate and gfxprint_setoffset
\* (:65-77) take, can stop the thread.
TabEnds ==
    /\ inTab /\ InStep ~> ~inTab
    /\ [](inTab /\ ~InStep => []inTab)

=============================================================================
