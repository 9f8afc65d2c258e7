--------------------------------- MODULE ViMgr ---------------------------------
(***************************************************************************)
(* The VI manager of libultra and those who use it: the game, which makes     *)
(* itself video modes (src/main/vimode.c) and swaps its frame buffers, and    *)
(* the crash screen (src/main/fault.c).                                      *)
(*                                                                         *)
(* Two contexts take turns, __osViNext, which the calls change with           *)
(* interrupts off, and __osViCurr.  At each retrace the manager, of the       *)
(* highest priority, programs the hardware from the one, swaps them, and      *)
(* copies one to the other.  A context points to a mode, the game's own one   *)
(* is rewritten in place, and the rewriting may be cut in two by a retrace.   *)
(* ViMode has what the registers are.                                        *)
(***************************************************************************)
EXTENDS Integers

CONSTANTS
    Windows,    \* what func_8007EE28 may be asked for
    Frames,     \* frame buffers
    High,       \* those at or above 0x80100000
    FaultFrame, \* the one at the end of the memory
    Counts,     \* retraces from one message to the next
    Wrap        \* 2^16: the values of "retrace"

Unmade == "unmade"

ASSUME ViAssumption ==
    /\ High \subseteq Frames /\ FaultFrame \in High /\ Frames # High
    /\ Counts # {} /\ Counts \subseteq 1 .. Wrap - 1 /\ Wrap \in Nat
    /\ Unmade \notin Windows

VARIABLES
    vi,         \* the two contexts
    curr,       \* which of them is __osViCurr
    custom,     \* customViMode, in two halves
    hw,         \* the registers of the video interface
    retrace,    \* "retrace" of viMgrMain
    mail,       \* messages in the game's queue, which holds one
    pc,         \* where the game is in func_8007EE28; "crashed"
    fpc,        \* where the fault thread is
    fb,         \* debugger.framebuf
    since,      \* history: retraces since the game was told of one
    settled,    \* history: there was a retrace since the last call
    swap,       \* history: a buffer was about to be shown when the fault thread first
                \* looked: "none"; "made", it is since; or "due", it is not yet
    disturbed   \* history: the game blacked the screen or swapped its buffers since

vars == <<vi, curr, custom, hw, retrace, mail, pc, fpc, fb, since, settled, swap, disturbed>>

game == <<custom, pc>>
manager == <<curr, hw, retrace, mail, since>>
fault == <<fpc, fb, swap>>

next == 1 - curr

\* The halves of the mode a context points to.
Lines(c, m) == IF c.mode = "custom" THEN m ELSE [first |-> c.mode, second |-> c.mode]

\* __osViSwapContext up to the swap: the registers are read through the pointer,
\* the control register from the context.
Programmed(c, m) ==
    [lines |-> Lines(c, m), control |-> c.control, black |-> c.black, frame |-> c.frame]

\* __osViInit, then Idle_ThreadEntry, which sets a mode of libultra.
Init ==
    \E f \in Frames \ High :
       LET c == [mode |-> "libultra", control |-> "special", black |-> TRUE, frame |-> f,
                 told |-> FALSE, count |-> 1]
       IN  /\ vi = [i \in 0 .. 1 |-> c] /\ curr = 0
           /\ custom = [first |-> Unmade, second |-> Unmade]
           /\ hw = Programmed(c, custom)
           /\ retrace = 1 /\ mail = 0
           /\ pc = "idle" /\ fpc = "wait" /\ fb = FaultFrame
           /\ since = 0 /\ settled = TRUE /\ swap = "none" /\ disturbed = FALSE

-----------------------------------------------------------------------------
(* Calls of the game.  Its threads have a lower priority than the fault thread: they
   run while it waits for an event, a button or a moment (fault.c:523-531).   *)

GameRuns == fpc \in {"wait", "draw"}

Set(c) ==
    /\ vi' = [vi EXCEPT ![next] = c]
    /\ settled' = FALSE

\* func_8007EE28: ViMode_Configure and ViMode_ConfigureFeatures, cut in two.
Rewrite(w) ==
    /\ GameRuns /\ pc = "idle"
    /\ custom' = [custom EXCEPT !.first = w]
    /\ pc' = "rewriting"
    /\ settled' = FALSE
    /\ UNCHANGED <<vi, manager, fault, disturbed>>

Rewritten ==
    /\ GameRuns /\ pc = "rewriting"
    /\ custom' = [custom EXCEPT !.second = custom.first]
    /\ pc' = "mode"
    /\ settled' = FALSE
    /\ UNCHANGED <<vi, manager, fault, disturbed>>

\* osViSetMode, which also ends a black screen.
SetMode ==
    /\ GameRuns /\ pc = "mode"
    /\ Set([vi[next] EXCEPT !.mode = "custom", !.control = "plain", !.black = FALSE])
    /\ pc' = "features"
    /\ UNCHANGED <<custom, manager, fault, disturbed>>

SetSpecialFeatures ==
    /\ GameRuns /\ pc = "features"
    /\ Set([vi[next] EXCEPT !.control = "special"])
    /\ pc' = "idle"
    /\ UNCHANGED <<custom, manager, fault, disturbed>>

\* osViBlack, osViSwapBuffer, osViSetEvent.
Black(b) ==
    /\ GameRuns /\ pc = "idle"
    /\ Set([vi[next] EXCEPT !.black = b])
    /\ disturbed' = TRUE
    /\ UNCHANGED <<game, manager, fault>>

SwapBuffer(f) ==
    /\ GameRuns /\ pc = "idle"
    /\ Set([vi[next] EXCEPT !.frame = f])
    /\ disturbed' = TRUE
    /\ UNCHANGED <<game, manager, fault>>

SetEvent(n) ==
    /\ GameRuns /\ pc = "idle"
    /\ Set([vi[next] EXCEPT !.told = TRUE, !.count = n])
    /\ UNCHANGED <<game, manager, fault, disturbed>>

Receive ==
    /\ GameRuns /\ pc = "idle" /\ mail = 1
    /\ mail' = 0
    /\ UNCHANGED <<vi, curr, hw, retrace, since, game, fault, settled, disturbed>>

\* The thread that makes these calls crashes: within the divisions of
\* ViMode_Configure, or between two calls.
Crash ==
    /\ GameRuns /\ pc \in {"idle", "rewriting"}
    /\ pc' = "crashed"
    /\ UNCHANGED <<vi, custom, manager, fault, settled, disturbed>>

-----------------------------------------------------------------------------
(* The fault thread, in each round of its screens. *)

\* The buttons were pressed after a crash of this or another thread; or the next
\* round begins.
BeginRound ==
    /\ fpc \in {"wait", "draw"}
    /\ fpc' = "unblack"
    /\ UNCHANGED <<vi, game, manager, fb, swap, settled, disturbed>>

Unblack ==
    /\ fpc = "unblack"
    /\ Set([vi[next] EXCEPT !.black = FALSE])
    /\ fpc' = "look"
    /\ disturbed' = FALSE
    /\ UNCHANGED <<game, manager, fb, swap>>

\* Variant: whatever buffer is shown will do.
LookAway ==
    /\ fpc = "look"
    /\ fpc' = "note"
    /\ swap' = IF vi[next].frame = vi[curr].frame THEN "none" ELSE "due"
    /\ UNCHANGED <<vi, game, manager, fb, settled, disturbed>>

\* Fault_DisplayFramebuffer draws in the buffer that is shown, unless that is low.
\* It asks twice which one that is.
Look ==
    /\ fpc = "look"
    /\ IF vi[curr].frame \in High
       THEN /\ fpc' = "note"
            /\ swap' = IF vi[next].frame = vi[curr].frame THEN "none" ELSE "due"
       ELSE /\ fpc' = "replace"
            /\ swap' = "none"
    /\ UNCHANGED <<vi, game, manager, fb, settled, disturbed>>

Note ==
    /\ fpc = "note"
    /\ fb' = vi[curr].frame
    /\ swap' = IF swap = "due" /\ vi[next].frame = vi[curr].frame THEN "made" ELSE swap
    /\ fpc' = "draw"
    /\ UNCHANGED <<vi, game, manager, settled, disturbed>>

Replace ==
    /\ fpc = "replace"
    /\ fb' = FaultFrame
    /\ Set([vi[next] EXCEPT !.frame = FaultFrame])
    /\ fpc' = "draw"
    /\ UNCHANGED <<game, manager, swap, disturbed>>

-----------------------------------------------------------------------------
(* viMgrMain at a VRETRACE message. *)

\* Variant: the context that was shown is not brought up to date.
SwapOnly ==
    /\ hw' = Programmed(vi[next], custom)
    /\ curr' = next
    /\ UNCHANGED vi

\* Variant: what is copied is the context that was shown.
CopyBack ==
    /\ hw' = Programmed(vi[next], custom)
    /\ curr' = next
    /\ vi' = [vi EXCEPT ![next] = vi[curr]]

SwapContext ==
    /\ hw' = Programmed(vi[next], custom)
    /\ curr' = next
    /\ vi' = [vi EXCEPT ![curr] = vi[next]]

\* Variant: the count is not taken again.
CountOn ==
    LET left == (retrace - 1) % Wrap
        told == left = 0 /\ vi[next].told
    IN  /\ retrace' = left
        /\ mail' = IF told THEN 1 ELSE mail
        /\ since' = IF told \/ ~vi[next].told THEN 0 ELSE since + 1

\* The game is told, unless its queue is full, and the count is taken again.
CountDown ==
    LET left == (retrace - 1) % Wrap
        told == left = 0 /\ vi[next].told
    IN  /\ retrace' = IF left = 0 THEN vi[next].count ELSE left
        /\ mail' = IF told THEN 1 ELSE mail
        /\ since' = IF told \/ ~vi[next].told THEN 0 ELSE since + 1

Retrace ==
    /\ SwapContext
    /\ CountDown
    /\ settled' = TRUE
    /\ UNCHANGED <<game, fault, disturbed>>

Call == \/ \E w \in Windows : Rewrite(w)
        \/ Rewritten \/ SetMode \/ SetSpecialFeatures
        \/ \E b \in BOOLEAN : Black(b)
        \/ \E f \in Frames : SwapBuffer(f)
        \/ \E n \in Counts : SetEvent(n)

Screen == BeginRound \/ Unblack \/ Look \/ Note \/ Replace

Next == Call \/ Receive \/ Crash \/ Screen \/ Retrace

Spec == Init /\ [][Next]_vars

-----------------------------------------------------------------------------
Halves == Windows \cup {Unmade, "libultra"}

Pictures == [lines : [first : Halves, second : Halves], control : {"plain", "special"},
             black : BOOLEAN, frame : Frames]

TypeOK ==
    /\ vi \in [0 .. 1 -> [mode : {"libultra", "custom"}, control : {"plain", "special"},
                          black : BOOLEAN, frame : Frames, told : BOOLEAN,
                          count : Counts \cup {1}]]
    /\ curr \in 0 .. 1
    /\ custom \in [first : Windows \cup {Unmade}, second : Windows \cup {Unmade}]
    /\ hw \in Pictures
    /\ retrace \in 0 .. Wrap - 1 /\ mail \in 0 .. 1
    /\ pc \in {"idle", "rewriting", "mode", "features", "crashed"}
    /\ fpc \in {"wait", "unblack", "look", "note", "replace", "draw"}
    /\ fb \in Frames /\ since \in Nat
    /\ settled \in BOOLEAN /\ disturbed \in BOOLEAN
    /\ swap \in {"none", "made", "due"}

Service == INSTANCE ViService WITH
    asked <- Programmed(vi[next], custom), shown <- hw

\* viswapcontext.c:34-79: what one call asked for is not undone by the swap of the
\* contexts, and is shown from the next retrace on with all that was asked before.
ViServiceSpec == Service!Spec

\* vimode.c:305-314: a retrace within func_8007EE28 shows half of a mode, or one
\* without its features; once the call is over the next one shows all of it, and of
\* a mode that is not the game's there is never half.
WholeMode ==
    /\ TypeOK
    /\ settled /\ pc = "idle" => /\ hw.control = "special"
                                 /\ hw.lines.first = hw.lines.second
                                 /\ hw.lines.first # Unmade
    /\ hw.lines.first # hw.lines.second => vi[curr].mode = "custom"

\* vimgr.c:93-104: the game is told of a retrace in time, also when it changes how
\* often: after as many retraces as it ever asked for at most.
ToldInTime == \E n \in Counts \cup {1} : since < n

\* fault.c:652-660: the crash screen is on the screen after one retrace, also if
\* that was black or showed a buffer the game draws in by other means, until a thread
\* that still runs blacks the screen or swaps buffers; except when another buffer was
\* about to be shown and still is when the fault thread looks for the second time.
\* It is in a high buffer, unless another one came between the two looks.
CrashIsSeen ==
    fpc = "draw" /\ settled /\ ~disturbed =>
        /\ swap # "due" => hw.frame = fb /\ ~hw.black
        /\ swap = "none" => fb \in High

==============================================================================
