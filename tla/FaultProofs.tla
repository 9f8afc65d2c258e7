---------------------------- MODULE FaultProofs -----------------------------
(* What FaultMgr keeps for any threads, any table of overlays and any length of
   a page: who crashed stays down and gets on the screen, and every page shows
   what the one before it left.  And what FaultCombo keeps for any way to hold
   the buttons and any time allowed: the sequence opens the screen, and nothing
   else does.                                                                *)
EXTENDS Fault, WellFoundedInduction, TLAPS

-----------------------------------------------------------------------------
(* Minima: those of the walk through the queue of threads and through the
   table of overlays.                                                        *)
LEMMA MinIsLeast ==
    ASSUME NEW S, S \subseteq Nat, S # {}
    PROVE  Min(S) \in S /\ \A n \in S : Min(S) <= n
<1>1. PICK m \in S : \A n \in S : ~ (<<n, m>> \in OpToRel(<, Nat))
  BY NatLessThanWellFounded, WFMin, Zenon
<1>2. \A n \in S : m <= n
  <2> SUFFICES ASSUME NEW n \in S
               PROVE  ~ (n < m)
    BY SMT
  <2>1. n \in Nat /\ m \in Nat
    OBVIOUS
  <2>2. n < m => <<n, m>> \in OpToRel(<, Nat)
    BY <2>1 DEF OpToRel
  <2> QED
    BY <1>1, <2>2
<1> QED
  BY <1>2 DEF Min

(* FindFaultedThread returns no thread, or one that has something to show. *)
LEMMA FindFinds ==
    ASSUME FaultAssumption, Find # None
    PROVE  Find \in Threads /\ flags[Find] # 0
<1>1. Faulty # {} /\ Faulty \subseteq Nat
  BY DEF Find, Faulty, Places, FaultAssumption
<1>2. Min(Faulty) \in Faulty
  BY <1>1, MinIsLeast
<1> QED
  BY <1>1, <1>2 DEF Find, Faulty, Threads

(* A page ends behind its begin, or at the end of the table. *)
LEMMA PageEndType ==
    ASSUME FaultAssumption, NEW from \in 0 .. Count
    PROVE  PageEnd(from) \in from .. Count
<1>1. CASE Full(from) # {}
  <2>1. Full(from) \subseteq from .. Count /\ Full(from) \subseteq Nat
    BY DEF Full, FaultAssumption
  <2>2. Min(Full(from)) \in Full(from)
    BY <1>1, <2>1, MinIsLeast
  <2> QED
    BY <1>1, <2>1, <2>2 DEF PageEnd
<1>2. CASE Full(from) = {}
  BY <1>2 DEF PageEnd, FaultAssumption
<1> QED
  BY <1>1, <1>2

-----------------------------------------------------------------------------
(* The pages: nothing that is to come was drawn, and what stayed loaded and is
   no longer to come was.                                                    *)
PagesInv ==
    /\ steady \subseteq loaded
    /\ \A i \in Entries : drawn[i] \in {0, 1}
    /\ \A i \in Entries : first <= i => drawn[i] = 0
    /\ \A i \in steady : i < first => drawn[i] = 1
    /\ fpc \notin {"receive", "combo", "overlays"} => first = Count

(* libultra never forgets a thread that crashed, and a flag is never taken back. *)
FlagStays == faulted # None => flags[faulted] # 0

Inv == FaultInv /\ FlagStays /\ PagesInv

LEMMA InitInv ==
    ASSUME FaultAssumption, Init
    PROVE  Inv
<1>1. TypeOK
  <2>1. stopped \in [Threads -> BOOLEAN] /\ atBreak \in [Threads -> BOOLEAN]
    BY DEF Init
  <2>2. flags \in [Threads -> {0, CPU_BREAK, FAULT}]
    BY DEF Init
  <2>3. queue = <<>> /\ msgId = 0 /\ exit = FALSE /\ fpc = "receive" /\ shown = None
        /\ faulted = None /\ seen = {} /\ steady = {}
    BY DEF Init
  <2>4. drawn \in [Entries -> Nat] /\ loaded \subseteq Entries
    BY DEF Init
  <2>5. first \in 0 .. Count
    BY DEF Init, FaultAssumption
  <2> QED
    BY <2>1, <2>2, <2>3, <2>4, <2>5 DEF TypeOK
<1>2. NeverRunsOn /\ ShownIsFaulty /\ LastCrashPending /\ FlagStays
  BY DEF Init, NeverRunsOn, ShownIsFaulty, LastCrashPending, FlagStays
<1>3. PagesInv
  BY DEF Init, PagesInv
<1> QED
  BY <1>1, <1>2, <1>3 DEF Inv, FaultInv

(* Drawing the page that begins where the last one ended, or at the table's
   begin, keeps the pages in order.                                          *)
LEMMA DrawsPage ==
    ASSUME FaultAssumption, Inv, NEW from \in {0, first}, DrawPage(from), loaded' = loaded,
           fpc' = "overlays"
    PROVE  /\ PagesInv' /\ first' \in 0 .. Count
           /\ drawn' \in [Entries -> Nat] /\ steady' \subseteq Entries
<1>1. /\ first \in 0 .. Count /\ Count \in Nat /\ loaded \subseteq 0 .. Count - 1
      /\ steady \subseteq Entries /\ drawn \in [Entries -> Nat] /\ Entries = 0 .. Count - 1
  BY DEF Inv, FaultInv, TypeOK, FaultAssumption, Entries
<1>2. from \in 0 .. Count
  BY <1>1
<1>3. first' \in from .. Count /\ first' = PageEnd(from)
  BY <1>2, PageEndType DEF DrawPage
<1>4. \A i \in Entries :
         drawn'[i] = (IF from = 0 THEN 0 ELSE drawn[i])
                       + (IF i \in loaded /\ from <= i /\ i < first' THEN 1 ELSE 0)
  BY <1>3, Zenon DEF DrawPage, Draw, Page
<1>5. drawn' \in [Entries -> Nat]
  <2>1. drawn' = [i \in Entries |-> (IF from = 0 THEN 0 ELSE drawn[i])
                                      + (IF i \in Page(from) THEN 1 ELSE 0)]
    BY DEF DrawPage, Draw
  <2>2. \A i \in Entries : (IF from = 0 THEN 0 ELSE drawn[i])
                              + (IF i \in Page(from) THEN 1 ELSE 0) \in Nat
    BY <1>1
  <2> QED
    BY <2>1, <2>2
<1>6. steady' = IF from = 0 THEN loaded ELSE steady
  BY DEF DrawPage, Draw
<1>7. from # 0 => from = first
  OBVIOUS
<1>8. \A i \in Entries : drawn'[i] \in {0, 1} /\ (first' <= i => drawn'[i] = 0)
  <2> SUFFICES ASSUME NEW i \in Entries
               PROVE  drawn'[i] \in {0, 1} /\ (first' <= i => drawn'[i] = 0)
    OBVIOUS
  <2>1. i \in Int /\ first \in Int /\ first' \in Int /\ from \in Int /\ from <= first'
    BY <1>1, <1>2, <1>3
  <2>2. drawn[i] \in {0, 1} /\ (first <= i => drawn[i] = 0)
    BY DEF Inv, PagesInv
  <2>3. drawn'[i] = (IF from = 0 THEN 0 ELSE drawn[i])
                      + (IF i \in loaded /\ from <= i /\ i < first' THEN 1 ELSE 0)
    BY <1>4
  <2> QED
    BY <1>7, <2>1, <2>2, <2>3
<1>9. \A i \in steady' : i < first' => drawn'[i] = 1
  <2> SUFFICES ASSUME NEW i \in steady', i < first'
               PROVE  drawn'[i] = 1
    OBVIOUS
  <2>1. i \in Entries /\ i \in loaded /\ (from # 0 => i \in steady)
    BY <1>1, <1>6 DEF Inv, PagesInv
  <2>2. i \in Nat /\ first \in Int /\ first' \in Int
    BY <1>1, <1>3, <2>1
  <2>3. drawn'[i] = (IF from = 0 THEN 0 ELSE drawn[i])
                      + (IF i \in loaded /\ from <= i /\ i < first' THEN 1 ELSE 0)
    BY <1>4, <2>1
  <2>4. from # 0 => (i < first => drawn[i] = 1) /\ (first <= i => drawn[i] = 0)
    BY <2>1 DEF Inv, PagesInv
  <2> QED
    BY <1>7, <2>1, <2>2, <2>3, <2>4
<1>10. steady' \subseteq loaded'
  BY <1>6 DEF Inv, PagesInv
<1> QED
  BY <1>1, <1>3, <1>5, <1>8, <1>9, <1>10 DEF PagesInv

-----------------------------------------------------------------------------
(* A step of the threads. *)
LEMMA CrashKeeps == ASSUME FaultAssumption, Inv, NEW t \in Threads, Crash(t) PROVE Inv'
<1> USE DEF Inv, FaultInv, Crash
<1>1. TypeOK'
  BY DEF TypeOK, Post, threads, screen, FAULT, CPU_BREAK
<1>2. NeverRunsOn'
  BY DEF NeverRunsOn, TypeOK
<1>3. ShownIsFaulty'
  BY DEF ShownIsFaulty, TypeOK, FAULT
<1>4. LastCrashPending' /\ FlagStays'
  BY DEF LastCrashPending, FlagStays, Post, TypeOK, FAULT, CPU_BREAK
<1>5. PagesInv'
  BY DEF PagesInv, screen
<1> QED
  BY <1>1, <1>2, <1>3, <1>4, <1>5

LEMMA BreakKeeps == ASSUME FaultAssumption, Inv, NEW t \in Threads, Break(t) PROVE Inv'
<1> USE DEF Inv, FaultInv, Break
<1>1. TypeOK'
  BY DEF TypeOK, Post, screen, FAULT, CPU_BREAK
<1>2. NeverRunsOn'
  BY DEF NeverRunsOn, TypeOK
<1>3. ShownIsFaulty'
  BY DEF ShownIsFaulty, TypeOK, CPU_BREAK
<1>4. LastCrashPending' /\ FlagStays'
  BY DEF LastCrashPending, FlagStays, Post, TypeOK, FAULT, CPU_BREAK
<1>5. PagesInv'
  BY DEF PagesInv, screen
<1> QED
  BY <1>1, <1>2, <1>3, <1>4, <1>5

(* What is unloaded and loaded again was not there all the while. *)
LEMMA OverlayKeeps ==
    ASSUME FaultAssumption, Inv, NEW t \in Threads, NEW i \in Entries, Overlay(t, i)
    PROVE  Inv'
<1> USE DEF Inv, FaultInv, Overlay
<1>1. TypeOK'
  BY DEF TypeOK, threads
<1>2. NeverRunsOn' /\ ShownIsFaulty' /\ LastCrashPending' /\ FlagStays'
  BY DEF NeverRunsOn, ShownIsFaulty, LastCrashPending, FlagStays, threads
<1>3. PagesInv'
  BY DEF PagesInv
<1> QED
  BY <1>1, <1>2, <1>3

LEMMA SetExitKeeps == ASSUME FaultAssumption, Inv, SetExit PROVE Inv'
<1> USE DEF Inv, FaultInv, SetExit
<1>1. TypeOK'
  BY DEF TypeOK, threads, screen
<1>2. NeverRunsOn' /\ ShownIsFaulty' /\ LastCrashPending' /\ FlagStays'
  BY DEF NeverRunsOn, ShownIsFaulty, LastCrashPending, FlagStays, threads
<1>3. PagesInv'
  BY DEF PagesInv, screen
<1> QED
  BY <1>1, <1>2, <1>3

-----------------------------------------------------------------------------
(* A step of the fault thread. *)
LEMMA TakeEventKeeps == ASSUME FaultAssumption, Inv, TakeEvent PROVE Inv'
<1> USE DEF Inv, FaultInv
<1> DEFINE who == IF faulted # None THEN faulted ELSE Find
<1>1. /\ fpc = "receive" /\ queue # <<>> /\ queue' = <<>> /\ msgId' = Head(queue)
      /\ IF who = None
         THEN UNCHANGED <<fpc, shown, seen>>
         ELSE fpc' = "combo" /\ shown' = who /\ seen' = seen \cup {who}
      /\ UNCHANGED <<threads, faulted, loaded, exit, screen>>
  BY Zenon DEF TakeEvent
<1>2. who # None => who \in Threads
  BY FindFinds DEF TypeOK
<1>3. who # None => flags[who] # 0
  BY FindFinds DEF FlagStays
<1>4. faulted # None => who = faulted
  OBVIOUS
<1> HIDE DEF who
<1>5. TypeOK'
  BY <1>1, <1>2 DEF TypeOK, threads, screen, FAULT, CPU_BREAK
<1>6. NeverRunsOn' /\ FlagStays'
  BY <1>1 DEF NeverRunsOn, FlagStays, threads
<1>7. ShownIsFaulty'
  BY <1>1, <1>3 DEF ShownIsFaulty, threads
<1>8. LastCrashPending'
  BY <1>1, <1>4 DEF LastCrashPending
<1>9. PagesInv'
  BY <1>1 DEF PagesInv, screen
<1> QED
  BY <1>5, <1>6, <1>7, <1>8, <1>9

(* The three steps that draw a page. *)
LEMMA PageKeeps ==
    ASSUME FaultAssumption, Inv, Unlock \/ NextPage \/ NextRound
    PROVE  Inv'
<1> USE DEF Inv, FaultInv
<1>1. /\ fpc # "receive" /\ fpc' = "overlays"
      /\ UNCHANGED <<threads, faulted, queue, msgId, loaded, exit, shown, seen>>
  BY DEF Unlock, NextPage, NextRound
<1>2. DrawPage(0) \/ DrawPage(first)
  BY Zenon DEF Unlock, NextPage, NextRound
<1>3. /\ PagesInv' /\ first' \in 0 .. Count
      /\ drawn' \in [Entries -> Nat] /\ steady' \subseteq Entries
  BY <1>1, <1>2, DrawsPage, Zenon
<1>4. TypeOK'
  BY <1>1, <1>3 DEF TypeOK, threads, Screen
<1>5. NeverRunsOn' /\ ShownIsFaulty' /\ LastCrashPending' /\ FlagStays'
  BY <1>1 DEF NeverRunsOn, ShownIsFaulty, LastCrashPending, FlagStays, threads
<1> QED
  BY <1>3, <1>4, <1>5

LEMMA NextScreenKeeps == ASSUME FaultAssumption, Inv, NextScreen PROVE Inv'
<1> USE DEF Inv, FaultInv
<1>1. /\ fpc \in {"overlays", "info", "context", "rom"}
      /\ fpc' \in {"info", "context", "rom", "stack"}
      /\ fpc = "overlays" => first >= Count
      /\ UNCHANGED <<threads, faulted, queue, msgId, loaded, exit, shown, screen, seen>>
  BY DEF NextScreen, Screen
<1>2. TypeOK'
  BY <1>1 DEF TypeOK, threads, screen, Screen
<1>3. NeverRunsOn' /\ ShownIsFaulty' /\ LastCrashPending' /\ FlagStays'
  BY <1>1 DEF NeverRunsOn, ShownIsFaulty, LastCrashPending, FlagStays, threads
<1>4. PagesInv'
  <2>1. first \in 0 .. Count /\ Count \in Nat
    BY DEF TypeOK, FaultAssumption
  <2>2. first' = Count
    BY <1>1, <2>1 DEF PagesInv, screen
  <2> QED
    BY <1>1, <2>2 DEF PagesInv, screen
<1> QED
  BY <1>2, <1>3, <1>4

(* Fault_ResumeThread: the thread runs, at its break. *)
LEMMA ResumeKeeps == ASSUME FaultAssumption, Inv, Resume PROVE Inv'
<1> USE DEF Inv, FaultInv, Resume
<1>1. shown \in Threads
  BY DEF TypeOK
<1>2. TypeOK'
  BY DEF TypeOK, screen
<1>3. NeverRunsOn'
  BY <1>1 DEF NeverRunsOn, TypeOK
<1>4. ShownIsFaulty' /\ LastCrashPending' /\ FlagStays'
  BY DEF ShownIsFaulty, LastCrashPending, FlagStays
<1>5. PagesInv'
  BY DEF PagesInv, screen
<1> QED
  BY <1>2, <1>3, <1>4, <1>5

LEMMA NextKeeps == ASSUME FaultAssumption, Inv, [Next]_vars PROVE Inv'
<1>1. CASE \E t \in Threads : Crash(t) \/ Break(t)
  BY <1>1, CrashKeeps, BreakKeeps
<1>2. CASE \E t \in Threads, i \in Entries : Overlay(t, i)
  BY <1>2, OverlayKeeps
<1>3. CASE SetExit
  BY <1>3, SetExitKeeps
<1>4. CASE FaultThread
  BY <1>4, TakeEventKeeps, PageKeeps, NextScreenKeeps, ResumeKeeps DEF FaultThread
<1>5. CASE UNCHANGED vars
  BY <1>5 DEF vars, Inv, FaultInv, TypeOK, NeverRunsOn, ShownIsFaulty, LastCrashPending,
              FlagStays, PagesInv
<1> QED
  BY <1>1, <1>2, <1>3, <1>4, <1>5 DEF Next

LEMMA PagesDone == ASSUME FaultAssumption, Inv PROVE PagesCover
<1>1. \A i \in Entries : drawn[i] <= 1
  BY DEF Inv, PagesInv
<1>2. ASSUME fpc = "info", NEW i \in steady
      PROVE  drawn[i] = 1
  <2>1. first = Count /\ i \in 0 .. Count - 1
    BY <1>2 DEF Inv, FaultInv, TypeOK, PagesInv, Entries
  <2>2. i < first
    BY <2>1 DEF FaultAssumption
  <2> QED
    BY <2>2 DEF Inv, PagesInv
<1> QED
  BY <1>1, <1>2 DEF PagesCover

-----------------------------------------------------------------------------
LEMMA InvHolds == Spec => []Inv
<1>1. Init => Inv
  BY FaultAssumption, InitInv
<1>2. Inv /\ [Next]_vars => Inv'
  BY FaultAssumption, NextKeeps
<1> QED
  BY <1>1, <1>2, PTL DEF Spec

(* fault.c:642-699, exceptasm.s:908-972: who crashed never executes another
   instruction of the game, only such a thread is on the screen, and the last
   one that crashed is or will be, whatever events were lost.                 *)
THEOREM WhoCrashedIsShown == Spec => []FaultInv
<1>1. Inv => FaultInv
  BY DEF Inv
<1> QED
  BY <1>1, InvHolds, PTL

(* fault.c:543-598, 704-722: in every round the pages show what is loaded, once,
   however many entries the table and a page have.                            *)
THEOREM EveryOverlayIsShown == Spec => []PagesCover
<1>1. Inv => PagesCover
  BY FaultAssumption, PagesDone
<1> QED
  BY <1>1, InvHolds, PTL

-----------------------------------------------------------------------------
(* The sequence: what has been typed when the code has come to a place of it. *)
Typed ==
    /\ typed \in Seq(SUBSET Combo!Buttons)
    /\ x # 0 => age = elapsed
    /\ x \in 1 .. 9 => Len(typed) = x
    /\ x \in Combo!MustRelease /\ y = 0 => fresh
    /\ x = 91 => Len(typed) = 10 /\ typed[10] = {"A"}
    /\ x = 92 => Len(typed) = 10 /\ typed[10] = {"B"}
    /\ x = 10 => \/ Len(typed) = 10 /\ typed[10] = {"A", "B"}
                 \/ Len(typed) = 11 /\ typed[10] \cup typed[11] = {"A", "B"}
    /\ Len(typed) <= 12
    /\ Combo!OnlyTheSequence

(* Where the code is when somebody who types the sequence has come to a poll. *)
Reached == <<0, 0, 0, 1, 1, 2, 3, 3, 4, 5, 5, 6, 7, 7, 8, 9, 9, 92, 10, 11>>

Played ==
    playing # 0 =>
        /\ held = Combo!Fingers[playing]
        /\ y = IF playing \in {4, 7, 10, 13, 16} THEN 1 ELSE 0
        /\ playing >= 2 => x = Reached[playing]
        /\ playing >= 4 => elapsed = 0

ComboIInv == Combo!TypeOK /\ Typed /\ Played


(* What continues the beginning of the sequence that a place stands for. *)
LEMMA NextContinues ==
    ASSUME Combo!TypeOK, Typed, x # 0, y = 0, NEW button, NEW trigger, trigger # {},
           Combo!NextPlace(x, button, trigger) # 0, x # Combo!Done
    PROVE  Combo!Continues(typed, trigger, fresh)
<1> USE DEF Combo!Done, Combo!MustRelease, Combo!NextPlace, Typed
<1>1. CASE x \in 1 .. 8
  <2>1. trigger = {Combo!Key[x]} /\ Len(typed) = x
    BY <1>1
  <2>2. Combo!Key[x] \in {"up", "cdown", "cup", "down", "left", "cleft", "cright", "right"}
        /\ Combo!Sequence[x + 1] = {Combo!Key[x]}
    BY <1>1 DEF Combo!Key, Combo!Sequence
  <2>3. x % 2 = 1 => x \in {1, 3, 5, 7}
    BY <1>1
  <2> QED
    BY <1>1, <2>1, <2>2, <2>3 DEF Combo!Continues
<1>2. CASE x = 9
  BY <1>2 DEF Combo!Continues
<1>3. CASE x = 91
  <2>1. trigger = {"B"} /\ Len(typed) = 10 /\ typed[10] = {"A"}
    BY <1>3
  <2> QED
    BY <2>1 DEF Combo!Continues
<1>4. CASE x = 92
  <2>1. trigger = {"A"} /\ Len(typed) = 10 /\ typed[10] = {"B"}
    BY <1>4
  <2> QED
    BY <2>1 DEF Combo!Continues
<1>5. CASE x = 10
  <2>1. trigger = {"S"}
    BY <1>5
  <2>2. \/ Len(typed) = 10 /\ typed[10] = {"A", "B"}
        \/ Len(typed) = 11 /\ typed[10] \cup typed[11] = {"A", "B"}
    BY <1>5
  <2>3. 10 .. 10 = {10} /\ 10 .. 11 = {10, 11}
    OBVIOUS
  <2>4. UNION {typed[i] : i \in 10 .. Len(typed)} = {"A", "B"}
    <3>1. CASE Len(typed) = 10 /\ typed[10] = {"A", "B"}
      <4>1. {typed[i] : i \in 10 .. 10} = {typed[10]}
        BY <2>3
      <4> QED
        BY <3>1, <4>1
    <3>2. CASE Len(typed) = 11 /\ typed[10] \cup typed[11] = {"A", "B"}
      <4>1. {typed[i] : i \in 10 .. 11} = {typed[10], typed[11]}
        BY <2>3
      <4> QED
        BY <3>2, <4>1
    <3> QED
      BY <2>2, <3>1, <3>2
  <2> QED
    BY <2>1, <2>2, <2>4 DEF Combo!Continues
<1> QED
  BY <1>1, <1>2, <1>3, <1>4, <1>5 DEF Combo!TypeOK

(* A press that continues is a press, and not the first. *)
LEMMA ContinuesFacts ==
    ASSUME NEW s \in Seq(SUBSET Combo!Buttons), NEW trigger, NEW released,
           Combo!Continues(s, trigger, released)
    PROVE  trigger # {} /\ "Z" \notin trigger /\ Len(s) <= 11
<1> DEFINE n == Len(s)
<1>1. CASE n \in 1 .. 8 /\ trigger = Combo!Sequence[n + 1]
  <2>1. Combo!Sequence[n + 1] \in {{"up"}, {"cdown"}, {"cup"}, {"down"}, {"left"}, {"cleft"},
                                   {"cright"}, {"right"}}
    <3> HIDE DEF n
    <3> QED
      BY <1>1 DEF Combo!Sequence
  <2>2. "Z" \notin Combo!Sequence[n + 1] /\ Combo!Sequence[n + 1] # {}
    <3> DEFINE t == Combo!Sequence[n + 1]
    <3>1. t \in {{"up"}, {"cdown"}, {"cup"}, {"down"}, {"left"}, {"cleft"}, {"cright"}, {"right"}}
      BY <2>1
    <3> HIDE DEF t
    <3>2. "Z" \notin t /\ t # {}
      BY <3>1
    <3> QED
      BY <3>2 DEF t
  <2>3. n <= 11
    <3> HIDE DEF n
    <3> QED
      BY <1>1
  <2> QED
    BY <1>1, <2>2, <2>3
<1>2. CASE n \in {9, 10, 11} /\ trigger # {} /\ (trigger = {"S"} \/ trigger \subseteq {"A", "B"})
  <2>1. "Z" \notin trigger
    BY <1>2
  <2>2. n <= 11
    <3> HIDE DEF n
    <3> QED
      BY <1>2
  <2> QED
    BY <1>2, <2>1, <2>2
<1>3. CASE n = 10 /\ trigger # {} /\ s[10] \cup trigger = {"A", "B"}
  BY <1>3
<1> QED
  BY <1>1, <1>2, <1>3 DEF Combo!Continues

(* The place a press leads to. *)
LEMMA PlaceType ==
    ASSUME NEW c \in 0 .. 10 \cup {91, 92}, NEW button, NEW trigger,
           NEW p, p = Combo!NextPlace(c, button, trigger)
    PROVE  /\ p \in 0 .. 11 \cup {91, 92}
           /\ p = 1 => c = 0 /\ button = {"Z", "R", "L"} /\ trigger = {"Z"}
           /\ c = 0 => p \in {0, 1}
<1> USE DEF Combo!NextPlace, Combo!Done
<1>1. CASE c = 0
  BY <1>1
<1>2. CASE c \in 1 .. 8
  BY <1>2
<1>3. CASE c = 9
  BY <1>3
<1>4. CASE c \in {10, 91, 92}
  BY <1>4
<1> QED
  BY <1>1, <1>2, <1>3, <1>4

LEMMA PollKeeps ==
    ASSUME Combo!ComboAssumption, Combo!TypeOK, Typed,
           NEW new \in SUBSET Combo!Buttons, Combo!Poll(new),
           playing' \in 0 .. Len(Combo!Fingers)
    PROVE  Combo!TypeOK' /\ Typed'
<1> DEFINE trigger == new \ held
           goesOn == Combo!Continues(typed, trigger, fresh)
           begins == ~goesOn /\ trigger = {"Z"} /\ new = {"L", "R", "Z"}
<1>1. /\ fresh' = (new = {} \/ (fresh /\ trigger = {}))
      /\ typed' = IF trigger = {} THEN typed
                  ELSE IF goesOn THEN Append(typed, trigger)
                  ELSE IF begins THEN <<trigger>> ELSE <<>>
      /\ age' = IF begins THEN 0 ELSE age
  BY DEF Combo!Poll, Combo!Remember
<1>2. /\ typed \in Seq(SUBSET Combo!Buttons) /\ Len(typed) \in Nat /\ trigger \in SUBSET Combo!Buttons
      /\ held' = new /\ x # 11
  BY DEF Typed, Combo!Poll, Combo!Done
<1>3. goesOn => trigger # {} /\ "Z" \notin trigger /\ Len(typed) <= 11
  BY <1>2, ContinuesFacts
<1>4. /\ typed' \in Seq(SUBSET Combo!Buttons) /\ Len(typed') <= 12
      /\ age' \in 0 .. Limit + 1 /\ fresh' \in BOOLEAN
  <2>1. Len(typed) <= 12 /\ age \in 0 .. Limit + 1 /\ Limit \in Nat /\ fresh \in BOOLEAN
    BY DEF Typed, Combo!TypeOK, Combo!ComboAssumption
  <2>2. Append(typed, trigger) \in Seq(SUBSET Combo!Buttons)
        /\ Len(Append(typed, trigger)) = Len(typed) + 1
        /\ <<trigger>> \in Seq(SUBSET Combo!Buttons) /\ Len(<<trigger>>) = 1
        /\ <<>> \in Seq(SUBSET Combo!Buttons) /\ Len(<<>>) = 0
    BY <1>2
  <2>3. typed' \in {typed, <<trigger>>, <<>>} \/ (goesOn /\ typed' = Append(typed, trigger))
    BY <1>1
  <2>4. age' \in {0, age}
    BY <1>1
  <2>5. fresh' \in BOOLEAN
    BY <1>1, Zenon
  <2> HIDE DEF trigger, goesOn, begins
  <2>6. typed' \in Seq(SUBSET Combo!Buttons) /\ Len(typed') <= 12
    <3>1. CASE typed' = typed
      <4>1. typed \in Seq(SUBSET Combo!Buttons) /\ Len(typed) <= 12
        BY DEF Typed
      <4> QED
        BY ONLY <3>1, <4>1
    <3>2. CASE typed' = <<trigger>>
      BY ONLY <2>2, <3>2
    <3>3. CASE typed' = <<>>
      BY ONLY <2>2, <3>3
    <3>4. CASE goesOn /\ typed' = Append(typed, trigger)
      BY <1>2, <1>3, <2>2, <3>4
    <3> QED
      BY <2>3, <3>1, <3>2, <3>3, <3>4
  <2> QED
    BY <2>1, <2>4, <2>5, <2>6
<1>5. CASE trigger = {}
  <2>1. ~ goesOn /\ ~ begins /\ typed' = typed /\ age' = age
    BY <1>1, <1>3, <1>5
  <2>2. x' = x /\ elapsed' = elapsed /\ ((new = {} /\ y' = 0) \/ y' = y)
    BY <1>5 DEF Combo!Poll, Combo!Press, Combo!Release, Combo!Nothing
  <2>3. fresh' = (new = {} \/ fresh)
    BY <1>1, <1>5
  <2>4. Combo!TypeOK'
    BY <1>2, <1>4, <2>2 DEF Combo!TypeOK
  <2>5. Typed'
    BY <2>1, <2>2, <2>3 DEF Typed, Combo!OnlyTheSequence, Combo!Done
  <2> QED
    BY <2>4, <2>5
<1>6. CASE trigger # {}
  <2> DEFINE c == IF y = 1 THEN 0 ELSE x
  <2>1. /\ x' = Combo!NextPlace(c, new, trigger)
        /\ y' = IF x' \in Combo!MustRelease THEN 1 ELSE y
        /\ elapsed' = IF x' = 1 THEN 0 ELSE elapsed
    BY <1>6 DEF Combo!Poll, Combo!Press, Combo!Release, Combo!Nothing
  <2>2. c \in 0 .. 10 \cup {91, 92}
    BY <1>2 DEF Combo!TypeOK
  <2>3. /\ x' \in 0 .. 11 \cup {91, 92}
        /\ x' = 1 => new = {"Z", "R", "L"} /\ trigger = {"Z"}
        /\ c = 0 => x' \in {0, 1}
    <3> HIDE DEF c, trigger
    <3> QED
      BY <2>1, <2>2, PlaceType
  <2>4. x' = 0 \/ x' \in Combo!MustRelease \/ y' = 0
    BY <2>1, <2>3 DEF Combo!TypeOK, Combo!MustRelease
  <2>5. Combo!TypeOK'
    <3>1. y' \in {0, 1} /\ (y' = 1 => x' \in {0} \cup Combo!MustRelease)
      BY <2>1, <2>4 DEF Combo!TypeOK
    <3>2. elapsed' \in 0 .. Limit + 1
      BY <2>1 DEF Combo!TypeOK, Combo!ComboAssumption
    <3> QED
      BY <1>2, <1>4, <2>3, <3>1, <3>2 DEF Combo!TypeOK
  <2>6. x' \in Combo!MustRelease => y' = 1
    BY <2>1
  <2>7. CASE x' = 0
    <3>1. /\ x' \notin 1 .. 9 /\ x' # 91 /\ x' # 92 /\ x' # 10 /\ x' # Combo!Done
          /\ x' \notin Combo!MustRelease
      BY <2>7 DEF Combo!MustRelease, Combo!Done
    <3> QED
      BY ONLY <1>4, <2>5, <2>7, <3>1 DEF Typed, Combo!OnlyTheSequence
  <2>8. CASE x' = 1
    <3>1. begins /\ ~ goesOn
      BY <1>3, <2>3, <2>8
    <3>2. typed' = <<trigger>> /\ age' = 0 /\ elapsed' = 0
      BY <1>1, <1>6, <2>1, <2>8, <3>1
    <3>3. Len(typed') = 1
      BY <3>2
    <3>4. x' \in 1 .. 9 /\ x' # 91 /\ x' # 92 /\ x' # 10 /\ x' # Combo!Done
      BY <2>8 DEF Combo!Done
    <3> QED
      BY ONLY <1>4, <2>5, <2>6, <2>8, <3>2, <3>3, <3>4 DEF Typed, Combo!OnlyTheSequence
  <2>9. CASE x' \notin {0, 1}
    <3>1. c # 0 /\ c = x /\ y = 0
      BY <2>3, <2>9 DEF Combo!TypeOK
    <3>2. goesOn
      BY <1>2, <1>6, <2>1, <2>9, <3>1, NextContinues DEF Combo!Done
    <3>3. /\ typed' = Append(typed, trigger) /\ age' = age /\ elapsed' = elapsed /\ age = elapsed
          /\ x' = Combo!NextPlace(x, new, trigger)
      BY <1>1, <1>6, <2>1, <2>9, <3>1, <3>2 DEF Typed
    <3>4. Len(typed') = Len(typed) + 1 /\ typed'[Len(typed) + 1] = trigger
          /\ \A i \in 1 .. Len(typed) : typed'[i] = typed[i]
      BY <1>2, <3>3
    <3>5. /\ x' \in 1 .. 9 => Len(typed') = x'
          /\ x' = 91 => Len(typed') = 10 /\ typed'[10] = {"A"}
          /\ x' = 92 => Len(typed') = 10 /\ typed'[10] = {"B"}
          /\ x' = 10 => \/ Len(typed') = 10 /\ typed'[10] = {"A", "B"}
                        \/ Len(typed') = 11 /\ typed'[10] \cup typed'[11] = {"A", "B"}
          /\ x' = 11 => /\ \E n \in {11, 12} : Len(typed') = n /\ typed'[n] = {"S"}
                        /\ age' <= Limit
      <4> HIDE DEF trigger, goesOn, begins
      <4> USE DEF Combo!NextPlace, Combo!Done
      <4>1. CASE x \in 1 .. 8
        <5>1. x' = x + 1 /\ Len(typed) = x
          BY <2>9, <3>3, <4>1 DEF Typed
        <5> QED
          BY <3>4, <4>1, <5>1
      <4>2. CASE x = 9
        <5>1. Len(typed) = 9 /\ (\/ x' = 10 /\ trigger = {"A", "B"}
                                 \/ x' = 91 /\ trigger = {"A"}
                                 \/ x' = 92 /\ trigger = {"B"})
          BY <2>9, <3>3, <4>2 DEF Typed
        <5> QED
          BY <3>4, <5>1
      <4>3. CASE x = 91
        <5>1. Len(typed) = 10 /\ x' = 10 /\ trigger = {"B"} /\ typed[10] = {"A"}
          BY <2>9, <3>3, <4>3 DEF Typed
        <5> QED
          BY <3>4, <5>1
      <4>4. CASE x = 92
        <5>1. Len(typed) = 10 /\ x' = 10 /\ trigger = {"A"} /\ typed[10] = {"B"}
          BY <2>9, <3>3, <4>4 DEF Typed
        <5> QED
          BY <3>4, <5>1
      <4>5. CASE x = 10
        <5>1. Len(typed) \in {10, 11}
          BY <4>5 DEF Typed
        <5>2. x' = 11 /\ trigger = {"S"} /\ elapsed <= Limit
          BY <2>9, <3>3, <4>5
        <5>3. \E n \in {11, 12} : Len(typed') = n /\ typed'[n] = {"S"}
          <6>1. CASE Len(typed) = 10
            BY <3>4, <5>2, <6>1
          <6>2. CASE Len(typed) = 11
            BY <3>4, <5>2, <6>2
          <6> QED
            BY <5>1, <6>1, <6>2
        <5>4. age' <= Limit
          BY <3>3, <5>2
        <5> QED
          BY <5>2, <5>3, <5>4
      <4>6. x \in 1 .. 8 \/ x \in {9, 10, 91, 92}
        BY <1>2, <3>1 DEF Combo!TypeOK
      <4> QED
        BY <4>1, <4>2, <4>3, <4>4, <4>5, <4>6
    <3> QED
      BY ONLY <1>4, <2>5, <2>6, <3>3, <3>5 DEF Typed, Combo!OnlyTheSequence, Combo!Done
  <2> QED
    BY <2>5, <2>7, <2>8, <2>9
<1> QED
  BY <1>5, <1>6

-----------------------------------------------------------------------------
(* Three kinds of poll: a press where no release is due. *)
LEMMA PollPresses ==
    ASSUME y = 0, NEW new, new \ held # {}, Combo!Poll(new)
    PROVE  /\ held' = new
           /\ x' = Combo!NextPlace(x, new, new \ held)
           /\ y' = IF x' \in Combo!MustRelease THEN 1 ELSE 0
           /\ elapsed' = IF x' = 1 THEN 0 ELSE elapsed
  BY DEF Combo!Poll, Combo!Press, Combo!Release, Combo!Nothing

(* A release, due or not. *)
LEMMA PollLetsGo ==
    ASSUME y \in {0, 1}, Combo!Poll({})
    PROVE  held' = {} /\ y' = 0 /\ x' = x /\ elapsed' = elapsed
<1>1. {} \ held = {}
  OBVIOUS
<1> QED
  BY <1>1 DEF Combo!Poll, Combo!Press, Combo!Release, Combo!Nothing

(* A poll that finds what the one before it found. *)
LEMMA PollWaits ==
    ASSUME y = 0 \/ held # {}, Combo!Poll(held)
    PROVE  held' = held /\ y' = y /\ x' = x /\ elapsed' = elapsed
<1>1. held \ held = {}
  OBVIOUS
<1> QED
  BY <1>1 DEF Combo!Poll, Combo!Press, Combo!Release, Combo!Nothing

(* What is held at each poll of the sequence, and what the poll finds new. *)
LEMMA FingersAt ==
    /\ Len(Combo!Fingers) = 20
    /\ Combo!Fingers[1] = {} /\ Combo!Fingers[2] = {"L"} /\ Combo!Fingers[3] = {"L", "R"}
    /\ Combo!Fingers[4] = {"L", "R", "Z"} /\ Combo!Fingers[5] = {} /\ Combo!Fingers[6] = {"up"}
    /\ Combo!Fingers[7] = {"cdown"} /\ Combo!Fingers[8] = {} /\ Combo!Fingers[9] = {"cup"}
    /\ Combo!Fingers[10] = {"down"} /\ Combo!Fingers[11] = {} /\ Combo!Fingers[12] = {"left"}
    /\ Combo!Fingers[13] = {"cleft"} /\ Combo!Fingers[14] = {} /\ Combo!Fingers[15] = {"cright"}
    /\ Combo!Fingers[16] = {"right"} /\ Combo!Fingers[17] = {} /\ Combo!Fingers[18] = {"B"}
    /\ Combo!Fingers[19] = {"A", "B"} /\ Combo!Fingers[20] = {"A", "B", "S"}
  BY DEF Combo!Fingers

LEMMA ReachedAt ==
    /\ Reached[2] = 0 /\ Reached[3] = 0 /\ Reached[4] = 1 /\ Reached[5] = 1 /\ Reached[6] = 2
    /\ Reached[7] = 3 /\ Reached[8] = 3 /\ Reached[9] = 4 /\ Reached[10] = 5 /\ Reached[11] = 5
    /\ Reached[12] = 6 /\ Reached[13] = 7 /\ Reached[14] = 7 /\ Reached[15] = 8
    /\ Reached[16] = 9 /\ Reached[17] = 9 /\ Reached[18] = 92 /\ Reached[19] = 10
    /\ Reached[20] = 11
  BY DEF Reached

(* The polls at which one key leads to the next place. *)
Keyed == {5, 6, 8, 9, 11, 12, 14, 15}

LEMMA KeysLead ==
    ASSUME NEW n \in Keyed
    PROVE  /\ Combo!Fingers[n + 1] \ Combo!Fingers[n] = {Combo!Key[Reached[n]]}
           /\ Reached[n] \in 1 .. 8 /\ Reached[n + 1] = Reached[n] + 1
           /\ (n + 1 \in {4, 7, 10, 13, 16}) <=> (Reached[n + 1] \in Combo!MustRelease)
<1>1. /\ Combo!Key[1] = "up" /\ Combo!Key[2] = "cdown" /\ Combo!Key[3] = "cup"
      /\ Combo!Key[4] = "down" /\ Combo!Key[5] = "left" /\ Combo!Key[6] = "cleft"
      /\ Combo!Key[7] = "cright" /\ Combo!Key[8] = "right"
  BY DEF Combo!Key
<1>2. CASE n = 5
  BY <1>1, <1>2, FingersAt, ReachedAt DEF Combo!MustRelease
<1>3. CASE n = 6
  BY <1>1, <1>3, FingersAt, ReachedAt DEF Combo!MustRelease
<1>4. CASE n = 8
  BY <1>1, <1>4, FingersAt, ReachedAt DEF Combo!MustRelease
<1>5. CASE n = 9
  BY <1>1, <1>5, FingersAt, ReachedAt DEF Combo!MustRelease
<1>6. CASE n = 11
  BY <1>1, <1>6, FingersAt, ReachedAt DEF Combo!MustRelease
<1>7. CASE n = 12
  BY <1>1, <1>7, FingersAt, ReachedAt DEF Combo!MustRelease
<1>8. CASE n = 14
  BY <1>1, <1>8, FingersAt, ReachedAt DEF Combo!MustRelease
<1>9. CASE n = 15
  BY <1>1, <1>9, FingersAt, ReachedAt DEF Combo!MustRelease
<1> QED
  BY <1>2, <1>3, <1>4, <1>5, <1>6, <1>7, <1>8, <1>9 DEF Keyed

LEMMA PlayKeeps ==
    ASSUME Combo!ComboAssumption, Combo!TypeOK, Played, Combo!Play
    PROVE  Played'
<1> DEFINE new == Combo!Fingers[playing + 1]
           trigger == new \ held
<1>1. /\ playing \in 0 .. 19 /\ playing' = playing + 1 /\ Combo!Poll(new)
      /\ x \in 0 .. 10 \cup {91, 92} /\ y \in {0, 1}
  BY FingersAt DEF Combo!TypeOK, Combo!Play, Combo!Poll, Combo!Done
<1>2. playing # 0 => /\ held = Combo!Fingers[playing]
                     /\ y = IF playing \in {4, 7, 10, 13, 16} THEN 1 ELSE 0
                     /\ playing >= 2 => x = Reached[playing]
                     /\ playing >= 4 => elapsed = 0
  BY DEF Played
<1>3. y = 0 /\ trigger # {} => /\ held' = new
                               /\ x' = Combo!NextPlace(x, new, trigger)
                               /\ y' = IF x' \in Combo!MustRelease THEN 1 ELSE 0
                               /\ elapsed' = IF x' = 1 THEN 0 ELSE elapsed
  <2> HIDE DEF new
  <2> QED
    BY <1>1, PollPresses
<1>4. new = {} => held' = {} /\ y' = 0 /\ x' = x /\ elapsed' = elapsed
  <2> HIDE DEF new
  <2> QED
    BY <1>1, PollLetsGo
<1>5. CASE playing = 0
  BY <1>1, <1>4, <1>5, FingersAt DEF Played
<1>6. CASE playing \in {4, 7, 10, 13, 16}
  <2>1. new = {} /\ Reached[playing + 1] = Reached[playing]
    BY <1>6, FingersAt, ReachedAt
  <2> QED
    BY <1>1, <1>2, <1>4, <1>6, <2>1, FingersAt DEF Played
<1>7. CASE playing \in Keyed
  <2>1. /\ y = 0 /\ x = Reached[playing] /\ elapsed = 0 /\ held = Combo!Fingers[playing]
        /\ playing >= 4
    BY <1>2, <1>7 DEF Keyed
  <2>2. /\ trigger = {Combo!Key[x]} /\ x \in 1 .. 8 /\ Reached[playing + 1] = x + 1
        /\ (playing + 1 \in {4, 7, 10, 13, 16}) <=> (x + 1 \in Combo!MustRelease)
    BY <1>7, <2>1, KeysLead
  <2>3. Combo!NextPlace(x, new, trigger) = x + 1
    <3> HIDE DEF new, trigger
    <3> QED
      BY <2>2 DEF Combo!NextPlace
  <2>4. held' = new /\ x' = x + 1 /\ elapsed' = 0
        /\ y' = IF x' \in Combo!MustRelease THEN 1 ELSE 0
    BY <1>3, <2>1, <2>2, <2>3
  <2> HIDE DEF new, trigger
  <2> QED
    BY <1>1, <2>1, <2>2, <2>4 DEF Played, new
<1> USE DEF Combo!MustRelease, Combo!Done
<1>8. CASE playing = 1
  <2>1. new = {"L"} /\ trigger = {"L"} /\ y = 0
    BY <1>2, <1>8, FingersAt
  <2>2. Combo!NextPlace(x, new, trigger) = 0
    <3>1. Combo!NextPlace(x, {"L"}, {"L"}) = 0
      <4>1. CASE x = 0
        BY <4>1 DEF Combo!NextPlace
      <4>2. CASE x \in 1 .. 8
        <5>1. Combo!Key[x] # "L"
          BY <4>2 DEF Combo!Key
        <5> QED
          BY <4>2, <5>1 DEF Combo!NextPlace
      <4>3. CASE x \in {9, 10, 91, 92}
        BY <4>3 DEF Combo!NextPlace
      <4> QED
        BY <1>1, <4>1, <4>2, <4>3
    <3> QED
      BY <2>1, <3>1
  <2>3. held' = new /\ x' = 0 /\ y' = 0
    BY <1>3, <2>1, <2>2
  <2> QED
    BY <1>1, <1>8, <2>3, FingersAt, ReachedAt DEF Played
<1>9. CASE playing = 2
  <2>1. new = {"L", "R"} /\ trigger = {"R"} /\ y = 0 /\ x = 0
    BY <1>2, <1>9, FingersAt, ReachedAt
  <2>2. Combo!NextPlace(x, new, trigger) = 0
    BY <2>1 DEF Combo!NextPlace
  <2>3. held' = new /\ x' = 0 /\ y' = 0
    BY <1>3, <2>1, <2>2
  <2> QED
    BY <1>1, <1>9, <2>3, FingersAt, ReachedAt DEF Played
<1>10. CASE playing = 3
  <2>1. new = {"L", "R", "Z"} /\ trigger = {"Z"} /\ y = 0 /\ x = 0
    BY <1>2, <1>10, FingersAt, ReachedAt
  <2>2. Combo!NextPlace(x, new, trigger) = 1
    BY <2>1 DEF Combo!NextPlace
  <2>3. held' = new /\ x' = 1 /\ y' = 1 /\ elapsed' = 0
    BY <1>3, <2>1, <2>2
  <2> QED
    BY <1>1, <1>10, <2>3, FingersAt, ReachedAt DEF Played
<1>11. CASE playing = 17
  <2>1. new = {"B"} /\ trigger = {"B"} /\ y = 0 /\ x = 9 /\ elapsed = 0
    BY <1>2, <1>11, FingersAt, ReachedAt
  <2>2. Combo!NextPlace(x, new, trigger) = 92
    BY <2>1 DEF Combo!NextPlace
  <2>3. held' = new /\ x' = 92 /\ y' = 0 /\ elapsed' = 0
    BY <1>3, <2>1, <2>2
  <2> QED
    BY <1>1, <1>11, <2>3, FingersAt, ReachedAt DEF Played
<1>12. CASE playing = 18
  <2>1. new = {"A", "B"} /\ trigger = {"A"} /\ y = 0 /\ x = 92 /\ elapsed = 0
    BY <1>2, <1>12, FingersAt, ReachedAt
  <2>2. Combo!NextPlace(x, new, trigger) = 10
    BY <2>1 DEF Combo!NextPlace
  <2>3. held' = new /\ x' = 10 /\ y' = 0 /\ elapsed' = 0
    BY <1>3, <2>1, <2>2
  <2> QED
    BY <1>1, <1>12, <2>3, FingersAt, ReachedAt DEF Played
<1>13. CASE playing = 19
  <2>1. new = {"A", "B", "S"} /\ trigger = {"S"} /\ y = 0 /\ x = 10 /\ elapsed = 0
    BY <1>2, <1>13, FingersAt, ReachedAt
  <2>2. Combo!NextPlace(x, new, trigger) = 11
    BY <2>1 DEF Combo!NextPlace, Combo!ComboAssumption
  <2>3. held' = new /\ x' = 11 /\ y' = 0 /\ elapsed' = 0
    BY <1>3, <2>1, <2>2
  <2> QED
    BY <1>1, <1>13, <2>3, FingersAt, ReachedAt DEF Played
<1> QED
  BY <1>1, <1>5, <1>6, <1>7, <1>8, <1>9, <1>10, <1>11, <1>12, <1>13 DEF Keyed

-----------------------------------------------------------------------------
LEMMA ComboInit == Combo!ComboAssumption /\ Combo!Init => ComboIInv
<1> SUFFICES ASSUME Combo!ComboAssumption, Combo!Init
             PROVE  ComboIInv
  OBVIOUS
<1>1. /\ x = 0 /\ y = 0 /\ held \in SUBSET Combo!Buttons /\ elapsed = 0 /\ typed = <<>>
      /\ fresh = FALSE /\ age = 0 /\ playing = 0 /\ Limit \in Nat
  BY DEF Combo!Init, Combo!ComboAssumption
<1>2. typed \in Seq(SUBSET Combo!Buttons) /\ Len(typed) = 0
  BY <1>1
<1>3. Combo!TypeOK
  <2>1. elapsed \in 0 .. Limit + 1 /\ age \in 0 .. Limit + 1
    BY <1>1
  <2>2. fresh \in BOOLEAN
    BY <1>1, Zenon
  <2>3. playing \in 0 .. Len(Combo!Fingers) /\ x \in 0 .. 11 \cup {91, 92}
    BY <1>1, FingersAt
  <2>4. y \in {0, 1} /\ y # 1 /\ Len(typed) <= 12
    BY <1>1, <1>2
  <2> QED
    BY <1>1, <2>1, <2>2, <2>3, <2>4 DEF Combo!TypeOK
<1>4. Typed
  BY <1>1, <1>2 DEF Typed, Combo!OnlyTheSequence, Combo!Done, Combo!MustRelease
<1>5. Played
  BY <1>1 DEF Played
<1> QED
  BY <1>3, <1>4, <1>5 DEF ComboIInv

LEMMA ComboNext ==
    Combo!ComboAssumption /\ ComboIInv /\ [Combo!Next]_(Combo!vars) => ComboIInv'
<1> SUFFICES ASSUME Combo!ComboAssumption, ComboIInv, [Combo!Next]_(Combo!vars)
             PROVE  ComboIInv'
  OBVIOUS
<1>1. Combo!TypeOK /\ Typed /\ Played
  BY DEF ComboIInv
<1>2. ASSUME NEW new \in Holds, Combo!Fumble(new)
      PROVE  ComboIInv'
  <2>1. new \in SUBSET Combo!Buttons /\ Combo!Poll(new) /\ playing' = playing /\ playing = 0
    BY <1>2 DEF Combo!Fumble, Combo!ComboAssumption
  <2>2. Combo!TypeOK' /\ Typed'
    BY <1>1, <2>1, PollKeeps, FingersAt
  <2> QED
    BY <2>1, <2>2 DEF ComboIInv, Played
<1>3. CASE Combo!Play
  <2>1. playing + 1 \in 1 .. 20 /\ playing' = playing + 1 /\ Combo!Poll(Combo!Fingers[playing + 1])
    BY <1>1, <1>3, FingersAt DEF Combo!Play, Combo!TypeOK
  <2>2. Combo!Fingers[playing + 1] \in SUBSET Combo!Buttons
    <3>1. \A n \in 1 .. 20 : Combo!Fingers[n] \in SUBSET Combo!Buttons
      BY DEF Combo!Fingers, Combo!Buttons
    <3> QED
      BY <2>1, <3>1
  <2>3. Combo!TypeOK' /\ Typed'
    BY <1>1, <2>1, <2>2, PollKeeps, FingersAt
  <2>4. Played'
    BY <1>1, <1>3, PlayKeeps
  <2> QED
    BY <2>3, <2>4 DEF ComboIInv
<1>4. CASE Combo!Wait
  <2>1. /\ held \in SUBSET Combo!Buttons /\ Combo!Poll(held) /\ playing' = playing /\ playing # 0
        /\ playing \in 0 .. 20
    BY <1>1, <1>4, FingersAt DEF Combo!Wait, Combo!TypeOK
  <2>2. Combo!TypeOK' /\ Typed'
    BY <1>1, <2>1, PollKeeps, FingersAt
  <2>3. y = 0 \/ held # {}
    BY <1>1, <2>1, FingersAt DEF Played
  <2>4. held' = held /\ y' = y /\ x' = x /\ elapsed' = elapsed
    BY <2>1, <2>3, PollWaits
  <2>5. Played'
    BY <1>1, <2>1, <2>4 DEF Played
  <2> QED
    BY <2>2, <2>5 DEF ComboIInv
<1>5. CASE Combo!Tick
  <2>1. /\ elapsed' = IF elapsed <= Limit THEN elapsed + 1 ELSE elapsed
        /\ age' = IF age <= Limit THEN age + 1 ELSE age
        /\ x' = x /\ y' = y /\ held' = held /\ typed' = typed /\ fresh' = fresh
        /\ playing' = playing /\ playing = 0 /\ x # 11
    BY <1>5 DEF Combo!Tick, Combo!Done
  <2>2. Combo!TypeOK'
    <3>1. elapsed' \in 0 .. Limit + 1 /\ age' \in 0 .. Limit + 1
      BY <1>1, <2>1 DEF Combo!TypeOK, Combo!ComboAssumption
    <3> QED
      BY <1>1, <2>1, <3>1 DEF Combo!TypeOK
  <2>3. Typed'
    <3>1. x # 0 => age' = elapsed'
      BY <1>1, <2>1 DEF Typed
    <3> QED
      BY <1>1, <2>1, <3>1 DEF Typed, Combo!OnlyTheSequence, Combo!Done
  <2> QED
    BY <2>1, <2>2, <2>3 DEF ComboIInv, Played
<1>6. CASE UNCHANGED Combo!vars
  <2>1. /\ x' = x /\ y' = y /\ held' = held /\ elapsed' = elapsed /\ typed' = typed
        /\ fresh' = fresh /\ age' = age /\ playing' = playing
    BY <1>6 DEF Combo!vars
  <2>2. Combo!TypeOK'
    BY <1>1, <2>1 DEF Combo!TypeOK
  <2>3. Typed'
    BY <1>1, <2>1 DEF Typed, Combo!OnlyTheSequence
  <2>4. Played'
    BY <1>1, <2>1 DEF Played
  <2> QED
    BY <2>2, <2>3, <2>4 DEF ComboIInv
<1> QED
  BY <1>2, <1>3, <1>4, <1>5, <1>6 DEF Combo!Next

LEMMA ComboIInvIsSafe == ComboIInv => ComboInv
<1> SUFFICES ASSUME ComboIInv
             PROVE  ComboInv
  OBVIOUS
<1>1. Combo!TypeOK /\ Combo!OnlyTheSequence
  BY DEF ComboIInv, Typed
<1>2. Combo!SequenceOpens
  BY FingersAt, ReachedAt DEF ComboIInv, Played, Combo!SequenceOpens, Combo!Done
<1> QED
  BY <1>1, <1>2 DEF ComboInv, Combo!ComboInv

(* fault.c:366-520, for any sets of buttons a player may hold and any time
   allowed: the screen opens only for who typed the whole sequence in order and
   in time, and always for who types it, whatever was typed before.          *)
THEOREM OnlyTheSequenceOpens == Combo!Spec => []ComboInv
<1>1. Combo!Init => ComboIInv
  BY ComboInit, ComboAssumption
<1>2. ComboIInv /\ [Combo!Next]_(Combo!vars) => ComboIInv'
  BY ComboNext, ComboAssumption
<1> QED
  BY <1>1, <1>2, ComboIInvIsSafe, PTL DEF Combo!Spec
=============================================================================
