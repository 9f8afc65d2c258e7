------------------------------ MODULE FaultMgr ------------------------------
(***************************************************************************)
(* The fault manager of src/main/fault.c: the threads of the game that crash *)
(* or run into a break instruction, the events that libultra posts for them, *)
(* and the thread that shows one of them on the screen, page by page.        *)
(*                                                                         *)
(* The fault thread has a higher priority than every thread modelled, so it  *)
(* runs undisturbed from one wait to the next: each of its steps begins with *)
(* the message or the button that ends a wait.  Between its steps the other  *)
(* threads run on, crash, load and unload overlays.                          *)
(***************************************************************************)
EXTENDS Integers, Sequences, FiniteSetsExt

CONSTANTS
    Active,     \* the threads, a sequence: the newest first, as __osActiveQueue
    Eligible,   \* those with OS_PRIORITY_IDLE < priority < OS_PRIORITY_APPMAX
    None,       \* no thread
    Count,      \* D_800DA83C: the entries of the overlay table
    PageSize    \* the entries that fit on a page, 24 in the code

Places == 1 .. Len(Active)
Threads == {Active[i] : i \in Places}
Entries == 0 .. Count - 1

ASSUME FaultAssumption ==
    /\ Active \in Seq(Threads)
    /\ \A i, j \in Places : Active[i] = Active[j] => i = j
    /\ Eligible \subseteq Threads
    /\ None \notin Threads
    /\ Count \in Nat
    /\ PageSize \in Nat \ {0}

CPU_BREAK == 1
FAULT == 2

VARIABLES
    stopped,    \* stopped[t]: state is OS_STATE_STOPPED, runnable otherwise
    flags,      \* flags[t]: 0, OS_FLAG_CPU_BREAK or OS_FLAG_FAULT
    atBreak,    \* atBreak[t]: its pc is at a break instruction
    faulted,    \* __osFaultedThread
    queue,      \* debugger.queue, capacity 1
    msgId,      \* fault_msg_id
    loaded,     \* the entries with unk8 # 0
    exit,       \* fault_exit
    fpc,        \* where the fault thread waits
    shown,      \* its faultedThread
    first,      \* D_80108690: the entry its next page begins with
    drawn,      \* history: drawn[i]: how often entry i was drawn in this round
    steady,     \* history: the entries loaded ever since this round began
    seen        \* history: the threads that were shown since they last crashed

vars == <<stopped, flags, atBreak, faulted, queue, msgId, loaded, exit, fpc, shown,
          first, drawn, steady, seen>>

threads == <<stopped, flags, atBreak>>
screen == <<first, drawn, steady>>

(* Fault_Init starts the fault thread, which registers for both events before
   any other thread can run.                                                 *)
Init ==
    /\ stopped = [t \in Threads |-> FALSE]
    /\ flags = [t \in Threads |-> 0]
    /\ atBreak = [t \in Threads |-> FALSE]
    /\ faulted = None
    /\ queue = <<>> /\ msgId = 0
    /\ loaded \in SUBSET Entries
    /\ exit = FALSE
    /\ fpc = "receive" /\ shown = None
    /\ first = 0 /\ drawn = [i \in Entries |-> 0] /\ steady = {}
    /\ seen = {}

-----------------------------------------------------------------------------
(* The other threads. *)

(* send_mesg of libultra's exceptasm.s: an event that finds the queue full is
   lost.                                                                     *)
Post(msg) == queue' = IF queue = <<>> THEN <<msg>> ELSE queue

(* An exception nobody handles: the thread is stopped. *)
Crash(t) ==
    /\ ~stopped[t] /\ ~atBreak[t]
    /\ stopped' = [stopped EXCEPT ![t] = TRUE]
    /\ flags' = [flags EXCEPT ![t] = FAULT]
    /\ faulted' = t
    /\ seen' = seen \ {t}
    /\ Post(FAULT)
    /\ UNCHANGED <<atBreak, msgId, loaded, exit, fpc, shown, screen>>

(* A break instruction: the thread is not stopped, and will be back at the same
   instruction whenever it gets to run.                                      *)
Break(t) ==
    /\ ~stopped[t]
    /\ flags' = [flags EXCEPT ![t] = CPU_BREAK]
    /\ atBreak' = [atBreak EXCEPT ![t] = TRUE]
    /\ Post(CPU_BREAK)
    /\ UNCHANGED <<stopped, faulted, msgId, loaded, exit, fpc, shown, screen, seen>>

(* A thread that is at no break goes on, and may load or unload an overlay. *)
Overlay(t, i) ==
    /\ ~stopped[t] /\ ~atBreak[t]
    /\ loaded' = IF i \in loaded THEN loaded \ {i} ELSE loaded \cup {i}
    /\ steady' = steady \ {i}
    /\ UNCHANGED <<threads, faulted, queue, msgId, exit, fpc, shown, first, drawn, seen>>

(* Somebody with a debugger sets fault_exit: nothing in the code does. *)
SetExit ==
    /\ ~exit
    /\ exit' = TRUE
    /\ UNCHANGED <<threads, faulted, queue, msgId, loaded, fpc, shown, screen, seen>>

-----------------------------------------------------------------------------
(* The fault thread. *)

(* The places in the queue of the threads that FindFaultedThread looks for. *)
Faulty == {i \in Places : Active[i] \in Eligible /\ flags[Active[i]] # 0}

(* Variant: the walk ends at the first thread. *)
FindNewest == IF 1 \in Faulty THEN Active[1] ELSE None

(* FindFaultedThread *)
Find == IF Faulty = {} THEN None ELSE Active[Min(Faulty)]

(* Variant: the faulted thread is looked for only if there is a break. *)
TakeByMessage ==
    /\ fpc = "receive"
    /\ queue # <<>>
    /\ queue' = <<>>
    /\ msgId' = Head(queue)
    /\ LET who == IF Head(queue) = FAULT THEN faulted ELSE Find
       IN  IF who = None
           THEN UNCHANGED <<fpc, shown, seen>>
           ELSE /\ fpc' = "combo"
                /\ shown' = who
                /\ seen' = seen \cup {who}
    /\ UNCHANGED <<threads, faulted, loaded, exit, screen>>

(* An event: any thread that crashed since the last one goes before those that
   ran into a break.                                                         *)
TakeEvent ==
    /\ fpc = "receive"
    /\ queue # <<>>
    /\ queue' = <<>>
    /\ msgId' = Head(queue)
    /\ LET who == IF faulted # None THEN faulted ELSE Find
       IN  IF who = None
           THEN UNCHANGED <<fpc, shown, seen>>
           ELSE /\ fpc' = "combo"
                /\ shown' = who
                /\ seen' = seen \cup {who}
    /\ UNCHANGED <<threads, faulted, loaded, exit, screen>>

(* The ends at which a page that begins with from is full. *)
Full(from) ==
    {e \in from .. Count : Cardinality({i \in loaded : from <= i /\ i < e}) = PageSize}

(* func_800708D4: the entry the next page begins with.  The loop ends behind the
   last entry drawn if the page is full, at the end of the table if not.      *)
PageEnd(from) == IF Full(from) # {} THEN Min(Full(from)) ELSE Count

(* ... and the entries on the page that begins with from. *)
Page(from) == {i \in loaded : from <= i /\ i < PageEnd(from)}

Draw(from) ==
    /\ drawn' = [i \in Entries |-> (IF from = 0 THEN 0 ELSE drawn[i])
                                     + (IF i \in Page(from) THEN 1 ELSE 0)]
    /\ steady' = IF from = 0 THEN loaded ELSE steady

(* Variant: the last entry of a full page comes again. *)
DrawPageAgain(from) ==
    /\ first' = IF Full(from) # {} THEN Min(Full(from)) - 1 ELSE Count
    /\ Draw(from)

(* func_80070988 *)
DrawPage(from) ==
    /\ first' = PageEnd(from)
    /\ Draw(from)

(* Fault_WaitButtonCombo returns; a round begins with the first page. *)
Unlock ==
    /\ fpc = "combo"
    /\ fpc' = "overlays"
    /\ DrawPage(0)
    /\ UNCHANGED <<threads, faulted, queue, msgId, loaded, exit, shown, seen>>

(* Fault_WaitInput returns: a button was pressed, and the next page is drawn. *)
NextPage ==
    /\ fpc = "overlays"
    /\ first < Count
    /\ DrawPage(first)
    /\ UNCHANGED <<threads, faulted, queue, msgId, loaded, exit, fpc, shown, seen>>

Screen == <<"overlays", "info", "context", "rom", "stack">>

NextScreen ==
    /\ \E i \in 1 .. 4 : fpc = Screen[i] /\ fpc' = Screen[i + 1]
    /\ fpc = "overlays" => first >= Count
    /\ UNCHANGED <<threads, faulted, queue, msgId, loaded, exit, shown, screen, seen>>

NextRound ==
    /\ fpc = "stack"
    /\ ~exit
    /\ fpc' = "overlays"
    /\ DrawPage(0)
    /\ UNCHANGED <<threads, faulted, queue, msgId, loaded, exit, shown, seen>>

(* Fault_ResumeThread makes the next instruction a break. *)
Resume ==
    /\ fpc = "stack"
    /\ exit
    /\ fpc' = "receive"
    /\ stopped' = [stopped EXCEPT ![shown] = FALSE]
    /\ atBreak' = [atBreak EXCEPT ![shown] = TRUE]
    /\ UNCHANGED <<flags, faulted, queue, msgId, loaded, exit, shown, screen, seen>>

FaultThread == TakeEvent \/ Unlock \/ NextPage \/ NextScreen \/ NextRound \/ Resume

Next ==
    \/ \E t \in Threads : Crash(t) \/ Break(t)
    \/ \E t \in Threads, i \in Entries : Overlay(t, i)
    \/ SetExit
    \/ FaultThread

Spec == Init /\ [][Next]_vars

(* The fault thread has the highest priority, and somebody is at the pad: he
   types the sequence (see FaultCombo) and presses a button on each page.  While
   the fault thread waits, some thread runs, and a thread at a break can do
   nothing else than run into it.                                            *)
Fairness ==
    /\ WF_vars(FaultThread)
    /\ WF_vars(\E t \in Threads : atBreak[t] /\ Break(t))

FairSpec == Spec /\ Fairness

-----------------------------------------------------------------------------
TypeOK ==
    /\ stopped \in [Threads -> BOOLEAN]
    /\ flags \in [Threads -> {0, CPU_BREAK, FAULT}]
    /\ atBreak \in [Threads -> BOOLEAN]
    /\ faulted \in Threads \cup {None}
    /\ queue \in {<<>>, <<CPU_BREAK>>, <<FAULT>>}
    /\ msgId \in {0, CPU_BREAK, FAULT}
    /\ loaded \subseteq Entries
    /\ exit \in BOOLEAN
    /\ fpc \in {"receive", "combo"} \cup {Screen[i] : i \in 1 .. 5}
    /\ shown \in Threads \cup {None}
    /\ fpc # "receive" => shown # None
    /\ first \in 0 .. Count
    /\ drawn \in [Entries -> Nat]
    /\ steady \subseteq Entries
    /\ seen \subseteq Threads

(* A thread that crashed or ran into a break never executes another instruction
   of the game: it is stopped or at a break, also after it was resumed.      *)
NeverRunsOn == \A t \in Threads : flags[t] # 0 => stopped[t] \/ atBreak[t]

(* The thread on the screen is one that crashed or ran into a break. *)
ShownIsFaulty == fpc # "receive" => flags[shown] # 0

(* The last thread that crashed has been shown or will be: events may be lost,
   but never all those that came after the fault thread looked last.         *)
LastCrashPending == faulted # None /\ faulted \notin seen => queue # <<>>

(* fault.c:642-699, exceptasm.s:908-972: who crashed stays down, nobody else is
   shown, and the screen is on its way when it is needed.                     *)
FaultInv == TypeOK /\ NeverRunsOn /\ ShownIsFaulty /\ LastCrashPending

(* In every round each entry is drawn once at most, and if it stays loaded all
   the while, at least once; an entry unloaded and loaded again may be missed. *)
PagesCover ==
    /\ \A i \in Entries : drawn[i] <= 1
    /\ fpc = "info" => \A i \in steady : drawn[i] = 1

(* A crash of any thread, or a break of an eligible one, brings up the screen
   with its registers.                                                       *)
CrashIsShown == faulted # None \/ (\E t \in Eligible : flags[t] # 0)
                  ~> fpc = "context"
=============================================================================
