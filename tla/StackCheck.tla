------------------------------ MODULE StackCheck ------------------------------
(***************************************************************************)
(* The stack checker of src/main/O2/stackcheck.c.  Every thread registers  *)
(* its stack with StackCheck_Init, which appends the entry to a doubly     *)
(* linked list and paints the stack with one value; StackCheck_Check reads *)
(* a stack, or every stack of the list, word by word from the end the      *)
(* thread reaches last, and calls free what still holds the paint.         *)
(*                                                                         *)
(* The threads are the ones being checked: between any two words read, any *)
(* of them may run and store in its stack, the paint's own value (zero in  *)
(* every caller) included.  Registering, cleaning up and checking are done *)
(* by one thread.  Every entry has a stack of Size words and the paint is  *)
(* one value: head, tail, name and initValue stay with their entry.        *)
(***************************************************************************)
EXTENDS Integers, Sequences, SequencesExt, FiniteSetsExt

CONSTANTS
    Entries,    \* the stacks that may be registered
    Size,       \* words in a stack; word 0 is the last one its thread reaches
    MinSpace,   \* minSpace of each, in words; -1 turns painting and warning off
    NULL        \* the null pointer

StackAssumption ==
    /\ NULL \notin Entries
    /\ Size \in Nat \ {0}
    /\ MinSpace \in [Entries -> Nat \cup {-1}]

VARIABLES
    listStart, listEnd,     \* sStackInfoListStart, sStackInfoListEnd
    next, prev,             \* the links of each entry
    stored,                 \* per entry, the words that no longer hold the paint
    iter,                   \* entry being read, NULL when no check is running
    word,                   \* index of the word StackCheck_Check reads next
    all,                    \* the check was called with NULL: every entry
    ret,                    \* its ret so far: some entry was not all right
    registered,             \* history: the entries registered, oldest first
    former,                 \* history: words stored in before the stack was
                            \*   registered and not since
    held,                   \* history: words of iter not painted since its
                            \*   reading began
    answers                 \* history: what the last check said, stack by
                            \*   stack, if the list has not changed since; of a
                            \*   walk in circles, the first of it

links == <<listStart, listEnd, next, prev>>
check == <<iter, word, all, ret, held, answers>>
vars == <<links, stored, check, registered, former>>

Words == 0 .. Size - 1
Painted(e) == MinSpace[e] # -1
IsRegistered(e) == e \in Range(registered)
Place(e) == CHOOSE i \in DOMAIN registered : registered[i] = e
Without(e) == IF IsRegistered(e) THEN RemoveAt(registered, Place(e)) ELSE registered

Init ==
    /\ listStart = NULL
    /\ listEnd = NULL
    /\ next = [e \in Entries |-> NULL]
    /\ prev = [e \in Entries |-> NULL]
    /\ stored = [e \in Entries |-> {}]
    /\ iter = NULL
    /\ word = 0
    /\ all = FALSE
    /\ ret = 0
    /\ registered = <<>>
    /\ former = [e \in Entries |-> {}]
    /\ held = {}
    /\ answers = <<>>

-----------------------------------------------------------------------------
(* The list. *)

\* The links of StackCheck_Init: entry->prev is the old end, whose next is
\* the entry.  The old end may be the entry itself.
Link(e) ==
    /\ prev' = [prev EXCEPT ![e] = listEnd]
    /\ next' = [f \in Entries |-> IF f = listEnd THEN e
                                  ELSE IF f = e THEN NULL ELSE next[f]]
    /\ listStart' = IF listStart = NULL THEN e ELSE listStart
    /\ listEnd' = e

\* StackCheck_Init of an entry, one that is in the list already included.
Register(e) ==
    /\ iter = NULL
    /\ Link(e)
    /\ stored' = IF Painted(e) THEN [stored EXCEPT ![e] = {}] ELSE stored
    /\ registered' = Append(Without(e), e)
    /\ former' = [former EXCEPT ![e] = stored'[e]]
    /\ answers' = <<>>
    /\ UNCHANGED <<iter, word, all, ret, held>>

\* StackCheck_Init(NULL): the list is emptied, and its end is kept.
Reset ==
    /\ iter = NULL
    /\ listStart' = NULL
    /\ registered' = <<>>
    /\ answers' = <<>>
    /\ UNCHANGED <<listEnd, next, prev, stored, former, iter, word, all, ret, held>>

\* The end of the list is left alone: what Unlink could be.
UnlinkInside(e) ==
    /\ listStart' = IF prev[e] = NULL THEN next[e] ELSE listStart
    /\ next' = [f \in Entries |-> IF f = prev[e] THEN next[e] ELSE next[f]]
    /\ UNCHANGED <<listEnd, prev>>

\* The links of StackCheck_Cleanup.  The prev of the entry behind is not
\* changed: it goes on pointing to the entry cleaned up.
Unlink(e) ==
    /\ listStart' = IF prev[e] = NULL THEN next[e] ELSE listStart
    /\ next' = [f \in Entries |-> IF f = prev[e] THEN next[e] ELSE next[f]]
    /\ listEnd' = IF next[e] = NULL THEN prev[e] ELSE listEnd
    /\ UNCHANGED prev

\* StackCheck_Cleanup, of any entry.
Cleanup(e) ==
    /\ iter = NULL
    /\ Unlink(e)
    /\ registered' = Without(e)
    /\ answers' = <<>>
    /\ UNCHANGED <<stored, former, iter, word, all, ret, held>>

-----------------------------------------------------------------------------
(* The threads and the check. *)

\* The thread of e stores something in a word of its stack.
Use(e, w, paint) ==
    /\ stored' = [stored EXCEPT ![e] = IF paint THEN @ \ {w} ELSE @ \cup {w}]
    /\ former' = [former EXCEPT ![e] = @ \ {w}]
    /\ held' = IF e = iter /\ paint THEN held \ {w} ELSE held
    /\ UNCHANGED <<links, iter, word, all, ret, answers, registered>>

\* The index is not set back: what Read could be.
ReadOn(e) ==
    /\ iter' = e
    /\ word' = word
    /\ held' = IF e = NULL THEN {} ELSE stored[e]

\* The reading of an entry begins at its head.
Read(e) ==
    /\ iter' = e
    /\ word' = 0
    /\ held' = IF e = NULL THEN {} ELSE stored[e]

\* StackCheck_Check(entry), of one entry or, with NULL, of the list.
Check(e) ==
    /\ iter = NULL
    /\ e # NULL => IsRegistered(e)
    /\ all' = (e = NULL)
    /\ ret' = 0
    /\ answers' = <<>>
    /\ Read(IF e = NULL THEN listStart ELSE e)
    /\ UNCHANGED <<links, stored, registered, former>>

\* One word of the loop: it still holds the paint.
ReadWord ==
    /\ iter # NULL
    /\ word \in Words \ stored[iter]
    /\ word' = word + 1
    /\ UNCHANGED <<links, stored, iter, all, ret, held, answers, registered, former>>

\* The answer for a stack with that many words free.
Status(e, free) ==
    CASE free = 0 -> "overflow"
      [] free # 0 /\ Painted(e) /\ free < MinSpace[e] -> "warning"
      [] OTHER -> "ok"

\* The last status alone counts: what Worst could be.
WorstLast(r, status) == IF status # "ok" THEN 1 ELSE 0

\* ret of the check of the list.
Worst(r, status) == IF status # "ok" THEN 1 ELSE r

\* The loop ends, at a word that was stored in or at the tail: the status,
\* and the next entry when every entry is checked.
Judge ==
    /\ iter # NULL
    /\ word = Size \/ word \in stored[iter]
    /\ LET status == Status(iter, word)
       IN  /\ answers' = IF Len(answers) > Len(registered) THEN answers
                         ELSE Append(answers, [entry |-> iter, status |-> status])
           /\ ret' = Worst(ret, status)
    /\ Read(IF all THEN next[iter] ELSE NULL)
    /\ UNCHANGED <<links, stored, all, registered, former>>

Next ==
    \/ Reset
    \/ \E e \in Entries : Register(e) \/ Cleanup(e)
    \/ \E e \in Entries, w \in Words, paint \in BOOLEAN : Use(e, w, paint)
    \/ \E e \in Entries \cup {NULL} : Check(e)
    \/ ReadWord
    \/ Judge

Spec == Init /\ [][Next]_vars

-----------------------------------------------------------------------------
(* Properties. *)

Answer == [entry : Entries, status : {"ok", "warning", "overflow"}]

\* Everything has its type.
TypeOK ==
    /\ {listStart, listEnd} \subseteq Entries \cup {NULL}
    /\ {next, prev} \subseteq [Entries -> Entries \cup {NULL}]
    /\ stored \in [Entries -> SUBSET Words]
    /\ former \in [Entries -> SUBSET Words]
    /\ registered \in Seq(Entries)
    /\ iter \in Entries \cup {NULL}
    /\ word \in 0 .. Size
    /\ all \in BOOLEAN /\ ret \in {0, 1}
    /\ held \subseteq Words
    /\ Range(answers) \subseteq Answer

\* The walk from the start meets the registered entries, oldest first, each once.
ListIsRegistered ==
    IF registered = <<>>
    THEN listStart = NULL
    ELSE /\ listStart = Head(registered)
         /\ listEnd = Last(registered)
         /\ next[Last(registered)] = NULL
         /\ \A i \in 1 .. Len(registered) - 1 : next[registered[i]] = registered[i + 1]

Behind(e) == IF Place(e) = 1 THEN NULL ELSE registered[Place(e) - 1]

\* The entry is new, and not the end that StackCheck_Init(NULL) left behind.
MayRegister(e) == ~IsRegistered(e) /\ e # listEnd

\* The entry it was registered behind is still the one in front of it.
MayCleanup(e) == prev[e] = Behind(e)

\* StackCheck_Init and StackCheck_Cleanup (:15-34, :45-55), whose links may be
\* out of date: from a list that is right, registering an entry makes a list that
\* is right exactly when the entry is not in the list and is not its old end, and
\* cleaning up a registered entry exactly when the entry in front of it has not
\* been cleaned up or forgotten since; nothing else breaks the list.
ListKept ==
    [][ListIsRegistered =>
        /\ \A e \in Entries :
             /\ Register(e) => (ListIsRegistered' <=> MayRegister(e))
             /\ Cleanup(e) /\ IsRegistered(e) => (ListIsRegistered' <=> MayCleanup(e))
        /\ (\A e \in Entries : ~Register(e) /\ ~Cleanup(e)) => ListIsRegistered']_<<links, registered>>

\* StackCheck_Check(NULL) (:59-70): while the list is right, and however many
\* calls came before, when the check is over each registered stack was judged, in
\* order, and the result is 1 exactly when one was not all right.
EveryStackJudged ==
    ListIsRegistered /\ iter = NULL /\ all /\ answers # <<>> =>
        /\ [i \in DOMAIN answers |-> answers[i].entry] = registered
        /\ ret = 1 <=> \E i \in DOMAIN answers : answers[i].status # "ok"

StackInv == TypeOK /\ IsInjective(registered) /\ EveryStackJudged

Judged == Len(answers') = Len(answers) + 1
FreeSeen == word

\* StackCheck_Check (:76-89), with the threads running between the words: the
\* free space it sees is never more than what was stored in during the whole
\* reading leaves, and in a painted stack the word it stops at was stored in
\* since the registration: no overflow that is there to be seen is missed or
\* taken for a warning, and none is invented.
AnswerIsTrue ==
    [][Judged => /\ \A w \in held : FreeSeen <= w
                 /\ 0 \in held => Last(answers').status = "overflow"
                 /\ Painted(iter) => FreeSeen \notin former[iter]]_vars

=============================================================================
