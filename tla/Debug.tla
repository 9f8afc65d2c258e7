-------------------------------- MODULE Debug --------------------------------
(***************************************************************************)
(* Two aids of src/main/O2 for whoever debugs the game: the text printer and  *)
(* the stack checker.  They share no state.                                   *)
(***************************************************************************)
EXTENDS GfxPrint

CONSTANTS Entries, Size, MinSpace, NULL

VARIABLES listStart, listEnd, next, prev, stored, iter, word, all, ret, registered,
          former, held, answers

Stack == INSTANCE StackCheck

stacks == <<listStart, listEnd, next, prev, stored, iter, word, all, ret, registered,
            former, held, answers>>

ASSUME StackAssumption == Stack!StackAssumption

\* stackcheck.c:15-55, :59-70, :76-89: which calls keep the list right, that each
\* of a right list is judged, and that the answers are true; see StackCheck.
ListKept == Stack!ListKept
StackInv == Stack!StackInv
AnswerIsTrue == Stack!AnswerIsTrue
=============================================================================
