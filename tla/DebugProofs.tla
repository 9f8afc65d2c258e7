----------------------------- MODULE DebugProofs -----------------------------
(***************************************************************************)
(* The printer draws what it was asked for, for every set of colours and every *)
(* set of columns: PrinterInv adds to PrintInv what holds of the last glyph,  *)
(* which PutGlyph restores and every other call makes void.  Which calls keep *)
(* the list of stacks right and which break it, and that what a check answers *)
(* is true, for any stacks of any size: StackIInv says how far a check has    *)
(* come in a stack and, while the list is right, in the list.                 *)
(***************************************************************************)
EXTENDS Debug, SequenceTheorems, TLAPS

USE DEF Tab, Glyph, Black, pen

\* A position is kept modulo the width of a tab.
LEMMA Wraps == \A n \in Int : n % Tab \in 0 .. Tab - 1
  OBVIOUS

LEMMA InitInv == Init => PrinterInv
<1> SUFFICES ASSUME Init PROVE PrinterInv
  OBVIOUS
<1>1. shown \in [mode : Modes, prim : Colours \cup {Black}, drawn : BOOLEAN] /\ ~shown.drawn
  BY DEF Init, NoGlyph, Modes
<1>3. color \in Colours \cup {Black}
  BY Zenon DEF Init
<1>4. posX \in 0 .. Tab - 1 /\ offsetX \in 0 .. Tab - 1
  BY DEF Init
<1>5. TypeOK
  BY <1>1, <1>3, <1>4, Zenon DEF Init, TypeOK
<1> QED
  BY <1>1, <1>5 DEF Init, PrinterInv, PrintInv, GlyphAsAsked

\* A glyph: the mode and the colour it is drawn with are the ones asked for.
LEMMA GlyphInv ==
    ASSUME PrinterInv, isOpen, PutGlyph, inTab' \in BOOLEAN
    PROVE  PrinterInv'
<1>1. posX' \in 0 .. Tab - 1
  <2>1. posX + Glyph \in Int /\ posX' = (posX + Glyph) % Tab
    BY DEF PrinterInv, PrintInv, TypeOK, PutGlyph
  <2> QED
    BY <2>1, Wraps
<1> USE DEF PrinterInv, PrintInv, TypeOK, PutGlyph
<1>2. rdp' \in Rdp /\ rdp'.prim = color' /\ reopened' = reopened
      /\ rdp'.mode = IF reopened THEN "setup" ELSE ModeAsked
  BY DEF Rdp, Modes, ModeSet, AfterShadow, ModeAsked
<1>3. /\ shown' \in [mode : Modes, prim : Colours \cup {Black}, drawn : BOOLEAN]
      /\ shown'.mode = rdp'.mode /\ shown'.prim = rdp'.prim
  BY <1>2 DEF Rdp
<1>4. TypeOK'
  BY <1>1, <1>2, <1>3
<1>5. /\ isChanged' = FALSE /\ ModeAsked' = ModeAsked
      /\ shown'.mode = IF reopened' THEN "setup" ELSE ModeAsked'
      /\ rdp'.mode = IF reopened' THEN "setup" ELSE ModeAsked'
      /\ shown'.prim = color'
  BY <1>2, <1>3 DEF ModeAsked
<1>6. PrinterInv'
  <2> HIDE DEF TypeOK, PrintInv, PrinterInv, PutGlyph
  <2> QED
    BY <1>2, <1>4, <1>5 DEF PrinterInv, PrintInv, GlyphAsAsked
<1> QED
  BY <1>6

LEMMA NextInv == PrinterInv /\ [Next]_vars => PrinterInv'
<1> SUFFICES ASSUME PrinterInv, [Next]_vars PROVE PrinterInv'
  OBVIOUS
<1> USE DEF PrinterInv, PrintInv, TypeOK, ModeAsked
<1>1. Calling => shown' \in [mode : Modes, prim : Colours \cup {Black}, drawn : BOOLEAN]
              /\ ~shown'.drawn
  BY DEF Calling, NoGlyph, Modes
<1>2. CASE InitPrint
  <2>2. color' \in Colours \cup {Black}
    BY <1>2, Zenon DEF InitPrint
  <2>3. posX' \in 0 .. Tab - 1 /\ offsetX' \in 0 .. Tab - 1
    BY <1>2 DEF InitPrint
  <2>4. /\ isOpen' = FALSE /\ isGradient' = FALSE /\ isChanged' = TRUE /\ reopened' = FALSE
        /\ inTab' = FALSE /\ inTab' = inTab /\ rdp' = rdp /\ shown' = NoGlyph
    BY <1>2, Zenon DEF InitPrint, Calling
  <2>5. TypeOK'
    BY <1>1, <1>2, <2>2, <2>3, <2>4 DEF InitPrint
  <2> QED
    BY <2>4, <2>5 DEF GlyphAsAsked, NoGlyph
<1>3. CASE Others
  BY <1>1, <1>3 DEF Others, Calling, GlyphAsAsked
<1>4. CASE Open
  <2>1. rdp' \in Rdp /\ (~isOpen => rdp'.prim = color)
    BY <1>4 DEF Open, Setup, Rdp, Modes
  <2>2. /\ inTab' = inTab /\ color' = color /\ posX' = posX /\ offsetX' = offsetX
        /\ isChanged' = isChanged /\ isGradient' = isGradient /\ ModeAsked' = ModeAsked
        /\ shown' = NoGlyph /\ isOpen' \in BOOLEAN /\ ~inTab
    BY <1>4 DEF Open, Calling
  <2>3. reopened' \in BOOLEAN
    BY <1>4, Zenon DEF Open
  <2>4. TypeOK'
    BY <1>1, <1>4, <2>1, <2>2, <2>3 DEF Open
  <2>5. reopened' => ~isChanged'
    <3>1. reopened => ~isChanged
      OBVIOUS
    <3>2. IF isOpen THEN reopened' = reopened ELSE reopened' = ~isChanged
      BY <1>4, Zenon DEF Open
    <3> HIDE DEF TypeOK, PrintInv, PrinterInv, ModeAsked
    <3>3. isChanged' = isChanged
      BY <2>2
    <3> QED
      BY <3>1, <3>2, <3>3, Zenon
  <2>6. CASE isOpen
    <3>1. isOpen' = isOpen /\ rdp' = rdp /\ reopened' = reopened
      BY <1>4, <2>6 DEF Open
    <3> QED
      BY <2>2, <2>4, <2>5, <3>1 DEF GlyphAsAsked, NoGlyph
  <2>7. CASE ~isOpen
    <3>1. rdp'.mode = "setup" /\ rdp'.prim = color'
      BY <1>4, <2>7 DEF Open, Setup
    <3>2. ~isChanged' => reopened'
      <4>1. reopened' = ~isChanged
        BY <1>4, <2>7, Zenon DEF Open
      <4> HIDE DEF TypeOK, PrintInv, PrinterInv, ModeAsked
      <4>2. isChanged' = isChanged
        BY <2>2
      <4> QED
        BY <4>1, <4>2, Zenon
    <3> HIDE DEF TypeOK, PrintInv, PrinterInv, ModeAsked
    <3> QED
      BY <2>2, <2>4, <2>5, <3>1, <3>2 DEF PrinterInv, PrintInv, GlyphAsAsked, NoGlyph
  <2> QED
    BY <2>6, <2>7
<1>5. CASE Close
  BY <1>1, <1>5 DEF Close, Calling, GlyphAsAsked
<1>6. ASSUME NEW c \in Colours, SetColor(c) PROVE PrinterInv'
  BY <1>1, <1>6 DEF SetColor, Printing, Calling, Rdp, GlyphAsAsked
<1>7. ASSUME NEW x \in Columns, Locate(x) PROVE PrinterInv'
  <2>1. posX' \in 0 .. Tab - 1
    <3>1. offsetX + Quarters(x) \in Int /\ posX' = (offsetX + Quarters(x)) % Tab
      BY <1>7, ColumnsAssumption DEF Locate, Quarters
    <3> QED
      BY <3>1, Wraps
  <2> QED
    BY <1>1, <1>7, <2>1 DEF Locate, Calling, GlyphAsAsked
<1>8. ASSUME NEW x \in Columns, SetOffset(x) PROVE PrinterInv'
  <2>1. offsetX' \in 0 .. Tab - 1
    <3>1. Quarters(x) \in Int /\ offsetX' = Quarters(x) % Tab
      BY <1>8, ColumnsAssumption DEF SetOffset, Quarters
    <3> QED
      BY <3>1, Wraps
  <2> QED
    BY <1>1, <1>8, <2>1 DEF SetOffset, Calling, GlyphAsAsked
<1>9. CASE PutChar
  BY <1>9, GlyphInv DEF PutChar
<1>10. CASE PutTab
  BY <1>10, GlyphInv DEF PutTab
<1>11. CASE PutReturn
  BY <1>1, <1>11 DEF PutReturn, Printing, Calling, GlyphAsAsked
<1>12. ASSUME NEW on \in BOOLEAN, PutGradient(on) PROVE PrinterInv'
  BY <1>1, <1>12 DEF PutGradient, Printing, Calling, GlyphAsAsked
<1>13. CASE UNCHANGED vars
  BY <1>13 DEF vars, GlyphAsAsked
<1> QED
  BY <1>2, <1>3, <1>4, <1>5, <1>6, <1>7, <1>8, <1>9, <1>10, <1>11, <1>12, <1>13 DEF Next

\* Both, whatever the colours and the columns (gfxprint.c:36-112, :155-165, :219-230).
THEOREM PrinterHolds == Spec => []PrinterInv
  BY InitInv, NextInv, PTL DEF Spec

\* PrintInv, whatever the colours and the columns: in an open list the RDP holds
\* the colour and the mode the next glyph counts on (gfxprint.c:85-106).
THEOREM PrintInvHolds == Spec => []PrintInv
<1>1. PrinterInv => PrintInv
  BY DEF PrinterInv
<1> QED
  BY <1>1, PrinterHolds, PTL

\* Each glyph is drawn in the colour last given (gfxprint.c:55-63, :101-106) and in
\* the mode last asked for (:85-99), or in that of gfxprint_setup after a gfxprint
\* that drew was opened again (:214-219).
THEOREM GlyphHolds == Spec => []GlyphAsAsked
<1>1. PrinterInv => GlyphAsAsked
  BY DEF PrinterInv
<1> QED
  BY <1>1, PrinterHolds, PTL

HIDE DEF Tab, Glyph, Black, pen

-----------------------------------------------------------------------------
(* What RemoveAt returns. *)
LEMMA RemovedAt ==
    ASSUME NEW S, NEW s \in Seq(S), NEW i \in 1 .. Len(s)
    PROVE  /\ Stack!RemoveAt(s, i) \in Seq(S)
           /\ Len(Stack!RemoveAt(s, i)) = Len(s) - 1
           /\ \A j \in 1 .. Len(s) - 1 :
                Stack!RemoveAt(s, i)[j] = IF j < i THEN s[j] ELSE s[j + 1]
<1> DEFINE a == SubSeq(s, 1, i - 1)
           b == SubSeq(s, i + 1, Len(s))
<1>1. Len(s) \in Nat /\ \A j \in 1 .. Len(s) : s[j] \in S
  BY ElementOfSeq
<1>2. a \in Seq(S) /\ Len(a) = i - 1 /\ \A j \in 1 .. i - 1 : a[j] = s[j]
  BY <1>1, SubSeqProperties
<1>3. b \in Seq(S) /\ Len(b) = Len(s) - i
      /\ \A j \in 1 .. Len(s) - i : b[j] = s[i + j]
  BY <1>1, SubSeqProperties
<1> HIDE DEF a, b
<1>4. /\ a \o b \in Seq(S) /\ Len(a \o b) = Len(a) + Len(b)
      /\ \A j \in 1 .. Len(a) + Len(b) :
           (a \o b)[j] = IF j <= Len(a) THEN a[j] ELSE b[j - Len(a)]
  BY <1>1, <1>2, <1>3, ConcatProperties
<1>5. Stack!RemoveAt(s, i) = a \o b
  BY DEF Stack!RemoveAt, a, b
<1>6. \A j \in i .. Len(s) - 1 : b[j - (i - 1)] = s[j + 1]
  <2> SUFFICES ASSUME NEW j \in i .. Len(s) - 1
               PROVE  b[j - (i - 1)] = s[j + 1]
    OBVIOUS
  <2>1. j - (i - 1) \in 1 .. Len(s) - i /\ i + (j - (i - 1)) = j + 1
    BY <1>1
  <2> QED
    BY <1>3, <2>1
<1>7. Len(a) + Len(b) = Len(s) - 1
  BY <1>1, <1>2, <1>3
<1>8. ASSUME NEW j \in 1 .. Len(s) - 1
      PROVE  (a \o b)[j] = IF j < i THEN s[j] ELSE s[j + 1]
  <2>1. CASE j < i
    BY <1>1, <1>2, <1>4, <1>7, <2>1
  <2>2. CASE j >= i
    <3>1. Len(a) = i - 1 /\ ~(j <= Len(a)) /\ j \in 1 .. Len(a) + Len(b)
      BY <1>1, <1>2, <1>7, <2>2
    <3>2. (a \o b)[j] = b[j - Len(a)]
      BY <1>4, <3>1
    <3>3. b[j - (i - 1)] = s[j + 1] /\ ~(j < i)
      BY <1>1, <1>6, <2>2
    <3> QED
      BY <3>1, <3>2, <3>3
  <2>3. j < i \/ j >= i
    OBVIOUS
  <2> QED
    BY <2>1, <2>2, <2>3
<1> QED
  BY <1>4, <1>5, <1>7, <1>8

-----------------------------------------------------------------------------
(* The invariant of the stack checker. *)
In(e) == \E i \in 1 .. Len(registered) : registered[i] = e

(* The links and the history have their types. *)
Linked ==
    /\ registered \in Seq(Entries)
    /\ \A i, j \in 1 .. Len(registered) : registered[i] = registered[j] => i = j
    /\ next \in [Entries -> Entries \cup {NULL}]
    /\ prev \in [Entries -> Entries \cup {NULL}]
    /\ listStart \in Entries \cup {NULL} /\ listEnd \in Entries \cup {NULL}

(* The list is right, entry by entry. *)
Chained ==
    /\ Len(registered) = 0 => listStart = NULL
    /\ Len(registered) # 0 => /\ listStart = registered[1]
                              /\ listEnd = registered[Len(registered)]
                              /\ next[listEnd] = NULL
    /\ \A i \in 1 .. Len(registered) - 1 : next[registered[i]] = registered[i + 1]

(* Nothing from before the registration is left where stacks are painted. *)
Contents ==
    /\ stored \in [Entries -> SUBSET Stack!Words]
    /\ former \in [Entries -> SUBSET Stack!Words]
    /\ \A e \in Entries : Stack!Painted(e) => former[e] = {}

(* What has been stored in all the time is not behind the reading. *)
Reading ==
    /\ word \in 0 .. Size /\ all \in BOOLEAN /\ ret \in {0, 1}
    /\ iter = NULL => held = {}
    /\ iter # NULL => /\ iter \in Entries
                      /\ held \subseteq stored[iter]
                      /\ \A w \in held : word <= w

(* A check of a right list has come as far as its answers. *)
Answered ==
    /\ answers \in Seq(Stack!Answer)
    /\ Chained /\ all /\ (iter # NULL \/ answers # <<>>) =>
         /\ IF iter = NULL THEN Len(answers) = Len(registered)
                           ELSE /\ Len(answers) < Len(registered)
                                /\ iter = registered[Len(answers) + 1]
         /\ \A i \in 1 .. Len(answers) : answers[i].entry = registered[i]
         /\ ret = 1 <=> \E i \in 1 .. Len(answers) : answers[i].status # "ok"

StackIInv == Linked /\ Contents /\ Reading /\ Answered

-----------------------------------------------------------------------------
LEMMA InIsRegistered ==
    ASSUME Linked, NEW e
    PROVE  Stack!IsRegistered(e) <=> In(e)
<1>1. DOMAIN registered = 1 .. Len(registered)
  BY DEF Linked
<1> QED
  BY <1>1 DEF Stack!IsRegistered, Stack!Range, In

(* Chained is what the properties say of the list. *)
LEMMA ChainedIsRight == Linked => (Stack!ListIsRegistered <=> Chained)
<1> SUFFICES ASSUME Linked
             PROVE  Stack!ListIsRegistered <=> Chained
  OBVIOUS
<1>1. registered \in Seq(Entries) /\ Len(registered) \in Nat
  BY DEF Linked
<1>2. CASE registered = <<>>
  <2>1. Len(registered) = 0
    BY <1>2
  <2> QED
    BY <1>2, <2>1 DEF Chained, Stack!ListIsRegistered
<1>3. CASE registered # <<>>
  <2>1. Len(registered) # 0
    BY <1>1, <1>3
  <2>2. Head(registered) = registered[1] /\ Stack!Last(registered) = registered[Len(registered)]
    BY <1>1, <2>1 DEF Stack!Last
  <2> QED
    BY <1>3, <2>1, <2>2 DEF Chained, Stack!ListIsRegistered
<1> QED
  BY <1>2, <1>3

LEMMA ChainedIsRightAfter == (Linked => (Stack!ListIsRegistered <=> Chained))'
  BY ChainedIsRight, PTL

(* What is registered besides an entry. *)
LEMMA WithoutOne ==
    ASSUME Linked, NEW e \in Entries, In(e)
    PROVE  \E k \in 1 .. Len(registered) :
             /\ registered[k] = e
             /\ Stack!Place(e) = k
             /\ Len(Stack!Without(e)) = Len(registered) - 1
             /\ \A j \in 1 .. Len(registered) - 1 :
                  Stack!Without(e)[j] = IF j < k THEN registered[j] ELSE registered[j + 1]
<1> DEFINE k == Stack!Place(e)
<1>1. registered \in Seq(Entries) /\ DOMAIN registered = 1 .. Len(registered)
  BY DEF Linked
<1>2. k \in 1 .. Len(registered) /\ registered[k] = e
  BY <1>1 DEF In, Stack!Place
<1>3. Stack!Without(e) = Stack!RemoveAt(registered, k)
  BY InIsRegistered DEF Stack!Without
<1> HIDE DEF k
<1>4. /\ Len(Stack!Without(e)) = Len(registered) - 1
      /\ \A j \in 1 .. Len(registered) - 1 :
           Stack!Without(e)[j] = IF j < k THEN registered[j] ELSE registered[j + 1]
  BY <1>1, <1>2, <1>3, RemovedAt
<1> QED
  BY <1>2, <1>4 DEF k

LEMMA WithoutNone ==
    ASSUME Linked, NEW e, ~In(e)
    PROVE  Stack!Without(e) = registered
  BY InIsRegistered DEF Stack!Without

LEMMA WithoutTypes ==
    ASSUME Linked, NEW e \in Entries
    PROVE  /\ Stack!Without(e) \in Seq(Entries)
           /\ \A i, j \in 1 .. Len(Stack!Without(e)) :
                Stack!Without(e)[i] = Stack!Without(e)[j] => i = j
           /\ \A i \in 1 .. Len(Stack!Without(e)) : Stack!Without(e)[i] # e
<1> DEFINE w == Stack!Without(e)
           n == Len(registered)
<1>1. /\ registered \in Seq(Entries) /\ n \in Nat
      /\ \A i, j \in 1 .. n : registered[i] = registered[j] => i = j
  BY DEF Linked
<1>2. CASE ~In(e)
  <2>1. w = registered
    BY <1>2, WithoutNone
  <2> QED
    BY <1>1, <1>2, <2>1 DEF In
<1>3. CASE In(e)
  <2>1. PICK k \in 1 .. n :
             /\ registered[k] = e
             /\ Stack!Place(e) = k
             /\ Len(w) = n - 1
             /\ \A j \in 1 .. n - 1 :
                  w[j] = IF j < k THEN registered[j] ELSE registered[j + 1]
    BY <1>3, WithoutOne
  <2>2. w \in Seq(Entries)
    <3>1. w = Stack!RemoveAt(registered, Stack!Place(e))
      BY <1>3, InIsRegistered DEF Stack!Without
    <3> HIDE DEF w
    <3> QED
      BY <1>1, <2>1, <3>1, RemovedAt
  <2> HIDE DEF w, n
  <2>3. ASSUME NEW i \in 1 .. n - 1, NEW j \in 1 .. n - 1, w[i] = w[j]
        PROVE  i = j
    <3> DEFINE a == IF i < k THEN i ELSE i + 1
               b == IF j < k THEN j ELSE j + 1
    <3>1. a \in 1 .. n /\ b \in 1 .. n /\ registered[a] = registered[b]
      BY <1>1, <2>1, <2>3
    <3>2. a = b
      <4> HIDE DEF a, b
      <4> QED
        BY <1>1, <3>1
    <3> QED
      BY <1>1, <2>1, <3>2
  <2>4. ASSUME NEW i \in 1 .. n - 1
        PROVE  w[i] # e
    <3> DEFINE a == IF i < k THEN i ELSE i + 1
    <3>1. a \in 1 .. n /\ a # k /\ w[i] = registered[a]
      BY <1>1, <2>1
    <3> HIDE DEF a
    <3> QED
      BY <1>1, <2>1, <3>1
  <2> QED
    BY <2>1, <2>2, <2>3, <2>4 DEF w, n
<1> QED
  BY <1>2, <1>3

(* An entry is linked in at the end. *)
LEMMA LinkLinks ==
    ASSUME Linked, NEW e \in Entries, Stack!Link(e), registered' = Append(Stack!Without(e), e)
    PROVE  Linked'
<1> DEFINE w == Stack!Without(e)
           m == Len(w)
<1>1. /\ w \in Seq(Entries) /\ m \in Nat
      /\ \A i, j \in 1 .. m : w[i] = w[j] => i = j
      /\ \A i \in 1 .. m : w[i] # e
  BY WithoutTypes
<1> HIDE DEF w
<1>2. /\ registered' \in Seq(Entries) /\ Len(registered') = m + 1
      /\ \A i \in 1 .. m : registered'[i] = w[i]
      /\ registered'[m + 1] = e
  BY <1>1, AppendProperties DEF w
<1> HIDE DEF m
<1>3. \A i, j \in 1 .. m + 1 : registered'[i] = registered'[j] => i = j
  <2> SUFFICES ASSUME NEW i \in 1 .. m + 1, NEW j \in 1 .. m + 1, registered'[i] = registered'[j]
               PROVE  i = j
    OBVIOUS
  <2>1. CASE i \in 1 .. m /\ j \in 1 .. m
    BY <1>1, <1>2, <2>1
  <2>2. CASE i = m + 1 /\ j \in 1 .. m
    BY <1>1, <1>2, <2>2
  <2>3. CASE i \in 1 .. m /\ j = m + 1
    BY <1>1, <1>2, <2>3
  <2>4. (i \in 1 .. m \/ i = m + 1) /\ (j \in 1 .. m \/ j = m + 1)
    BY <1>1
  <2> QED
    BY <2>1, <2>2, <2>3, <2>4
<1>4. /\ next' \in [Entries -> Entries \cup {NULL}] /\ prev' \in [Entries -> Entries \cup {NULL}]
      /\ listStart' \in Entries \cup {NULL} /\ listEnd' \in Entries \cup {NULL}
  BY DEF Linked, Stack!Link
<1> QED
  BY <1>2, <1>3, <1>4 DEF Linked

(* A list that is right, with a new entry behind it. *)
LEMMA LinkChains ==
    ASSUME Linked, Chained, StackAssumption, NEW e \in Entries, ~In(e), e # listEnd,
           Stack!Link(e), registered' = Append(Stack!Without(e), e)
    PROVE  Chained'
<1> DEFINE n == Len(registered)
<1>1. /\ n \in Nat /\ registered \in Seq(Entries) /\ NULL \notin Entries
      /\ \A i \in 1 .. n : registered[i] \in Entries /\ registered[i] # e
  BY StackAssumption, ElementOfSeq DEF Linked, In, Stack!StackAssumption
<1>2. /\ registered' \in Seq(Entries) /\ Len(registered') = n + 1
      /\ \A i \in 1 .. n : registered'[i] = registered[i]
      /\ registered'[n + 1] = e
  BY <1>1, AppendProperties, WithoutNone
<1>3. /\ prev' = [prev EXCEPT ![e] = listEnd]
      /\ next' = [f \in Entries |-> IF f = listEnd THEN e ELSE IF f = e THEN NULL ELSE next[f]]
      /\ listStart' = IF listStart = NULL THEN e ELSE listStart
      /\ listEnd' = e
  BY DEF Stack!Link
<1>4. /\ \A i, j \in 1 .. n : registered[i] = registered[j] => i = j
      /\ next \in [Entries -> Entries \cup {NULL}]
      /\ prev \in [Entries -> Entries \cup {NULL}]
      /\ n = 0 => listStart = NULL
      /\ n # 0 => listStart = registered[1] /\ listEnd = registered[n]
      /\ \A i \in 1 .. n - 1 : next[registered[i]] = registered[i + 1]
  BY DEF Linked, Chained
<1> HIDE DEF n
<1>8. listStart' = registered'[1] /\ listEnd' = registered'[n + 1] /\ next'[listEnd'] = NULL
  BY <1>1, <1>2, <1>3, <1>4
<1>9. \A i \in 1 .. n : next'[registered'[i]] = registered'[i + 1]
  <2> SUFFICES ASSUME NEW i \in 1 .. n
               PROVE  next'[registered[i]] = registered'[i + 1]
    BY <1>2
  <2>1. CASE i = n
    BY <1>1, <1>2, <1>3, <1>4, <2>1
  <2>2. CASE i \in 1 .. n - 1
    <3>1. registered[i] # listEnd /\ i + 1 \in 1 .. n
      BY <1>1, <1>4, <2>2
    <3> QED
      BY <1>1, <1>2, <1>3, <1>4, <2>2, <3>1
  <2>3. i = n \/ i \in 1 .. n - 1
    BY <1>1
  <2> QED
    BY <2>1, <2>2, <2>3
<1> QED
  BY <1>1, <1>2, <1>8, <1>9 DEF Chained

(* An entry of the list, or its old end, breaks it. *)
LEMMA LinkBreaks ==
    ASSUME Linked, Chained, StackAssumption, NEW e \in Entries, In(e) \/ e = listEnd,
           Stack!Link(e), registered' = Append(Stack!Without(e), e)
    PROVE  ~Chained'
<1> DEFINE w == Stack!Without(e)
           m == Len(w)
           n == Len(registered)
<1>1. /\ w \in Seq(Entries) /\ m \in Nat /\ NULL \notin Entries
      /\ \A i \in 1 .. m : w[i] # e
  BY WithoutTypes, StackAssumption DEF Stack!StackAssumption
<1> HIDE DEF w
<1>2. /\ Len(registered') = m + 1
      /\ \A i \in 1 .. m : registered'[i] = w[i]
      /\ registered'[m + 1] = e
  BY <1>1, AppendProperties DEF w
<1>3. /\ next' = [f \in Entries |-> IF f = listEnd THEN e ELSE IF f = e THEN NULL ELSE next[f]]
      /\ listStart' = IF listStart = NULL THEN e ELSE listStart
      /\ listEnd' = e
  BY DEF Stack!Link
<1> SUFFICES ASSUME Chained'
             PROVE  FALSE
  OBVIOUS
<1>4. CASE e = listEnd
  <2>1. next'[listEnd'] = e
    BY <1>3, <1>4
  <2>2. next'[listEnd'] = NULL
    BY <1>1, <1>2 DEF Chained
  <2> QED
    BY <1>1, <2>1, <2>2
<1>5. CASE e # listEnd
  <2>1. /\ n \in Nat /\ \A i \in 1 .. n : registered[i] \in Entries
        /\ \A i, j \in 1 .. n : registered[i] = registered[j] => i = j
    BY ElementOfSeq DEF Linked
  <2>2. PICK k \in 1 .. n :
             /\ registered[k] = e
             /\ m = n - 1
             /\ \A j \in 1 .. n - 1 :
                  w[j] = IF j < k THEN registered[j] ELSE registered[j + 1]
    BY <1>5, WithoutOne DEF w
  <2>3. listStart = registered[1] /\ listEnd = registered[n]
        /\ \A i \in 1 .. n - 1 : next[registered[i]] = registered[i + 1]
    BY <2>1, <2>2 DEF Chained
  <2>4. /\ listStart' = registered'[1]
        /\ \A i \in 1 .. m : next'[registered'[i]] = registered'[i + 1]
    <3>1. Len(registered') # 0 /\ Len(registered') - 1 = m
      BY <1>1, <1>2
    <3> QED
      BY <3>1 DEF Chained
  <2>5. k # n
    BY <1>5, <2>2, <2>3
  <2> HIDE DEF m, n
  <2>6. CASE k = 1
    <3>1. listStart' = e
      BY <1>1, <1>3, <2>1, <2>2, <2>3, <2>6
    <3>2. 1 \in 1 .. m
      BY <2>1, <2>2, <2>5, <2>6
    <3> QED
      BY <1>1, <1>2, <2>4, <3>1, <3>2
  <2>7. CASE k # 1
    <3>1. k - 1 \in 1 .. n - 1 /\ k \in 1 .. n - 1 /\ k - 1 < k /\ (k - 1) + 1 = k
          /\ k - 1 \in 1 .. n /\ n \in 1 .. n /\ k - 1 # n /\ k - 1 # k
      BY <2>1, <2>2, <2>5, <2>7
    <3>2. registered'[k - 1] = registered[k - 1] /\ registered'[k] = w[k]
      BY <1>2, <2>2, <3>1
    <3>3. registered[k - 1] # listEnd /\ registered[k - 1] # e
      BY <2>1, <2>2, <2>3, <3>1
    <3>4. next'[registered[k - 1]] = e
      BY <1>3, <2>1, <2>2, <2>3, <3>1, <3>3
    <3>5. next'[registered'[k - 1]] = registered'[k]
      BY <2>2, <2>4, <3>1
    <3> QED
      BY <1>1, <2>2, <3>1, <3>2, <3>4, <3>5
  <2> QED
    BY <2>6, <2>7
<1> QED
  BY <1>4, <1>5

(* An entry is taken out. *)
LEMMA UnlinkLinks ==
    ASSUME Linked, NEW e \in Entries, Stack!Unlink(e), registered' = Stack!Without(e)
    PROVE  Linked'
<1>1. /\ next' \in [Entries -> Entries \cup {NULL}] /\ prev' \in [Entries -> Entries \cup {NULL}]
      /\ listStart' \in Entries \cup {NULL} /\ listEnd' \in Entries \cup {NULL}
  BY DEF Linked, Stack!Unlink
<1> QED
  BY <1>1, WithoutTypes DEF Linked

(* A list that is right, without an entry whose prev is not out of date. *)
LEMMA UnlinkChains ==
    ASSUME Linked, Chained, StackAssumption, NEW e \in Entries, In(e), Stack!MayCleanup(e),
           Stack!Unlink(e), registered' = Stack!Without(e)
    PROVE  Chained'
<1> DEFINE n == Len(registered)
           k == Stack!Place(e)
<1>1. /\ n \in Nat /\ registered \in Seq(Entries) /\ NULL \notin Entries
      /\ \A i \in 1 .. n : registered[i] \in Entries
      /\ DOMAIN registered = 1 .. n
  BY StackAssumption, ElementOfSeq DEF Linked, Stack!StackAssumption
<1>2. In(e) /\ prev[e] = Stack!Behind(e)
  BY DEF Stack!MayCleanup
<1>3. k \in 1 .. n /\ registered[k] = e
  BY <1>1, <1>2 DEF In, Stack!Place
<1>4. prev[e] = IF k = 1 THEN NULL ELSE registered[k - 1]
  BY <1>2 DEF Stack!Behind
<1>5. /\ Len(registered') = n - 1
      /\ \A j \in 1 .. n - 1 : registered'[j] = IF j < k THEN registered[j] ELSE registered[j + 1]
  BY WithoutOne
<1>6. /\ listStart' = IF prev[e] = NULL THEN next[e] ELSE listStart
      /\ next' = [f \in Entries |-> IF f = prev[e] THEN next[e] ELSE next[f]]
      /\ listEnd' = IF next[e] = NULL THEN prev[e] ELSE listEnd
      /\ prev' = prev
  BY DEF Stack!Unlink
<1>7. /\ \A i, j \in 1 .. n : registered[i] = registered[j] => i = j
      /\ next \in [Entries -> Entries \cup {NULL}]
      /\ prev \in [Entries -> Entries \cup {NULL}]
      /\ n # 0 => listStart = registered[1] /\ listEnd = registered[n] /\ next[listEnd] = NULL
      /\ \A i \in 1 .. n - 1 : next[registered[i]] = registered[i + 1]
  BY DEF Linked, Chained
<1> HIDE DEF n, k
<1>8. next[e] = IF k = n THEN NULL ELSE registered[k + 1]
  <2>1. CASE k = n
    BY <1>1, <1>3, <1>7, <2>1
  <2>2. CASE k # n
    <3>1. k \in 1 .. n - 1
      BY <1>1, <1>3, <2>2
    <3> QED
      BY <1>3, <1>7, <2>2, <3>1
  <2> QED
    BY <2>1, <2>2
<1>11. n - 1 = 0 => listStart' = NULL
  <2> SUFFICES ASSUME n - 1 = 0
               PROVE  listStart' = NULL
    OBVIOUS
  <2>1. n = 1 /\ k = 1
    BY <1>1, <1>3
  <2> QED
    BY <1>4, <1>6, <1>8, <2>1
<1>12. \A i \in 1 .. n - 2 : next'[registered'[i]] = registered'[i + 1]
  <2> SUFFICES ASSUME NEW i \in 1 .. n - 2
               PROVE  next'[registered'[i]] = registered'[i + 1]
    OBVIOUS
  <2>1. i \in 1 .. n - 1 /\ i + 1 \in 1 .. n - 1 /\ n \in Nat /\ k \in 1 .. n /\ i + 2 \in 1 .. n
    BY <1>1, <1>3
  <2>2. CASE i + 1 < k
    <3>1. registered'[i] = registered[i] /\ registered'[i + 1] = registered[i + 1]
      BY <1>5, <2>1, <2>2
    <3>2. registered[i] # prev[e]
      <4>1. k - 1 \in 1 .. n /\ i \in 1 .. n /\ i # k - 1 /\ k # 1
        BY <2>1, <2>2
      <4> QED
        BY <1>4, <1>7, <4>1
    <3> QED
      BY <1>1, <1>6, <1>7, <2>1, <3>1, <3>2
  <2>3. CASE i + 1 = k
    <3>1. registered'[i] = registered[k - 1] /\ registered'[i + 1] = registered[k + 1] /\ k # 1
          /\ k # n /\ k - 1 \in 1 .. n
      BY <1>5, <2>1, <2>3
    <3> QED
      BY <1>1, <1>4, <1>6, <1>8, <3>1
  <2>4. CASE i >= k
    <3>1. registered'[i] = registered[i + 1] /\ registered'[i + 1] = registered[i + 2]
      BY <1>5, <2>1, <2>4
    <3>2. registered[i + 1] # prev[e]
      <4>1. CASE k = 1
        BY <1>1, <1>4, <2>1, <4>1
      <4>2. CASE k # 1
        <5>1. k - 1 \in 1 .. n /\ i + 1 \in 1 .. n /\ i + 1 # k - 1
          BY <2>1, <2>4, <4>2
        <5> QED
          BY <1>4, <1>7, <4>2, <5>1
      <4> QED
        BY <4>1, <4>2
    <3>3. next[registered[i + 1]] = registered[i + 2]
      <4>1. (i + 1) + 1 = i + 2 /\ i + 1 \in 1 .. n - 1
        BY <2>1
      <4> QED
        BY <1>7, <4>1
    <3> QED
      BY <1>1, <1>6, <2>1, <3>1, <3>2, <3>3
  <2>5. i + 1 < k \/ i + 1 = k \/ i >= k
    BY <2>1
  <2> QED
    BY <2>2, <2>3, <2>4, <2>5
<1>13. n - 1 # 0 => /\ listStart' = registered'[1] /\ listEnd' = registered'[n - 1]
                    /\ next'[listEnd'] = NULL
  <2> SUFFICES ASSUME n - 1 # 0
               PROVE  /\ listStart' = registered'[1] /\ listEnd' = registered'[n - 1]
                      /\ next'[listEnd'] = NULL
    OBVIOUS
  <2>1. n \in Nat /\ n >= 2 /\ k \in 1 .. n /\ 1 \in 1 .. n - 1 /\ n - 1 \in 1 .. n - 1
    BY <1>1, <1>3
  <2>2. listStart' = registered'[1]
    <3>1. CASE k = 1
      BY <1>4, <1>5, <1>6, <1>8, <2>1, <3>1
    <3>2. CASE k # 1
      <4>1. registered'[1] = registered[1] /\ k - 1 \in 1 .. n
        BY <1>5, <2>1, <3>2
      <4>2. prev[e] # NULL
        BY <1>1, <1>4, <3>2, <4>1
      <4> QED
        BY <1>6, <1>7, <2>1, <4>1, <4>2
    <3> QED
      BY <3>1, <3>2
  <2>3. CASE k = n
    <3>1. registered'[n - 1] = registered[n - 1] /\ n - 1 \in 1 .. n
      BY <1>5, <2>1, <2>3
    <3>2. listEnd' = registered[n - 1] /\ next[e] = NULL /\ prev[e] = registered[n - 1]
      BY <1>4, <1>6, <1>8, <2>1, <2>3
    <3> QED
      BY <1>1, <1>6, <2>2, <3>1, <3>2
  <2>4. CASE k # n
    <3>1. registered'[n - 1] = registered[n] /\ k + 1 \in 1 .. n /\ n \in 1 .. n
      <4>1. n - 1 >= k /\ (n - 1) + 1 = n
        BY <2>1, <2>4
      <4> QED
        BY <1>5, <2>1, <2>4, <4>1
    <3>2. next[e] # NULL
      BY <1>1, <1>8, <2>4, <3>1
    <3>3. listEnd' = registered[n] /\ next[registered[n]] = NULL
      BY <1>6, <1>7, <2>1, <3>2
    <3>4. registered[n] # prev[e]
      <4>1. CASE k = 1
        BY <1>1, <1>4, <3>1, <4>1
      <4>2. CASE k # 1
        <5>1. k - 1 \in 1 .. n /\ n # k - 1
          BY <2>1, <4>2
        <5> QED
          BY <1>4, <1>7, <3>1, <4>2, <5>1
      <4> QED
        BY <4>1, <4>2
    <3> QED
      BY <1>1, <1>6, <2>2, <3>1, <3>3, <3>4
  <2> QED
    BY <2>3, <2>4
<1> QED
  <2>1. Len(registered') - 1 = n - 2
    BY <1>1, <1>5
  <2> QED
    BY <1>5, <1>11, <1>12, <1>13, <2>1 DEF Chained

(* An entry whose prev is out of date breaks it. *)
LEMMA UnlinkBreaks ==
    ASSUME Linked, Chained, StackAssumption, NEW e \in Entries, In(e), ~Stack!MayCleanup(e),
           Stack!Unlink(e), registered' = Stack!Without(e)
    PROVE  ~Chained'
<1> DEFINE n == Len(registered)
           k == Stack!Place(e)
<1>1. /\ n \in Nat /\ NULL \notin Entries
      /\ \A i \in 1 .. n : registered[i] \in Entries
      /\ DOMAIN registered = 1 .. n
      /\ \A i, j \in 1 .. n : registered[i] = registered[j] => i = j
  BY StackAssumption, ElementOfSeq DEF Linked, Stack!StackAssumption
<1>2. k \in 1 .. n /\ registered[k] = e
  BY <1>1 DEF In, Stack!Place
<1>3. prev[e] # IF k = 1 THEN NULL ELSE registered[k - 1]
  BY DEF Stack!MayCleanup, Stack!Behind
<1>4. /\ Len(registered') = n - 1
      /\ \A j \in 1 .. n - 1 : registered'[j] = IF j < k THEN registered[j] ELSE registered[j + 1]
  BY WithoutOne
<1>5. /\ listStart' = IF prev[e] = NULL THEN next[e] ELSE listStart
      /\ next' = [f \in Entries |-> IF f = prev[e] THEN next[e] ELSE next[f]]
  BY DEF Stack!Unlink
<1> HIDE DEF k
<1>6. /\ listStart = registered[1] /\ listEnd = registered[n] /\ next[listEnd] = NULL
      /\ \A i \in 1 .. n - 1 : next[registered[i]] = registered[i + 1]
  BY <1>1, <1>2 DEF Chained
<1> HIDE DEF n
<1>7. next[e] = IF k = n THEN NULL ELSE registered[k + 1]
  <2>1. CASE k = n
    BY <1>2, <1>6, <2>1
  <2>2. CASE k # n
    <3>1. k \in 1 .. n - 1
      BY <1>1, <1>2, <2>2
    <3> QED
      BY <1>2, <1>6, <2>2, <3>1
  <2> QED
    BY <2>1, <2>2
<1> SUFFICES ASSUME Chained'
             PROVE  FALSE
  OBVIOUS
<1>8. /\ n = 1 => listStart' = NULL
      /\ n # 1 => /\ listStart' = registered'[1]
                  /\ next'[registered'[n - 1]] = NULL
      /\ \A i \in 1 .. n - 2 : next'[registered'[i]] = registered'[i + 1]
  <2>1. Len(registered') - 1 = n - 2 /\ (n = 1 <=> Len(registered') = 0)
    BY <1>1, <1>2, <1>4
  <2> QED
    BY <1>4, <2>1 DEF Chained
<1>9. CASE k = 1
  <2>1. listStart' = e
    BY <1>2, <1>3, <1>5, <1>6, <1>9
  <2>2. CASE n = 1
    BY <1>1, <1>8, <2>1, <2>2
  <2>3. CASE n # 1
    <3>1. 1 \in 1 .. n - 1 /\ 1 + 1 \in 1 .. n /\ ~(1 < k) /\ 1 + 1 # k
      BY <1>1, <1>2, <1>9, <2>3
    <3>2. registered'[1] = registered[1 + 1] /\ registered[1 + 1] # e
      BY <1>1, <1>2, <1>4, <3>1
    <3> QED
      BY <1>8, <2>1, <2>3, <3>2
  <2> QED
    BY <2>2, <2>3
<1>10. CASE k # 1
  <2>1. /\ n # 1 /\ 1 \in 1 .. n - 1 /\ 1 \in 1 .. n /\ 1 < k
        /\ k - 1 \in 1 .. n - 1 /\ k - 1 \in 1 .. n /\ k - 1 < k /\ (k - 1) + 1 = k
    BY <1>1, <1>2, <1>10
  <2>2. registered'[1] = registered[1] /\ registered'[k - 1] = registered[k - 1]
    BY <1>4, <2>1
  <2>3. CASE prev[e] = NULL
    <3>1. next[e] = registered[1]
      BY <1>5, <1>8, <2>1, <2>2, <2>3
    <3>2. k # n
      BY <1>1, <1>7, <2>1, <3>1
    <3>3. k + 1 \in 1 .. n /\ k + 1 # 1
      BY <1>1, <1>2, <3>2
    <3> QED
      BY <1>1, <1>7, <2>1, <3>1, <3>2, <3>3
  <2>4. CASE prev[e] # NULL
    <3>1. next'[registered[k - 1]] = e
      BY <1>1, <1>2, <1>3, <1>5, <1>6, <1>10, <2>1
    <3>2. CASE k = n
      BY <1>1, <1>8, <2>1, <2>2, <3>1, <3>2
    <3>3. CASE k # n
      <4>1. k - 1 \in 1 .. n - 2 /\ k \in 1 .. n - 1 /\ ~(k < k) /\ k + 1 \in 1 .. n /\ k + 1 # k
        BY <1>1, <1>2, <2>1, <3>3
      <4>2. registered'[k] = registered[k + 1] /\ registered[k + 1] # e
        BY <1>1, <1>2, <1>4, <4>1
      <4> QED
        BY <1>8, <2>1, <2>2, <3>1, <4>1, <4>2
    <3> QED
      BY <3>2, <3>3
  <2> QED
    BY <2>3, <2>4
<1> QED
  BY <1>9, <1>10

-----------------------------------------------------------------------------
(* The actions. *)
LEMMA StackInit == StackAssumption /\ Stack!Init => StackIInv
<1> SUFFICES ASSUME StackAssumption, Stack!Init
             PROVE  StackIInv
  OBVIOUS
<1> USE DEF Stack!Init
<1>1. <<>> \in Seq(Entries) /\ Len(<<>>) = 0 /\ <<>> \in Seq(Stack!Answer)
  OBVIOUS
<1>2. Linked
  BY <1>1 DEF Linked
<1>3. Contents
  BY <1>1 DEF Contents, Stack!Words
<1>4. Reading
  <2>1. all \in BOOLEAN
    BY Zenon
  <2>2. word \in 0 .. Size /\ ret \in {0, 1} /\ iter = NULL /\ held = {}
    BY StackAssumption DEF Stack!StackAssumption
  <2> QED
    BY <2>1, <2>2 DEF Reading
<1>5. Answered
  BY <1>1 DEF Answered
<1> QED
  BY <1>2, <1>3, <1>4, <1>5 DEF StackIInv

LEMMA RegisterKeeps ==
    ASSUME StackAssumption, StackIInv, NEW e \in Entries, Stack!Register(e)
    PROVE  StackIInv'
<1>1. Linked /\ Contents /\ Reading /\ Answered
  BY DEF StackIInv
<1>2. /\ iter = NULL /\ Stack!Link(e) /\ registered' = Append(Stack!Without(e), e)
      /\ stored' = IF Stack!Painted(e) THEN [stored EXCEPT ![e] = {}] ELSE stored
      /\ former' = [former EXCEPT ![e] = stored'[e]]
      /\ answers' = <<>> /\ iter' = iter /\ word' = word /\ all' = all /\ ret' = ret /\ held' = held
  BY DEF Stack!Register
<1>3. Linked'
  BY <1>1, <1>2, LinkLinks
<1>4. Contents'
  <2>1. stored' \in [Entries -> SUBSET Stack!Words]
    BY <1>1, <1>2 DEF Contents
  <2>2. former' \in [Entries -> SUBSET Stack!Words]
    BY <1>1, <1>2, <2>1 DEF Contents
  <2>3. ASSUME NEW f \in Entries, Stack!Painted(f)
        PROVE  former'[f] = {}
    <3>1. CASE f = e
      BY <1>1, <1>2, <2>3, <3>1 DEF Contents
    <3>2. CASE f # e
      BY <1>1, <1>2, <2>3, <3>2 DEF Contents
    <3> QED
      BY <3>1, <3>2
  <2>4. \A f \in Entries : Stack!Painted(f)' <=> Stack!Painted(f)
    BY DEF Stack!Painted
  <2>5. Stack!Words' = Stack!Words
    BY DEF Stack!Words
  <2> QED
    BY <2>1, <2>2, <2>3, <2>4, <2>5 DEF Contents
<1>5. Reading'
  BY <1>1, <1>2 DEF Reading
<1>6. Answered'
  <2>1. <<>> \in Seq(Stack!Answer) /\ Stack!Answer' = Stack!Answer
    BY DEF Stack!Answer
  <2> QED
    BY <1>2, <2>1 DEF Answered
<1> QED
  BY <1>3, <1>4, <1>5, <1>6 DEF StackIInv

LEMMA ResetKeeps ==
    ASSUME StackAssumption, StackIInv, Stack!Reset
    PROVE  StackIInv'
<1>1. Linked /\ Contents /\ Reading /\ Answered
  BY DEF StackIInv
<1>2. /\ iter = NULL /\ listStart' = NULL /\ registered' = <<>>
      /\ listEnd' = listEnd /\ next' = next /\ prev' = prev
      /\ answers' = <<>> /\ iter' = iter /\ word' = word /\ all' = all /\ ret' = ret /\ held' = held
      /\ stored' = stored /\ former' = former
  BY DEF Stack!Reset
<1>3. <<>> \in Seq(Entries) /\ Len(<<>>) = 0 /\ <<>> \in Seq(Stack!Answer)
      /\ Stack!Answer' = Stack!Answer
  BY DEF Stack!Answer
<1>4. Linked'
  BY <1>1, <1>2, <1>3 DEF Linked
<1>5. Contents'
  BY <1>1, <1>2 DEF Contents, Stack!Words, Stack!Painted
<1>6. Reading'
  BY <1>1, <1>2 DEF Reading
<1>7. Answered'
  BY <1>2, <1>3 DEF Answered
<1> QED
  BY <1>4, <1>5, <1>6, <1>7 DEF StackIInv

LEMMA CleanupKeeps ==
    ASSUME StackAssumption, StackIInv, NEW e \in Entries, Stack!Cleanup(e)
    PROVE  StackIInv'
<1>1. Linked /\ Contents /\ Reading /\ Answered
  BY DEF StackIInv
<1>2. /\ iter = NULL /\ Stack!Unlink(e) /\ registered' = Stack!Without(e)
      /\ answers' = <<>> /\ iter' = iter /\ word' = word /\ all' = all /\ ret' = ret /\ held' = held
      /\ stored' = stored /\ former' = former
  BY DEF Stack!Cleanup
<1>3. Linked'
  BY <1>1, <1>2, UnlinkLinks
<1>4. Contents'
  BY <1>1, <1>2 DEF Contents, Stack!Words, Stack!Painted
<1>5. Reading'
  BY <1>1, <1>2 DEF Reading
<1>6. Answered'
  <2>1. <<>> \in Seq(Stack!Answer) /\ Stack!Answer' = Stack!Answer
    BY DEF Stack!Answer
  <2> QED
    BY <1>2, <2>1 DEF Answered
<1> QED
  BY <1>3, <1>4, <1>5, <1>6 DEF StackIInv

LEMMA UseKeeps ==
    ASSUME StackAssumption, StackIInv, NEW e \in Entries, NEW w \in Stack!Words,
           NEW paint \in BOOLEAN, Stack!Use(e, w, paint)
    PROVE  StackIInv'
<1>1. Linked /\ Contents /\ Reading /\ Answered
  BY DEF StackIInv
<1>2. /\ stored' = [stored EXCEPT ![e] = IF paint THEN @ \ {w} ELSE @ \cup {w}]
      /\ former' = [former EXCEPT ![e] = @ \ {w}]
      /\ held' = IF e = iter /\ paint THEN held \ {w} ELSE held
      /\ listStart' = listStart /\ listEnd' = listEnd /\ next' = next /\ prev' = prev
      /\ iter' = iter /\ word' = word /\ all' = all /\ ret' = ret /\ answers' = answers
      /\ registered' = registered
  BY DEF Stack!Use, Stack!links
<1>3. Chained' <=> Chained
  BY <1>2 DEF Chained
<1>4. Linked'
  BY <1>1, <1>2 DEF Linked
<1>5. Contents'
  <2>1. stored' \in [Entries -> SUBSET Stack!Words]
    BY <1>1, <1>2 DEF Contents
  <2>2. former' \in [Entries -> SUBSET Stack!Words] /\ \A f \in Entries : former'[f] \subseteq former[f]
    BY <1>1, <1>2 DEF Contents
  <2>3. \A f \in Entries : Stack!Painted(f) => former'[f] = {}
    BY <1>1, <2>2 DEF Contents
  <2>4. \A f \in Entries : Stack!Painted(f)' <=> Stack!Painted(f)
    BY DEF Stack!Painted
  <2>5. Stack!Words' = Stack!Words
    BY DEF Stack!Words
  <2> QED
    BY <2>1, <2>2, <2>3, <2>4, <2>5 DEF Contents
<1>6. Reading'
  <2>1. iter # NULL => held' \subseteq stored'[iter] /\ held' \subseteq held
    BY <1>1, <1>2 DEF Reading, Contents
  <2>2. iter = NULL => held' = {}
    BY <1>1, <1>2 DEF Reading
  <2> QED
    BY <1>1, <1>2, <2>1, <2>2 DEF Reading
<1>7. Answered'
  BY <1>1, <1>2, <1>3 DEF Answered, Stack!Answer
<1> QED
  BY <1>4, <1>5, <1>6, <1>7 DEF StackIInv

(* The reading of the next entry begins. *)
LEMMA ReadReads ==
    ASSUME StackAssumption, Contents, NEW e \in Entries \cup {NULL}, Stack!Read(e),
           stored' = stored, all' \in BOOLEAN, ret' \in {0, 1}
    PROVE  Reading'
<1>1. /\ iter' = e /\ word' = 0 /\ held' = IF e = NULL THEN {} ELSE stored[e]
  BY DEF Stack!Read
<1>2. e # NULL => \A w \in stored[e] : 0 <= w
  BY DEF Contents, Stack!Words
<1>3. 0 \in 0 .. Size
  BY StackAssumption DEF Stack!StackAssumption
<1> QED
  BY <1>1, <1>2, <1>3 DEF Reading

LEMMA CheckKeeps ==
    ASSUME StackAssumption, StackIInv, NEW e \in Entries \cup {NULL}, Stack!Check(e)
    PROVE  StackIInv'
<1>1. Linked /\ Contents /\ Reading /\ Answered
  BY DEF StackIInv
<1> DEFINE s == IF e = NULL THEN listStart ELSE e
<1>2. /\ iter = NULL /\ (e # NULL => Stack!IsRegistered(e))
      /\ all' = (e = NULL) /\ ret' = 0 /\ answers' = <<>> /\ Stack!Read(s)
      /\ listStart' = listStart /\ listEnd' = listEnd /\ next' = next /\ prev' = prev
      /\ stored' = stored /\ former' = former /\ registered' = registered
  BY DEF Stack!Check, Stack!links
<1>3. Chained' <=> Chained
  BY <1>2 DEF Chained
<1>4. Linked'
  BY <1>1, <1>2 DEF Linked
<1>5. Contents'
  BY <1>1, <1>2 DEF Contents, Stack!Words, Stack!Painted
<1>6. Len(registered) \in Nat /\ \A i \in 1 .. Len(registered) : registered[i] \in Entries
  BY <1>1, ElementOfSeq DEF Linked
<1>7. s \in Entries \cup {NULL}
  BY <1>1 DEF Linked
<1>8. all' \in BOOLEAN
  BY <1>2, Zenon
<1>9. Reading'
  <2> HIDE DEF s
  <2> QED
    BY <1>1, <1>2, <1>7, <1>8, StackAssumption, ReadReads
<1>10. Answered'
  <2>1. <<>> \in Seq(Stack!Answer) /\ Len(<<>>) = 0 /\ Stack!Answer' = Stack!Answer
    BY DEF Stack!Answer
  <2>2. iter' = s
    BY <1>2 DEF Stack!Read
  <2>3. Chained /\ all' /\ s # NULL => Len(registered) > 0 /\ s = registered[1]
    <3>1. Chained /\ listStart # NULL => Len(registered) # 0 /\ listStart = registered[1]
      BY DEF Chained
    <3>2. all' => s = listStart
      BY <1>2
    <3> HIDE DEF s
    <3> QED
      BY <1>6, <3>1, <3>2
  <2> HIDE DEF s
  <2> QED
    BY <1>2, <1>3, <2>1, <2>2, <2>3 DEF Answered
<1> QED
  BY <1>4, <1>5, <1>9, <1>10 DEF StackIInv

LEMMA ReadWordKeeps ==
    ASSUME StackAssumption, StackIInv, Stack!ReadWord
    PROVE  StackIInv'
<1>1. Linked /\ Contents /\ Reading /\ Answered
  BY DEF StackIInv
<1>2. /\ iter # NULL /\ word \in Stack!Words /\ word \notin stored[iter] /\ word' = word + 1
      /\ listStart' = listStart /\ listEnd' = listEnd /\ next' = next /\ prev' = prev
      /\ stored' = stored /\ former' = former /\ registered' = registered
      /\ iter' = iter /\ all' = all /\ ret' = ret /\ held' = held /\ answers' = answers
  BY DEF Stack!ReadWord, Stack!links
<1>3. Chained' <=> Chained
  BY <1>2 DEF Chained
<1>4. Linked'
  BY <1>1, <1>2 DEF Linked
<1>5. Contents'
  BY <1>1, <1>2 DEF Contents, Stack!Words, Stack!Painted
<1>6. Reading'
  <2>1. word' \in 0 .. Size
    BY <1>2, StackAssumption DEF Stack!Words, Stack!StackAssumption
  <2>2. iter \in Entries /\ held \subseteq stored[iter] /\ stored[iter] \subseteq Stack!Words
        /\ \A w \in held : word <= w
    BY <1>1, <1>2 DEF Reading, Contents
  <2>3. \A w \in held : word + 1 <= w
    <3> SUFFICES ASSUME NEW w \in held
                 PROVE  word + 1 <= w
      OBVIOUS
    <3>1. w \in Nat /\ word \in Nat /\ word <= w /\ w # word
      BY <1>2, <2>2, StackAssumption DEF Stack!Words, Stack!StackAssumption
    <3> QED
      BY <3>1
  <2> QED
    BY <1>1, <1>2, <2>1, <2>2, <2>3 DEF Reading
<1>7. Answered'
  BY <1>1, <1>2, <1>3 DEF Answered, Stack!Answer
<1> QED
  BY <1>4, <1>5, <1>6, <1>7 DEF StackIInv

LEMMA JudgeKeeps ==
    ASSUME StackAssumption, StackIInv, Stack!Judge
    PROVE  StackIInv'
<1>1. Linked /\ Contents /\ Reading /\ Answered
  BY DEF StackIInv
<1> DEFINE status == Stack!Status(iter, word)
           a == [entry |-> iter, status |-> status]
           e == IF all THEN next[iter] ELSE NULL
           m == Len(answers)
           n == Len(registered)
<1>2. /\ iter # NULL
      /\ answers' = IF m > n THEN answers ELSE Append(answers, a)
      /\ ret' = Stack!Worst(ret, status) /\ Stack!Read(e)
      /\ listStart' = listStart /\ listEnd' = listEnd /\ next' = next /\ prev' = prev
      /\ stored' = stored /\ former' = former /\ registered' = registered /\ all' = all
  BY DEF Stack!Judge, Stack!links
<1>3. Chained' <=> Chained
  BY <1>2 DEF Chained
<1>4. Linked'
  BY <1>1, <1>2 DEF Linked
<1>5. Contents'
  BY <1>1, <1>2 DEF Contents, Stack!Words, Stack!Painted
<1>6. iter \in Entries /\ m \in Nat /\ n \in Nat /\ status \in {"ok", "warning", "overflow"}
      /\ a \in Stack!Answer /\ answers \in Seq(Stack!Answer)
  BY <1>1, <1>2 DEF Reading, Answered, Linked, Stack!Status, Stack!Answer
<1>7. \A i \in 1 .. n : registered[i] \in Entries
  BY <1>1, ElementOfSeq DEF Linked
<1>8. Chained /\ all =>
          /\ m < n /\ iter = registered[m + 1]
          /\ \A i \in 1 .. m : answers[i].entry = registered[i]
          /\ ret = 1 <=> \E i \in 1 .. m : answers[i].status # "ok"
  BY <1>1, <1>2 DEF Answered
<1>9. Chained /\ all => e = IF m + 1 = n THEN NULL ELSE registered[m + 2]
  <2> SUFFICES ASSUME Chained, all
               PROVE  next[registered[m + 1]] = IF m + 1 = n THEN NULL ELSE registered[m + 2]
    BY <1>8
  <2>1. CASE m + 1 = n
    BY <1>1, <1>6, <2>1 DEF Chained
  <2>2. CASE m + 1 # n
    <3>1. m + 1 \in 1 .. n - 1 /\ (m + 1) + 1 = m + 2
      BY <1>6, <1>8, <2>2
    <3> QED
      BY <1>1, <2>2, <3>1 DEF Chained
  <2> QED
    BY <2>1, <2>2
<1>10. e \in Entries \cup {NULL}
  BY <1>1, <1>6 DEF Linked
<1>11. all' \in BOOLEAN /\ ret' \in {0, 1}
  BY <1>1, <1>2 DEF Reading, Stack!Worst
<1>12. Reading'
  <2> HIDE DEF e, status, a
  <2> QED
    BY <1>1, <1>2, <1>10, <1>11, StackAssumption, ReadReads
<1>13. /\ answers' \in Seq(Stack!Answer)
       /\ m < n => /\ Len(answers') = m + 1
                   /\ \A i \in 1 .. m : answers'[i] = answers[i]
                   /\ answers'[m + 1] = a
  <2> HIDE DEF a, status
  <2>1. m < n => ~(m > n)
    BY <1>6
  <2> QED
    BY <1>2, <1>6, <2>1, AppendProperties
<1>14. ret' = 1 <=> ret = 1 \/ status # "ok"
  BY <1>1, <1>2 DEF Reading, Stack!Worst
<1>15. iter' = e
  BY <1>2 DEF Stack!Read
<1>16. a.entry = iter /\ a.status = status
  OBVIOUS
<1> HIDE DEF a, status, e, m, n
<1>17. Chained /\ all =>
              /\ m < n
              /\ IF e = NULL THEN m + 1 = n ELSE m + 1 < n /\ e = registered[m + 2]
              /\ \A i \in 1 .. m + 1 : answers'[i].entry = registered[i]
              /\ ret' = 1 <=> \E i \in 1 .. m + 1 : answers'[i].status # "ok"
  <2> SUFFICES ASSUME Chained, all
               PROVE  /\ m < n
                      /\ IF e = NULL THEN m + 1 = n ELSE m + 1 < n /\ e = registered[m + 2]
                      /\ \A i \in 1 .. m + 1 : answers'[i].entry = registered[i]
                      /\ ret' = 1 <=> \E i \in 1 .. m + 1 : answers'[i].status # "ok"
    OBVIOUS
  <2>1. IF e = NULL THEN m + 1 = n ELSE m + 1 < n /\ e = registered[m + 2]
    <3>1. CASE m + 1 = n
      BY <1>9, <3>1
    <3>2. CASE m + 1 # n
      <4>1. m + 2 \in 1 .. n /\ m + 1 < n
        BY <1>6, <1>8, <3>2
      <4>2. registered[m + 2] # NULL
        BY <1>7, <4>1, StackAssumption DEF Stack!StackAssumption
      <4> QED
        BY <1>9, <3>2, <4>1, <4>2
    <3> QED
      BY <3>1, <3>2
  <2>2. \A i \in 1 .. m + 1 : i \in 1 .. m \/ i = m + 1
    BY <1>6
  <2>3. \A i \in 1 .. m : i \in 1 .. m + 1
    BY <1>6
  <2>4. m + 1 \in 1 .. m + 1
    BY <1>6
  <2>5. \A i \in 1 .. m + 1 : answers'[i].entry = registered[i]
    BY <1>8, <1>13, <1>16, <2>2
  <2>6. (\E i \in 1 .. m + 1 : answers'[i].status # "ok")
           <=> (\E i \in 1 .. m : answers[i].status # "ok") \/ status # "ok"
    BY <1>8, <1>13, <1>16, <2>2, <2>3, <2>4
  <2> QED
    BY <1>8, <1>14, <2>1, <2>5, <2>6
<1>18. Answered'
  <2>1. Stack!Answer' = Stack!Answer
    BY DEF Stack!Answer
  <2>2. Len(registered') = n /\ (m + 1) + 1 = m + 2
    BY <1>2, <1>6 DEF n
  <2> QED
    BY <1>2, <1>3, <1>13, <1>15, <1>17, <2>1, <2>2 DEF Answered
<1> QED
  BY <1>4, <1>5, <1>12, <1>18 DEF StackIInv

LEMMA StackNext == StackAssumption /\ StackIInv /\ [Stack!Next]_(Stack!vars) => StackIInv'
<1> SUFFICES ASSUME StackAssumption, StackIInv, [Stack!Next]_(Stack!vars)
             PROVE  StackIInv'
  OBVIOUS
<1>1. ASSUME NEW e \in Entries, Stack!Register(e)
      PROVE  StackIInv'
  BY <1>1, RegisterKeeps, StackAssumption
<1>2. ASSUME NEW e \in Entries, Stack!Cleanup(e)
      PROVE  StackIInv'
  BY <1>2, CleanupKeeps, StackAssumption
<1>3. ASSUME NEW e \in Entries, NEW w \in Stack!Words, NEW paint \in BOOLEAN, Stack!Use(e, w, paint)
      PROVE  StackIInv'
  BY <1>3, UseKeeps, StackAssumption
<1>4. ASSUME NEW e \in Entries \cup {NULL}, Stack!Check(e)
      PROVE  StackIInv'
  BY <1>4, CheckKeeps, StackAssumption
<1>5. CASE Stack!ReadWord
  BY <1>5, ReadWordKeeps, StackAssumption
<1>6. CASE Stack!Judge
  BY <1>6, JudgeKeeps, StackAssumption
<1>8. CASE Stack!Reset
  BY <1>8, ResetKeeps, StackAssumption
<1>7. CASE UNCHANGED Stack!vars
  <2>1. /\ listStart' = listStart /\ listEnd' = listEnd /\ next' = next /\ prev' = prev
        /\ stored' = stored /\ former' = former /\ registered' = registered /\ word' = word
        /\ iter' = iter /\ all' = all /\ ret' = ret /\ held' = held /\ answers' = answers
    BY <1>7 DEF Stack!vars, Stack!links, Stack!check
  <2>2. Chained' <=> Chained
    BY <2>1 DEF Chained
  <2>3. Linked'
    BY <2>1 DEF Linked, StackIInv
  <2>4. Contents'
    BY <2>1 DEF Contents, StackIInv, Stack!Words, Stack!Painted
  <2>5. Reading'
    BY <2>1 DEF Reading, StackIInv
  <2>6. Answered'
    BY <2>1, <2>2 DEF Answered, StackIInv, Stack!Answer
  <2> QED
    BY <2>3, <2>4, <2>5, <2>6 DEF StackIInv
<1> QED
  BY <1>1, <1>2, <1>3, <1>4, <1>5, <1>6, <1>7, <1>8 DEF Stack!Next

LEMMA StackIInvIsSafe ==
    ASSUME StackAssumption, StackIInv
    PROVE  StackInv
<1>1. Linked /\ Contents /\ Reading /\ Answered
  BY DEF StackIInv
<1>2. /\ Len(registered) \in Nat /\ DOMAIN registered = 1 .. Len(registered)
      /\ registered \in Seq(Entries)
      /\ \A i \in 1 .. Len(registered) : registered[i] \in Entries
  BY <1>1, ElementOfSeq DEF Linked
<1>3. /\ Len(answers) \in Nat /\ DOMAIN answers = 1 .. Len(answers)
      /\ \A i \in 1 .. Len(answers) : answers[i] \in Stack!Answer
  BY <1>1, ElementOfSeq DEF Answered
<1>4. Stack!TypeOK
  <2>1. {listStart, listEnd} \subseteq Entries \cup {NULL}
    BY <1>1 DEF Linked
  <2>2. iter \in Entries \cup {NULL}
    BY <1>1 DEF Reading
  <2>3. held \subseteq Stack!Words
    BY <1>1 DEF Reading, Contents
  <2>4. Stack!Range(answers) \subseteq Stack!Answer
    BY <1>3 DEF Stack!Range
  <2>5. stored \in [Entries -> SUBSET Stack!Words] /\ former \in [Entries -> SUBSET Stack!Words]
    BY <1>1 DEF Contents
  <2>6. word \in 0 .. Size /\ all \in BOOLEAN /\ ret \in {0, 1}
    BY <1>1 DEF Reading
  <2>7. {next, prev} \subseteq [Entries -> Entries \cup {NULL}]
    BY <1>1 DEF Linked
  <2> QED
    BY <1>2, <2>1, <2>2, <2>3, <2>4, <2>5, <2>6, <2>7 DEF Stack!TypeOK
<1>5. Stack!IsInjective(registered)
  BY <1>1, <1>2 DEF Linked, Stack!IsInjective
<1>6. Stack!EveryStackJudged
  <2> SUFFICES ASSUME Stack!ListIsRegistered, iter = NULL, all, answers # <<>>
               PROVE  /\ [i \in DOMAIN answers |-> answers[i].entry] = registered
                      /\ ret = 1 <=> \E i \in DOMAIN answers : answers[i].status # "ok"
    BY DEF Stack!EveryStackJudged
  <2>1. /\ Len(answers) = Len(registered)
        /\ \A i \in 1 .. Len(answers) : answers[i].entry = registered[i]
        /\ ret = 1 <=> \E i \in 1 .. Len(answers) : answers[i].status # "ok"
    BY <1>1, ChainedIsRight DEF Answered
  <2>2. registered = [i \in 1 .. Len(registered) |-> registered[i]]
    BY <1>2
  <2>3. [i \in DOMAIN answers |-> answers[i].entry] = registered
    BY <1>3, <2>1, <2>2
  <2> QED
    BY <1>3, <2>1, <2>3
<1> QED
  BY <1>4, <1>5, <1>6 DEF StackInv, Stack!StackInv

LEMMA JudgeIsTrue ==
    ASSUME StackAssumption, StackIInv, [Stack!Next]_(Stack!vars), Stack!Judged
    PROVE  /\ \A w \in held : Stack!FreeSeen <= w
           /\ 0 \in held => Stack!Last(answers').status = "overflow"
           /\ Stack!Painted(iter) => Stack!FreeSeen \notin former[iter]
<1>1. Linked /\ Contents /\ Reading /\ Answered
  BY DEF StackIInv
<1>2. answers \in Seq(Stack!Answer) /\ Len(answers) \in Nat /\ Len(answers') = Len(answers) + 1
  BY <1>1 DEF Answered, Stack!Judged
<1>3. Stack!Judge
  <2>1. answers' # answers
    BY <1>2
  <2>2. answers' # <<>>
    BY <1>2
  <2>3. ~ UNCHANGED Stack!vars
    BY <2>1 DEF Stack!vars, Stack!check
  <2>4. \A e \in Entries : ~ Stack!Register(e) /\ ~ Stack!Cleanup(e)
    BY <2>2 DEF Stack!Register, Stack!Cleanup
  <2>8. ~ Stack!Reset
    BY <2>2 DEF Stack!Reset
  <2>5. \A e, w, paint : ~ Stack!Use(e, w, paint)
    BY <2>1 DEF Stack!Use
  <2>6. \A e : ~ Stack!Check(e)
    BY <2>2 DEF Stack!Check
  <2>7. ~ Stack!ReadWord
    BY <2>1 DEF Stack!ReadWord
  <2> QED
    BY <2>3, <2>4, <2>5, <2>6, <2>7, <2>8 DEF Stack!Next
<1>4. iter # NULL /\ answers' = Append(answers, [entry |-> iter, status |-> Stack!Status(iter, word)])
  BY <1>2, <1>3 DEF Stack!Judge
<1>5. Stack!Last(answers').status = Stack!Status(iter, word)
  BY <1>2, <1>4 DEF Stack!Last
<1>6. /\ iter \in Entries /\ word \in Nat /\ held \subseteq stored[iter]
      /\ \A w \in held : word <= w
  BY <1>1, <1>4, StackAssumption DEF Reading, Stack!StackAssumption
<1>7. 0 \in held => Stack!Status(iter, word) = "overflow"
  <2> SUFFICES ASSUME 0 \in held
               PROVE  Stack!Status(iter, word) = "overflow"
    OBVIOUS
  <2>1. word = 0
    BY <1>6
  <2> QED
    BY <2>1 DEF Stack!Status
<1>8. Stack!Painted(iter) => former[iter] = {}
  BY <1>1, <1>6 DEF Contents
<1> QED
  BY <1>5, <1>6, <1>7, <1>8 DEF Stack!FreeSeen

(* What a step does to a list that is right. *)
LEMMA StepKeepsList ==
    ASSUME StackAssumption, StackIInv, [Stack!Next]_(Stack!vars), Stack!ListIsRegistered
    PROVE  /\ \A e \in Entries :
                /\ Stack!Register(e) => (Stack!ListIsRegistered' <=> Stack!MayRegister(e))
                /\ Stack!Cleanup(e) /\ Stack!IsRegistered(e)
                     => (Stack!ListIsRegistered' <=> Stack!MayCleanup(e))
           /\ (\A e \in Entries : ~Stack!Register(e) /\ ~Stack!Cleanup(e))
                => Stack!ListIsRegistered'
<1>1. Linked /\ Chained /\ StackIInv'
  BY ChainedIsRight, StackNext DEF StackIInv
<1>2. Stack!ListIsRegistered' <=> Chained'
  BY <1>1, ChainedIsRightAfter DEF StackIInv
<1>3. ASSUME NEW e \in Entries, Stack!Register(e)
      PROVE  Chained' <=> Stack!MayRegister(e)
  <2>1. Stack!Link(e) /\ registered' = Append(Stack!Without(e), e)
    BY <1>3 DEF Stack!Register
  <2>2. Stack!MayRegister(e) <=> ~In(e) /\ e # listEnd
    BY <1>1, InIsRegistered DEF Stack!MayRegister
  <2>3. CASE ~In(e) /\ e # listEnd
    BY <1>1, <2>1, <2>2, <2>3, LinkChains
  <2>4. CASE In(e) \/ e = listEnd
    BY <1>1, <2>1, <2>2, <2>4, LinkBreaks
  <2> QED
    BY <2>3, <2>4
<1>4. ASSUME NEW e \in Entries, Stack!Cleanup(e), Stack!IsRegistered(e)
      PROVE  Chained' <=> Stack!MayCleanup(e)
  <2>1. Stack!Unlink(e) /\ registered' = Stack!Without(e) /\ In(e)
    BY <1>1, <1>4, InIsRegistered DEF Stack!Cleanup
  <2>2. CASE Stack!MayCleanup(e)
    BY <1>1, <2>1, <2>2, UnlinkChains
  <2>3. CASE ~Stack!MayCleanup(e)
    BY <1>1, <2>1, <2>3, UnlinkBreaks
  <2> QED
    BY <2>2, <2>3
<1>5. ASSUME \A e \in Entries : ~Stack!Register(e) /\ ~Stack!Cleanup(e)
      PROVE  Chained'
  <2>1. CASE Stack!Reset
    <3>1. listStart' = NULL /\ Len(registered') = 0
      BY <2>1 DEF Stack!Reset
    <3> QED
      BY <3>1 DEF Chained
  <2>2. CASE UNCHANGED <<listStart, listEnd, next, prev, registered>>
    BY <1>1, <2>2 DEF Chained
  <2>3. \/ Stack!Reset \/ UNCHANGED <<listStart, listEnd, next, prev, registered>>
    BY <1>5 DEF Stack!Next, Stack!vars, Stack!links, Stack!Use, Stack!Check, Stack!ReadWord, Stack!Judge
  <2> QED
    BY <2>1, <2>2, <2>3
<1> QED
  BY <1>2, <1>3, <1>4, <1>5

-----------------------------------------------------------------------------
(* stackcheck.c:15-34, :45-55, for any stacks and any order of calls, out of date
   links included: which calls keep the list right, and which break it.          *)
THEOREM StacksAreListed == Stack!Spec => ListKept
<1> DEFINE Kept == Stack!ListIsRegistered =>
             /\ \A e \in Entries :
                  /\ Stack!Register(e) => (Stack!ListIsRegistered' <=> Stack!MayRegister(e))
                  /\ Stack!Cleanup(e) /\ Stack!IsRegistered(e)
                       => (Stack!ListIsRegistered' <=> Stack!MayCleanup(e))
             /\ (\A e \in Entries : ~Stack!Register(e) /\ ~Stack!Cleanup(e))
                  => Stack!ListIsRegistered'
<1>1. Stack!Init => StackIInv
  BY StackInit, StackAssumption
<1>2. StackIInv /\ [Stack!Next]_(Stack!vars) => StackIInv'
  BY StackNext, StackAssumption
<1>3. StackIInv /\ [Stack!Next]_(Stack!vars) => [Kept]_(<<Stack!links, registered>>)
  BY StepKeepsList, StackAssumption
<1> QED
  BY <1>1, <1>2, <1>3, PTL DEF Stack!Spec, ListKept, Stack!ListKept

(* stackcheck.c:59-70: a check of a list that is right judges each registered
   stack, in order, whatever calls came before.                               *)
THEOREM StacksAreJudged == Stack!Spec => []StackInv
<1>1. Stack!Init => StackIInv
  BY StackInit, StackAssumption
<1>2. StackIInv /\ [Stack!Next]_(Stack!vars) => StackIInv'
  BY StackNext, StackAssumption
<1>3. StackIInv => StackInv
  BY StackIInvIsSafe, StackAssumption
<1> QED
  BY <1>1, <1>2, <1>3, PTL DEF Stack!Spec

(* stackcheck.c:76-89: whatever the threads store between two words read, the
   free space a check sees is true of the time it took.                      *)
THEOREM AnswersAreTrue == Stack!Spec => AnswerIsTrue
<1> DEFINE True == /\ \A w \in held : Stack!FreeSeen <= w
                   /\ 0 \in held => Stack!Last(answers').status = "overflow"
                   /\ Stack!Painted(iter) => Stack!FreeSeen \notin former[iter]
<1>1. Stack!Init => StackIInv
  BY StackInit, StackAssumption
<1>2. StackIInv /\ [Stack!Next]_(Stack!vars) => StackIInv'
  BY StackNext, StackAssumption
<1>3. StackIInv /\ [Stack!Next]_(Stack!vars) => [Stack!Judged => True]_(Stack!vars)
  BY JudgeIsTrue, StackAssumption
<1> QED
  BY <1>1, <1>2, <1>3, PTL DEF Stack!Spec, AnswerIsTrue, Stack!AnswerIsTrue

=============================================================================
