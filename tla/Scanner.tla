-------------------------------- MODULE Scanner --------------------------------
(***************************************************************************)
(* nr.parsing.core: Scanner, a place in a text with its line and column.   *)
(* Of a text only its newlines matter: it is a sequence of Booleans.       *)
(***************************************************************************)
EXTENDS Integers, Sequences, FiniteSets, FiniteSetsExt

CONSTANTS Texts, Steps,      \* how many characters a match takes
  MaxIndex,                  \* bound on how far next() goes past the end
  None

VARIABLES text,
  pos,       \* index, lineno, colno
  saved,     \* a cursor that was taken, or None
  strayed,   \* history: a seek counted from where it was and has not been made good
  raised     \* the last call failed

vars == <<text, pos, saved, strayed, raised>>

\* What is scanned are texts, and a match takes some of one.
TextsAreTexts == Texts \subseteq Seq(BOOLEAN) /\ Steps \subseteq Nat

Size == Len(text)
Newlines == {i \in 0 .. Size - 1 : text[i + 1]}

\* str.find() and str.rfind() of a newline, -1 for none.
Find(from) == IF \E n \in Newlines : n >= from THEN Min({n \in Newlines : n >= from}) ELSE -1
RFind(to) == IF \E n \in Newlines : n < to THEN Max({n \in Newlines : n < to}) ELSE -1

At(index, lineno, colno) == [index |-> index, lineno |-> lineno, colno |-> colno]

Init ==
  /\ text \in Texts /\ pos = At(0, 1, 0) /\ saved = None
  /\ strayed = FALSE /\ raised = FALSE

-------------------------------------------------------------------------------
\* seek(): from the start if that is nearer, else from where it is.

\* One turn of a loop.  Only the count from the start goes back to column 0 after a newline.
Forward(p, offset, fromStart) ==
  LET nl == Find(p.index) IN
  IF nl < 0 \/ nl >= offset THEN At(offset, p.lineno, offset - p.index)
  ELSE At(nl + 1, p.lineno + 1, IF fromStart THEN 0 ELSE p.colno)

\* text[offset] past the end is an IndexError (None); so is a column below 0, by an assertion.
Backward(p, offset) ==
  LET nl == RFind(p.index) IN
  IF nl > offset THEN At(nl - 1, p.lineno - 1, p.colno)
  ELSE IF offset = Size THEN None
  ELSE IF offset \notin Newlines THEN At(offset, p.lineno, offset - nl - 1)
  ELSE IF RFind(p.index - 1) = offset THEN None
  ELSE At(offset, p.lineno - 1, offset - RFind(p.index - 1) - 1)

\* The loop: a turn moves on by a character at least.
Turn(p, offset, way) ==
  IF p = None \/ (p # None /\ p.index = offset) THEN p
  ELSE IF way = "backward" THEN Backward(p, offset) ELSE Forward(p, offset, way = "start")
Turns(from, offset, way) ==
  LET p[n \in 0 .. Size + 2] == IF n = 0 THEN from ELSE Turn(p[n - 1], offset, way) IN p
Counted(from, offset, way) == Turns(from, offset, way)[Size + 2]

Clamp(offset) == IF offset < 0 THEN 0 ELSE IF offset > Size THEN Size + 1 ELSE offset
Distance(a, b) == IF a > b THEN a - b ELSE b - a
FromStart(offset) == offset <= Distance(pos.index, offset)

Seek(to) ==
  LET offset == Clamp(to)
      p == IF FromStart(offset) /\ offset # pos.index THEN Counted(At(0, 1, 0), offset, "start")
           ELSE Counted(pos, offset, IF offset < pos.index THEN "backward" ELSE "forward")
  IN  /\ strayed => FromStart(offset)      \* bound: it strays once in a row
      /\ raised' = (p = None \/ (p # None /\ p.lineno < 1))
      /\ pos' = IF raised' THEN pos ELSE p
      /\ strayed' = IF raised' \/ offset = pos.index THEN strayed ELSE ~FromStart(offset)
      /\ UNCHANGED <<text, saved>>

-------------------------------------------------------------------------------
\* What moves on.  Past the end the character is empty, and the column grows.
NextChar ==
  /\ pos.index < MaxIndex
  /\ pos' = IF pos.index \in Newlines THEN At(pos.index + 1, pos.lineno + 1, 0)
            ELSE At(pos.index + 1, pos.lineno, pos.colno + 1)
  /\ raised' = FALSE /\ UNCHANGED <<text, saved, strayed>>

ReadLine ==
  LET nl == Find(pos.index)
      end == IF nl >= 0 THEN nl + 1 ELSE Max({Size, pos.index})
  IN  /\ pos' = IF nl >= 0 THEN At(end, pos.lineno + 1, 0)
                ELSE At(end, pos.lineno, pos.colno + end - pos.index)
      /\ raised' = FALSE /\ UNCHANGED <<text, saved, strayed>>

\* match() and search(): the text up to the end of the match.
Match(n) ==
  LET end == pos.index + n
      lines == {nl \in Newlines : pos.index <= nl /\ nl < end}
  IN  /\ end <= Size
      /\ pos' = IF lines = {} THEN At(end, pos.lineno, pos.colno + n)
                ELSE At(end, pos.lineno + Cardinality(lines), end - Max(lines) - 1)
      /\ raised' = FALSE /\ UNCHANGED <<text, saved, strayed>>

\* The property `pos', read and set.
Save == saved' = [at |-> pos, strayed |-> strayed] /\ UNCHANGED <<text, pos, strayed, raised>>
Restore ==
  /\ saved # None /\ pos' = saved.at /\ strayed' = saved.strayed
  /\ raised' = FALSE /\ UNCHANGED <<text, saved>>

Next ==
  \/ NextChar \/ ReadLine \/ Save \/ Restore
  \/ \E n \in Steps : Match(n)
  \/ \E to \in -1 .. Size + 2 : Seek(to)

Spec == Init /\ [][Next]_vars

-------------------------------------------------------------------------------
\* getline(): from the column of the cursor back, to the next newline.
LineStart(cursor) == cursor.index - cursor.colno
LineEnd(cursor) == IF Find(LineStart(cursor)) < 0 THEN Size ELSE Find(LineStart(cursor))

Exact(p) ==
  /\ p.lineno = 1 + Cardinality({n \in Newlines : n < p.index})
  /\ p.colno = p.index - RFind(p.index) - 1

\* The line and the column are those of the index, through any mix of calls, but for a
\* seek that counts from where it is (scanner.py:97-139), until one counts from the start.
PositionIsExact ==
  ~strayed => Exact(pos) /\ LineStart(pos) = RFind(pos.index) + 1

\* The inductive invariant.  Where it strayed, only that it is a place is known.
Places == [index : Nat, lineno : Int, colno : Int]
IInv ==
  /\ text \in Texts /\ pos \in Places /\ (saved # None => saved.at \in Places)
  /\ ~strayed => Exact(pos)
  /\ saved # None /\ ~saved.strayed => Exact(saved.at)
===============================================================================
