--------------------------------- MODULE Stream --------------------------------
(***************************************************************************)
(* nr.stream: a stream on an iterator, and a stream derived from it by a   *)
(* chain of operations, of which each takes from the one before only what  *)
(* it is asked for.  An item is a sequence of elements; an element alone   *)
(* is a sequence of one.                                                   *)
(***************************************************************************)
EXTENDS Integers, Sequences, SequencesExt, FiniteSets, FiniteSetsExt

CONSTANTS Sources,    \* what streams are made of: sequences of items
  Ops,                \* what may be derived: a name, start, stop, step, skip and extra
  MaxOps              \* bound on the operations of a chain

VARIABLES
  isList,             \* the first stream was made of a list
  full, left,         \* what it was made of, and what its iterator has left
  original,           \* its _original is still there
  chain,              \* the stages of the derived stream: an operation and its state
  begin, given,       \* history: what was left when the first stage was derived, and what
                      \* has been taken from the derived stream
  mixed,              \* history: the first stream was used beside the derived one
  quiet,              \* history: its iterator has moved and _original was kept
  answer              \* of the last call that ends a stream

vars == <<isList, full, left, original, chain, begin, given, mixed, quiet, answer>>

Init ==
  /\ full \in Sources /\ isList \in BOOLEAN /\ left = full /\ original = TRUE
  /\ chain = <<>> /\ begin = <<>> /\ given = <<>>
  /\ mixed = FALSE /\ quiet = FALSE /\ answer = [call |-> "none"]

-------------------------------------------------------------------------------
\* The functions that the caller passes: a key, a predicate, one to many.
Key(x) == IF x = <<>> THEN 0 ELSE x[1]
Holds(x) == Key(x) > 0
Many(x) == [i \in DOMAIN x |-> <<x[i]>>]
Sorted(s) == SortSeq(s, LAMBDA x, y : Key(x) < Key(y))

\* A stage: what it has ready, what it holds back, how much it has taken, the keys it has
\* seen, whether it lets pass (dropwhile), and whether its generator is over.
Stage(op) ==
  [op |-> op, ready |-> <<>>, held |-> <<>>, taken |-> 0, seen |-> op.skip, open |-> FALSE,
   over |-> op.name = "slice" /\ op.start = 0 /\ op.stop = 0]

Emit(s, items) == [s EXCEPT !.ready = @ \o items]
If(cond, s, x) == IF cond THEN Emit(s, <<x>>) ELSE s

Map(s, x) == Emit(s, <<x \o x>>)
Filter(s, x) == If(Holds(x), s, x)
Distinct(s, x) == If(Key(x) \notin s.seen, [s EXCEPT !.seen = @ \cup {Key(x)}], x)
DropWhile(s, x) == If(s.open \/ ~Holds(x), [s EXCEPT !.open = @ \/ ~Holds(x)], x)
TakeWhile(s, x) == If(Holds(x), [s EXCEPT !.over = ~Holds(x)], x)
FlatMap(s, x) == Emit(s, Many(x))
Concat(s, x) == Emit(s, Many(x))

\* islice() goes on to its stop.
Slice(s, x) ==
  If(s.taken >= s.op.start /\ s.taken < s.op.stop /\ (s.taken - s.op.start) % s.op.step = 0,
     [s EXCEPT !.taken = @ + 1, !.over = s.taken + 1 >= Max({s.op.start, s.op.stop})], x)

\* What batch() and groupby() hold back; a batch is full with n items, and has one at least.
Hold(s, x) == [s EXCEPT !.held = Append(@, x)]
Flush(s) == IF s.held = <<>> THEN s ELSE Emit([s EXCEPT !.held = <<>>], <<FlattenSeq(s.held)>>)
FlushIf(cond, s) == IF cond THEN Flush(s) ELSE s
Batch(s, x) == FlushIf(Len(s.held) + 1 >= s.op.start, Hold(s, x))
GroupBy(s, x) == Hold(FlushIf(s.held # <<>> /\ Key(s.held[1]) # Key(x), s), x)

\* A stage gets an item.
Feed(s, x) ==
  CASE s.op.name = "map" -> Map(s, x)
    [] s.op.name = "filter" -> Filter(s, x)
    [] s.op.name = "distinct" -> Distinct(s, x)
    [] s.op.name = "dropwhile" -> DropWhile(s, x)
    [] s.op.name = "takewhile" -> TakeWhile(s, x)
    [] s.op.name = "slice" -> Slice(s, x)
    [] s.op.name = "flatmap" -> FlatMap(s, x)
    [] s.op.name = "concat" -> Concat(s, x)
    [] s.op.name = "append" -> Emit(s, <<x>>)
    [] s.op.name = "batch" -> Batch(s, x)
    [] s.op.name = "groupby" -> GroupBy(s, x)
    [] s.op.name = "sort" -> Hold(s, x)

\* A stage gets a StopIteration.
End(s) ==
  CASE s.op.name = "append" -> Emit([s EXCEPT !.over = TRUE], s.op.extra)
    [] s.op.name \in {"batch", "groupby"} -> [Flush(s) EXCEPT !.over = TRUE]
    [] s.op.name = "sort" -> Emit([s EXCEPT !.over = TRUE], Sorted(s.held))
    [] OTHER -> [s EXCEPT !.over = TRUE]

\* Stage i has asked for an item: of the iterator, or of the stage before.
Fed(p, i) ==
  CASE i = 1 /\ p.left = <<>> -> [p EXCEPT !.chain[1] = End(@)]
    [] i = 1 /\ p.left # <<>> -> [p EXCEPT !.left = Tail(@), !.chain[1] = Feed(@, Head(p.left))]
    [] i > 1 /\ p.chain[i - 1].ready = <<>> -> [p EXCEPT !.chain[i] = End(@)]
    [] OTHER -> [p EXCEPT !.chain[i - 1].ready = Tail(@),
                          !.chain[i] = Feed(@, Head(p.chain[i - 1].ready))]

RECURSIVE Advance(_, _)
Advance(p, i) ==
  IF i = 0 \/ p.chain[i].ready # <<>> \/ p.chain[i].over THEN p
  ELSE Advance(Fed(Advance(p, i - 1), i), i)

-------------------------------------------------------------------------------
\* concat() is the one operation that goes through __next__(), which forgets the original.
Forgets(p) == /\ p.chain[1].op.name = "concat"
              /\ \/ p.left # left
                 \/ chain # <<>> /\ p.chain[1] # chain[1]

\* An operation is derived; sort() asks for everything at once.
Derive(op) ==
  /\ Len(chain) < MaxOps /\ given = <<>> /\ answer.call # "stop"
  /\ LET p == [left |-> left, chain |-> Append(chain, Stage(op))]
         q == IF op.name = "sort" THEN Advance(p, Len(p.chain)) ELSE p
     IN  left' = q.left /\ chain' = q.chain /\ original' = (original /\ ~Forgets(q))
  /\ begin' = IF chain = <<>> THEN left ELSE begin
  /\ quiet' = (quiet \/ (original' /\ left' # left))
  /\ UNCHANGED <<isList, full, given, mixed, answer>>

\* next() of the derived stream.
DerivedNext ==
  /\ chain # <<>> /\ answer.call # "stop"
  /\ LET p == Advance([left |-> left, chain |-> chain], Len(chain))
         ready == p.chain[Len(chain)].ready
     IN  /\ left' = p.left /\ original' = (original /\ ~Forgets(p))
         /\ IF ready = <<>> THEN chain' = p.chain /\ given' = given /\ answer' = [call |-> "stop"]
            ELSE /\ chain' = [p.chain EXCEPT ![Len(chain)].ready = Tail(@)]
                 /\ given' = Append(given, Head(ready)) /\ answer' = [call |-> "none"]
  /\ quiet' = (quiet \/ (original' /\ left' # left))
  /\ UNCHANGED <<isList, full, begin, mixed>>

\* The iterator gives n items, or what there is, to a caller of the first stream; of
\* those only __next__() forgets the original.
Skip(n, forget) ==
  /\ left' = SubSeq(left, n + 1, Len(left))
  /\ original' = (original /\ ~forget)
  /\ quiet' = (quiet \/ (original' /\ left' # left))
  /\ mixed' = (mixed \/ chain # <<>>)
  /\ UNCHANGED <<isList, full, chain, begin, given>>

TakeNext == Skip(1, TRUE) /\ answer' = [call |-> "none"]
First == Skip(1, FALSE) /\ answer' = [call |-> "none"]      \* first(), next(), consume(1)
Count == Skip(Len(left), FALSE) /\ answer' = [call |-> "count", value |-> Len(left)]

\* stream[i]: from the end if i is negative.
At(i) ==
  /\ Skip(IF i < 0 THEN Len(left) ELSE i + 1, TRUE)
  /\ LET at == IF i < 0 THEN Len(left) + i + 1 ELSE i + 1 IN
     answer' = [call |-> "at", value |-> IF at \in DOMAIN left THEN left[at] ELSE "IndexError"]

\* collect(), which gives a list back that the stream was made of.
Collect ==
  /\ IF isList /\ original
     THEN /\ answer' = [call |-> "collect", value |-> full, left |-> left]
          /\ UNCHANGED <<left, mixed, quiet>>
     ELSE /\ answer' = [call |-> "collect", value |-> left, left |-> left]
          /\ left' = <<>> /\ mixed' = (mixed \/ chain # <<>>)
          /\ quiet' = (quiet \/ (original /\ left # <<>>))
  /\ UNCHANGED <<isList, full, original, chain, begin, given>>

Use == answer.call # "stop" /\ (TakeNext \/ First \/ Count \/ At(1) \/ At(-2) \/ Collect)
Next == Use \/ DerivedNext \/ \E op \in Ops : Derive(op)

Spec == Init /\ [][Next]_vars

-------------------------------------------------------------------------------
\* What the operations are, on a whole list.
Firsts(s) == SelectSeq([i \in DOMAIN s |-> <<i, s[i]>>],
                       LAMBDA x : \A j \in 1 .. x[1] - 1 : Key(s[j]) # Key(x[2]))
Failing(s) == {i \in DOMAIN s : ~Holds(s[i])}
Groups(s, ends) ==     \* the items up to each of the ends, together
  LET Before(i) == Max({0} \cup {j \in ends : j < i}) IN
  [n \in 1 .. Cardinality(ends) |->
     LET i == CHOOSE j \in ends : Cardinality({k \in ends : k <= j}) = n
     IN  FlattenSeq(SubSeq(s, Before(i) + 1, i))]

Whole(op, s) ==
  CASE op.name = "map" -> [i \in DOMAIN s |-> s[i] \o s[i]]
    [] op.name = "filter" -> SelectSeq(s, Holds)
    [] op.name = "distinct" ->
         SelectSeq([i \in DOMAIN Firsts(s) |-> Firsts(s)[i][2]], LAMBDA x : Key(x) \notin op.skip)
    [] op.name = "dropwhile" -> SubSeq(s, Min({Len(s) + 1} \cup Failing(s)), Len(s))
    [] op.name = "takewhile" -> SubSeq(s, 1, Min({Len(s) + 1} \cup Failing(s)) - 1)
    [] op.name = "slice" ->
         LET n == Max({0, Min({op.stop, Len(s)}) - op.start}) IN
         [i \in 1 .. (n + op.step - 1) \div op.step |-> s[op.start + (i - 1) * op.step + 1]]
    [] op.name \in {"flatmap", "concat"} -> FlattenSeq([i \in DOMAIN s |-> Many(s[i])])
    [] op.name = "append" -> s \o op.extra
    [] op.name = "batch" ->
         Groups(s, {i \in DOMAIN s : i = Len(s) \/ i % Max({op.start, 1}) = 0})
    [] op.name = "groupby" -> Groups(s, {i \in DOMAIN s : i = Len(s) \/ Key(s[i + 1]) # Key(s[i])})
    [] op.name = "sort" -> Sorted(s)

Result == FoldLeft(LAMBDA s, stage : Whole(stage.op, s), begin, chain)

\* Asked item by item, a chain gives what its operations say of the list as a whole, and
\* nothing else when it has ended; unless the first stream is used beside it, whose
\* iterator is the same (__init__.py:87-128, 234-244, 282-303).
ChainIsItsOperations ==
  ~mixed => /\ IsPrefix(given, Result)
            /\ answer.call = "stop" => given = Result

\* No more is taken of the iterator than the items given need: without the last item that
\* was taken, there would be one less.  Batches, groups, sorting and islice() look ahead.
TakesNoMore ==
  LET taken == Len(begin) - Len(left) IN
  ~mixed /\ taken > 0 /\ answer.call = "none" /\ given # <<>>
    /\ (\A i \in DOMAIN chain : chain[i].op.name \in {"map", "filter", "distinct", "dropwhile", "flatmap", "append"})
    => Len(FoldLeft(LAMBDA s, stage : Whole([stage.op EXCEPT !.extra = <<>>], s),
                    SubSeq(begin, 1, taken - 1), chain)) < Len(given)

\* collect() gives what is left, unless the iterator has moved without __next__(): then a
\* list comes back whole (__init__.py:154-164).
CollectIsWhatIsLeft ==
  answer.call = "collect" /\ ~quiet => answer.value = answer.left
===============================================================================
