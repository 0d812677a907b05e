--------------------------------- MODULE Paths ---------------------------------
(***************************************************************************)
(* nr.fs: _path.py, the functions of names, modes and times.  A path is    *)
(* absolute or not and has a sequence of elements; an element is the       *)
(* sequence of the pieces between its dots, so <<"a", "b">> is `a.b' and   *)
(* <<"", "x">> is `.x'.                                                    *)
(***************************************************************************)
EXTENDS Integers, Sequences, SequencesExt, FiniteSets, FiniteSetsExt

CONSTANTS None

Up == <<"..">>
Here == <<".">>
Path(isabs, parts) == [abs |-> isabs, parts |-> parts]

\* os.path.normpath(); `' is `.', a path without elements.
Norm(path) ==
  LET Step(done, e) == IF e = Here THEN done
                       ELSE IF e # Up \/ (done # <<>> /\ Last(done) = Up) \/ (done = <<>> /\ ~path.abs)
                            THEN Append(done, e)
                       ELSE IF done = <<>> THEN done ELSE Front(done)
  IN  [path EXCEPT !.parts = FoldLeft(Step, <<>>, path.parts)]

Join(base, path) == IF path.abs THEN path ELSE [base EXCEPT !.parts = @ \o path.parts]
Abs(path, parent) == Join(parent, path)
Canonical(path, parent) == Norm(Abs(path, parent))     \* where case matters

\* os.path.relpath() of an absolute path from an absolute directory.
RelPath(path, parent) ==
  LET p == Norm(path).parts
      d == Norm(parent).parts
      same == Max({0} \cup {n \in 1 .. Min({Len(p), Len(d)}) : SubSeq(p, 1, n) = SubSeq(d, 1, n)})
  IN  Path(FALSE, [i \in 1 .. Len(d) - same |-> Up] \o SubSeq(p, same + 1, Len(p)))

IsSub(path, atCurr) ==
  /\ ~path.abs
  /\ LET p == Norm(path).parts IN IF p = <<>> THEN atCurr ELSE p[1] # Up

Rel(path, parent, cwd, par) ==
  LET res == RelPath(Abs(path, cwd), Abs(parent, cwd))
  IN  IF ~par /\ ~IsSub(res, TRUE) THEN Abs(path, cwd) ELSE res

IsChild(src, dst, cwd) == IsPrefix(Norm(Abs(src, cwd)).parts, Norm(Abs(dst, cwd)).parts)

-------------------------------------------------------------------------------
\* The last element, and its suffix.
WithBase(path, e) == [path EXCEPT !.parts[Len(path.parts)] = e]
Base(path) == Last(path.parts)

GetSuffix(path) == IF Len(Base(path)) > 1 THEN Last(Base(path)) ELSE None
RmvSuffix(path) == IF Len(Base(path)) > 1 THEN WithBase(path, Front(Base(path))) ELSE path

\* A suffix has its pieces behind its dots.
AddSuffix(path, suffix, replace) ==
  LET p == IF replace THEN RmvSuffix(path) ELSE path IN
  IF suffix = None THEN p ELSE WithBase(p, Base(p) \o suffix)

AddPrefix(path, prefix) ==
  IF prefix = None THEN path ELSE WithBase(path, <<prefix \o Head(Base(path))>> \o Tail(Base(path)))

\* os.path.splitext(): dots at the front do not begin a suffix.
AddToBase(path, suffix) ==
  LET e == Base(path)
      ext == Len(e) > 1 /\ \E i \in 1 .. Len(e) - 1 : e[i] # ""
      at == IF ext THEN Len(e) - 1 ELSE Len(e)
  IN  IF suffix = None THEN path ELSE WithBase(path, [e EXCEPT ![at] = @ \o suffix])

-------------------------------------------------------------------------------
\* glob() of the files that each pattern gives, in order.  An exclude is a pattern, or a
\* name; each file it gives removes one match.
RemoveOne(result, f, ignoreFalse) ==
  IF result = None THEN None
  ELSE IF f \in ToSet(result) THEN RemoveAt(result, SelectInSeq(result, LAMBDA x : x = f))
  ELSE IF ignoreFalse THEN result ELSE None      \* None: a ValueError
Glob(patterns, excludes, ignoreFalse) ==
  FoldLeft(LAMBDA r, f : RemoveOne(r, f, ignoreFalse),
           FlattenSeq(patterns), FlattenSeq(excludes))

\* chmod_update(): flags are pairs of who and what.
Who == {"u", "g", "o"}
What == {"r", "w", "x"}
ChmodStep(s, c) ==
  IF s.error # None THEN s
  ELSE IF c \in {"+", "-"} THEN [s EXCEPT !.direction = c]
  ELSE IF c \in Who \cup {"a"} THEN [s EXCEPT !.target = c, !.direction = None]
  ELSE IF c \notin What THEN [s EXCEPT !.error = "ValueError"]
  ELSE IF s.direction = None THEN [s EXCEPT !.error = "TypeError"]
  ELSE LET mask == (IF s.target = "a" THEN Who ELSE {s.target}) \X {c} IN
       [s EXCEPT !.flags = IF s.direction = "-" THEN @ \ mask ELSE @ \cup mask]
ChmodUpdate(flags, mode) ==
  FoldLeft(ChmodStep, [flags |-> flags, target |-> "a", direction |-> None, error |-> None], mode)

ChmodRepr(flags) ==
  LET who == <<"u", "g", "o">>
      what == <<"r", "w", "x">>
  IN  [i \in 1 .. 9 |-> <<who[((i - 1) \div 3) + 1], what[((i - 1) % 3) + 1]>> \in flags]

\* Times of files; None: there is no such file.
CompareTimestamp(src, dst) == IF dst = None THEN "yes" ELSE IF src = None THEN "OSError"
                              ELSE IF src > dst THEN "yes" ELSE "no"
CompareAllTimestamps(srcs, dsts) ==
  IF dsts = <<>> \/ None \in ToSet(dsts) THEN "yes"
  ELSE IF srcs = <<>> THEN "no"
  ELSE IF None \in ToSet(srcs) THEN "OSError"
  ELSE IF Max(ToSet(srcs)) > Min(ToSet(dsts)) THEN "yes" ELSE "no"
-------------------------------------------------------------------------------
\* A relative path leads from its parent to where the path leads from the current
\* directory; unless one is asked for, it is given exactly for what is inside.
RelLeadsBack(path, parent, cwd, par) ==
  LET r == Rel(path, parent, cwd, par) IN
  /\ Norm(Join(Abs(parent, cwd), r)) = Canonical(path, cwd)
  /\ ~r.abs <=> par \/ IsChild(parent, path, cwd)

\* The suffix is what rmvsuffix() takes, and addtobase() leaves it alone; but the whole
\* name of a file that begins with a dot is its suffix, and there splitext() disagrees
\* (_path.py:257-331).
SuffixIsWhatIsRemoved(path, suffix) ==
  /\ GetSuffix(path) # None => AddSuffix(RmvSuffix(path), <<GetSuffix(path)>>, FALSE) = path
  /\ suffix # None => GetSuffix(AddSuffix(path, <<suffix>>, TRUE)) = suffix
  /\ Head(Base(path)) # "" => GetSuffix(AddToBase(path, suffix)) = GetSuffix(path)

\* Every file listed in the excludes removes one match, in whatever order they come, and
\* only one too many is an error (_path.py:205-213).
ExcludesRemoveOneEach(patterns, excludes) ==
  LET all == FlattenSeq(patterns)
      out == FlattenSeq(excludes)
      Times(f, q) == Len(SelectSeq(q, LAMBDA x : x = f))
      files == ToSet(all) \cup ToSet(out)
  IN  /\ \A f \in files : Times(f, Glob(patterns, excludes, TRUE)) = Max({0, Times(f, all) - Times(f, out)})
      /\ Glob(patterns, excludes, FALSE) = None <=> \E f \in files : Times(f, out) > Times(f, all)

\* A permission is what the last sign before the last letter for it says; a letter before
\* which there is no sign, or whose sign is before its group, is an error.
LastLetterWins(flags, mode) ==
  LET LastOf(set, i) == Max({0} \cup {j \in 1 .. i - 1 : mode[j] \in set})
      letters == {i \in DOMAIN mode : mode[i] \in What}
      group == Who \cup {"a"}
      Target(i) == IF LastOf(group, i) = 0 THEN "a" ELSE mode[LastOf(group, i)]
      unsigned == {i \in letters : LastOf({"+", "-"}, i) <= LastOf(group, i)}
      For(bit) == {i \in letters : mode[i] = bit[2] /\ Target(i) \in {"a", bit[1]}}
      r == ChmodUpdate(flags, mode)
  IN  /\ r.error # None <=> unsigned # {} \/ \E i \in DOMAIN mode : mode[i] \notin group \cup What \cup {"+", "-"}
      /\ r.error = None => \A bit \in Who \X What :
           bit \in r.flags <=> IF For(bit) = {} THEN bit \in flags
                               ELSE mode[LastOf({"+", "-"}, Max(For(bit)))] = "+"

\* Dirty is what the docstring says: a target is missing, or a source is newer than one
\* (_path.py:419-423).
DirtyAsDocumented(srcs, dsts) ==
  srcs # <<>> /\ dsts # <<>> /\ None \notin ToSet(srcs) =>
    (CompareAllTimestamps(srcs, dsts) = "yes" <=>
       \E s \in ToSet(srcs), d \in ToSet(dsts) : CompareTimestamp(s, d) = "yes")
===============================================================================
