--------------------------------- MODULE Ignore --------------------------------
(***************************************************************************)
(* nr.pylang.bundle: gitignore.py.  A path is the sequence of its parts    *)
(* below the root; a line of a file of patterns has the parts between its  *)
(* slashes, which are "" at a slash that begins or ends the line.          *)
(***************************************************************************)
EXTENDS Naturals, Sequences, SequencesExt

\* IgnoreList.parse(): a pattern with a slash somewhere is made absolute.
Pattern(line) ==
  [parts |-> IF Len(line.parts) > 1 /\ line.parts[1] # "" THEN <<"">> \o line.parts ELSE line.parts,
   invert |-> line.invert]
Parse(lines) == [i \in DOMAIN lines |-> Pattern(lines[i])]

IsAbs(p) == p.parts[1] = ""
DirOnly(p) == Last(p.parts) = ""

FnMatch(part, pattern) == pattern \in {"*", part}

\* Pattern.match(): a prefix of the path, or for a relative pattern any part of it.
MatchesAt(p, f, i) == \A j \in DOMAIN p.parts : FnMatch(f[i + j], p.parts[j])
Matches(p, path) ==
  LET f == <<"">> \o path IN       \* convert_path()
  \E i \in 0 .. Len(f) - Len(p.parts) : (IsAbs(p) => i = 0) /\ MatchesAt(p, f, i)

\* IgnoreList.match(): a pattern that includes ends the search.
Match(list, path, isdir) ==
  LET Step(result, p) ==
        IF result = "include" \/ (DirOnly(p) /\ ~isdir) \/ (result = "ignore" /\ ~p.invert) THEN result
        ELSE IF ~Matches(p, path) THEN result
        ELSE IF p.invert THEN "include" ELSE "ignore"
  IN  FoldLeft(Step, "default", list)

\* IgnoreListCollection.match(): the first list that has a say.
MatchAll(lists, path, isdir) ==
  LET say == {i \in DOMAIN lists : Match(lists[i], path, isdir) # "default"} IN
  IF say = {} THEN "default"
  ELSE Match(lists[CHOOSE i \in say : \A j \in say : i <= j], path, isdir)

\* walk(): the directories that are ignored are not entered.
Walk(lists, files) ==
  {f \in files : MatchAll(lists, f, FALSE) # "ignore"
                   /\ \A i \in 1 .. Len(f) - 1 : MatchAll(lists, SubSeq(f, 1, i), TRUE) # "ignore"}

-------------------------------------------------------------------------------
\* Within a list the order of the lines does not matter: one that includes wins over all,
\* where git takes the last one that matches (gitignore.py:182-194).
OrderIsIrrelevant(list, path, isdir) ==
  Match(list, path, isdir) = Match(Reverse(list), path, isdir)

\* A line that ends with a slash matches nothing, not even the directory: the empty part
\* behind its last slash is looked for in the path; and a blank line, which has nothing
\* but that part, matches every directory (gitignore.py:69-74, 84-105, 142-153).
SlashMatches(list, path, isdir) ==
  (\A i \in DOMAIN list : DirOnly(list[i]) /\ ~list[i].invert) =>
    Match(list, path, isdir) =
      IF isdir /\ (\E i \in DOMAIN list : list[i].parts = <<"">>) THEN "ignore" ELSE "default"

\* What is below something that is ignored is not walked, unless only patterns with a
\* slash ignore it and another includes it.
WalkIsPruned(lists, files) ==
  \A f \in Walk(lists, files) : \A i \in 1 .. Len(f) - 1 :
    MatchAll(lists, SubSeq(f, 1, i), TRUE) # "ignore"
===============================================================================
