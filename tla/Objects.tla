--------------------------------- MODULE Objects --------------------------------
(***************************************************************************)
(* The library objects that keep a state between calls and are called one  *)
(* call at a time: a chain of dictionaries and the mapping it stands for,  *)
(* an ordered set, a scanner, a tokenizer, a clone of a repository, and a  *)
(* bundle.  A behaviour is one of the component that `part' names, whose   *)
(* variables are the first of x1 .. x11.                                   *)
(***************************************************************************)
EXTENDS Naturals, Sequences

CONSTANTS Absent,      \* what a variable has that no component uses
  ChainKeys, Vals, KeyError, Nothing, Depth,                 \* ChainDict
  Elements, MaxLength,                                       \* OrderedSet
  Texts, Steps, MaxIndex,                                    \* Scanner
  RuleSets, TextLength, MaxRecursion, MaxScopes,             \* Tokenizer
  Branches, RemoteNames, Urls, FileTexts, MaxCommits,        \* Git
  Modules, Collected, MaxTime, MaxEdits, Options             \* Bundle

VARIABLES part, x1, x2, x3, x4, x5, x6, x7, x8, x9, x10, x11

pool == <<x1, x2, x3, x4, x5, x6, x7, x8, x9, x10, x11>>
objectVars == <<part, pool>>

-------------------------------------------------------------------------------
Chain == INSTANCE ChainDict WITH Keys <- ChainKeys,
  major <- x1, others <- x2, deleted <- x3, ret <- x4
Abstract == INSTANCE Mapping WITH Keys <- ChainKeys, mapping <- Chain!Contents, ret <- x4

Ordered == INSTANCE OrderedSet WITH Keys <- Elements,
  index <- x1, content <- x2, shifted <- x3, failed <- x4

Scanning == INSTANCE Scanner WITH None <- Absent,
  text <- x1, pos <- x2, saved <- x3, strayed <- x4, raised <- x5

Tokens == INSTANCE Tokenizer WITH None <- Absent, Size <- TextLength,
  rules <- x1, pos <- x2, current <- x3, once <- x4, config <- x5, ref <- x6, saved <- x7,
  scopes <- x8, still <- x9, outcome <- x10, loaded <- x11

Repo == INSTANCE Git WITH None <- Absent, Contents <- FileTexts,
  commits <- x1, branches <- x2, head <- x3, index <- x4, work <- x5, tag <- x6, remotes <- x7,
  remoteRefs <- x8, said <- x9

Bundles == INSTANCE Bundle WITH None <- Absent,
  world <- x1, o <- x2, stage <- x3, todo <- x4, src <- x5, file <- x6, zip <- x7, now <- x8,
  spoiled <- x9

ASSUME ObjectsAssumption ==
  Chain!DepthIsNumber /\ MaxLength \in Nat /\ Scanning!TextsAreTexts /\ Tokens!RulesAreRules

-------------------------------------------------------------------------------
ObjectsInit ==
  \/ part = "chaindict" /\ Chain!Init /\ x5 = Absent /\ x6 = Absent /\ x7 = Absent /\ x8 = Absent
       /\ x9 = Absent /\ x10 = Absent /\ x11 = Absent
  \/ part = "orderedset" /\ Ordered!Init /\ x5 = Absent /\ x6 = Absent /\ x7 = Absent /\ x8 = Absent
       /\ x9 = Absent /\ x10 = Absent /\ x11 = Absent
  \/ part = "scanner" /\ Scanning!Init /\ x6 = Absent /\ x7 = Absent /\ x8 = Absent /\ x9 = Absent
       /\ x10 = Absent /\ x11 = Absent
  \/ part = "tokenizer" /\ Tokens!Init
  \/ part = "git" /\ Repo!Init /\ x10 = Absent /\ x11 = Absent
  \/ part = "bundle" /\ Bundles!Init /\ x10 = Absent /\ x11 = Absent

\* The rest of the pool does not move.
Keep(what) == UNCHANGED <<part, what>>
ObjectsNext ==
  \/ part = "chaindict" /\ Chain!Next /\ Keep(<<x5, x6, x7, x8, x9, x10, x11>>)
  \/ part = "orderedset" /\ Ordered!Next /\ Keep(<<x5, x6, x7, x8, x9, x10, x11>>)
  \/ part = "scanner" /\ Scanning!Next /\ Keep(<<x6, x7, x8, x9, x10, x11>>)
  \/ part = "tokenizer" /\ Tokens!Next /\ Keep(<<>>)
  \/ part = "git" /\ Repo!Next /\ Keep(<<x10, x11>>)
  \/ part = "bundle" /\ Bundles!Next /\ Keep(<<x10, x11>>)

ObjectsSpec == ObjectsInit /\ [][ObjectsNext]_objectVars

-------------------------------------------------------------------------------
\* Whatever is found in which of its dictionaries, a chain implements the abstract Mapping:
\* each call returns and changes what it would of a dictionary with the contents; a copy may
\* know more keys (nr/collections/chaindict.py).  The part comes first for TLC's sake.
IsMapping ==
  /\ part = "chaindict" => Abstract!Init
  /\ [][part = "chaindict" => [Abstract!Next]_<<Chain!Contents, x4>>]_objectVars

\* Nothing but a checkout of the file and its editor changes work that was not staged, not
\* even reset(hard=True) (nr.utils.git/__init__.py:323-349).
UnstagedWorkSurvives == [][part = "git" => Repo!KeepsUnstagedWork]_objectVars

\* The structures of a collection agree through any sequence of calls: the written and the
\* deleted keys, the keys and their places (chaindict.py:40-140, orderedset.py:44-112).
CollectionsAreExact ==
  /\ part = "chaindict" => Chain!WrittenIsNotDeleted
  /\ part = "orderedset" => Ordered!TypeOK /\ Ordered!IndexIsPosition /\ Ordered!SizesAgree

\* What an object says of something else is true of it after any mix of calls: the line and
\* column of a place in a text, the tokens and the state behind them, what git was asked,
\* what a build leaves behind while its sources are edited (scanner.py:61-180,
\* tokenizer.py:100-330, git/__init__.py:140-304, bundle.py:560-860).
AccountsAreTrue ==
  /\ part = "scanner" => Scanning!PositionIsExact
  /\ part = "tokenizer" => Tokens!TokensMoveOn /\ Tokens!CheckpointIsKept /\ Tokens!ScopesLeaveNothing
  /\ part = "git" => Repo!AnswersAreTrue
  /\ part = "bundle" => Bundles!BundleIsCurrent
===============================================================================
