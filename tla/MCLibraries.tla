------------------------------- MODULE MCLibraries -------------------------------
(***************************************************************************)
(* For TLC: what a program that calls the libraries one call at a time     *)
(* relies on, and the cache, whose threads share a table.  A behaviour is  *)
(* one of JsonCache, of Objects, or of the component that `part' names and *)
(* that this module adds, whose variables are the first of x1 .. x11;      *)
(* where that is a pure algorithm, x1 is what it is given.                 *)
(***************************************************************************)
EXTENDS MCJsonCache, Objects

libraryVars == <<cacheVars, objectVars>>
LibrarySymmetry == Symmetry \cup Permutations(Vals)
UpTo(S, n) == UNION {[1 .. i -> S] : i \in 0 .. n}

-------------------------------------------------------------------------------
\* Of Objects: texts of four characters for the scanner and two for the tokenizer; builds
\* of two modules; and the calls that are made.
ScannedTexts ==
  {<<FALSE, TRUE, TRUE, FALSE>>, <<TRUE, FALSE, TRUE, FALSE>>, <<FALSE, TRUE, FALSE, FALSE>>}

Rule(type, skip, strings, takes) == [type |-> type, skip |-> skip, strings |-> strings, takes |-> takes]
Grammars ==
  {<<Rule("z", FALSE, TRUE, <<0, Absent, 0>>), Rule("s", TRUE, TRUE, <<Absent, 1, 1>>)>>,
   <<Rule("z", TRUE, FALSE, <<0, Absent, 0>>), Rule("s", FALSE, TRUE, <<0, 1, 1>>)>>}

Kinds(a, b) == ("a" :> a) @@ ("b" :> b)
Collection(kind, data) ==
  [kind |-> kind, imports |-> Kinds({"a", "b"}, {"a", "b"}), core |-> {"a"}, stdlib |-> {"a", "b"},
   unzippable |-> {"b"}, data |-> data]
Collections == {Collection(Kinds("src", "native"), {"b"}), Collection(Kinds("src", "notfound"), {"a"})}
Run(dist, srcs, compile, zip, always, extra) ==
  [dist |-> dist, defaults |-> dist, narrow |-> dist, srcs |-> srcs, compile |-> compile,
   zip |-> zip, always |-> always, extra |-> extra]
BuildOptions ==
  {Run(FALSE, TRUE, TRUE, TRUE, FALSE, "nothing"), Run(FALSE, FALSE, TRUE, FALSE, FALSE, "nothing"),
   Run(FALSE, FALSE, TRUE, FALSE, TRUE, "nothing"), Run(TRUE, TRUE, FALSE, FALSE, FALSE, "pex"),
   Run(FALSE, TRUE, FALSE, FALSE, FALSE, "nothing"), Run(FALSE, FALSE, FALSE, FALSE, FALSE, "entry")}

-------------------------------------------------------------------------------
\* A stream of three items and two operations.
Op(name, start, stop, step) ==
  [name |-> name, start |-> start, stop |-> stop, step |-> step, skip |-> {}, extra |-> <<>>]
Streams == INSTANCE Stream WITH Sources <- {<<<<1>>, <<0, 2>>, <<1>>>>}, MaxOps <- 2,
  Ops <- {Op(name, 0, 0, 1) : name \in {"map", "filter", "distinct", "dropwhile", "takewhile",
                                        "slice", "flatmap", "concat", "batch", "groupby", "sort"}}
           \cup {Op("slice", 1, 4, 2), Op("batch", 2, 0, 1)}
           \cup {[Op("distinct", 0, 0, 1) EXCEPT !.skip = {2}],
                 [Op("append", 0, 0, 1) EXCEPT !.extra = <<<<1>>, <<0>>>>]},
  isList <- x1, full <- x2, left <- x3, original <- x4, chain <- x5, begin <- x6, given <- x7,
  mixed <- x8, quiet <- x9, answer <- x10

-------------------------------------------------------------------------------
\* Bundles: two packages, a native module, imports in cycles.
P == <<"p">>
PA == <<"p", "a">>
PN == <<"p", "n">>
PAX == <<"p", "a", "x">>
Q == <<"q">>
Import(line, level, name, takes) == [line |-> line, level |-> level, name |-> name, takes |-> takes]
InP == {<<>>, <<Import(1, 1, <<>>, <<"a">>)>>}
InQ == {<<>>, <<Import(2, 0, PA, <<>>), Import(1, 0, P, <<"z">>)>>, <<Import(1, 0, <<"r">>, <<>>)>>}
InPA == {<<>>, <<Import(1, 2, <<>>, <<"n">>)>>, <<Import(1, 1, <<"x">>, <<>>)>>}
Packages(rest) == (P :> {"pkg"}) @@ (PA :> {"pkg"}) @@ rest
Graphs == INSTANCE ModuleGraph WITH
  Worlds <- [path : {<<Packages((PN :> {"native"}) @@ (PAX :> {"py"})), Q :> {"py"}>>,
                     <<Packages((PN :> {"py"}) @@ (PAX :> {"py"}) @@ (Q :> {"py"}))>>},
             builtin : {{<<"r">>}}, sparse : BOOLEAN, whole : {{}, {P}}, whitelist : {{}},
             source : {(P :> p) @@ (PA :> a) @@ (PAX :> <<>>) @@ (Q :> q) : p \in InP, a \in InPA, q \in InQ},
             excludes : {{}, {[importer |-> Q, name |-> P]}, {[importer |-> <<>>, name |-> P]}},
             hooks : {{P, PA}}],
  Roots <- {P, PA, PN, PAX, Q}, MaxRoots <- 2,
  world <- x1, graph <- x2, roots <- x3

-------------------------------------------------------------------------------
\* Texts: lines of patterns; dates and durations; modules of two statements.
Lists == INSTANCE Ignore
Lines == [parts : {<<"a">>, <<"*">>, <<"b">>, <<"a", "">>, <<"">>, <<"", "a">>, <<"a", "b">>,
                   <<"", "a", "">>, <<"", "*", "b">>}, invert : BOOLEAN]
IgnoreInputs == [list : {Lists!Parse(l) : l \in UpTo(Lines, 2)}, isdir : BOOLEAN,
                 path : {<<"a">>, <<"a", "b">>, <<"b", "a">>}]

Dating == INSTANCE Dates
Moments == [Y : {1, 2020}, m : {2, 12}, d : {28}, H : {0, 23}, M : {7}, S : {0, 59},
            f : {0, 1, 50000, 123456, 120}, z : {None, 0, 3600, -1800, -20700, 30}]
Characters == {Dating!D(20), Dating!D(10), Dating!C("-"), Dating!C("T"), Dating!C(":")}
DateInputs ==
  [moment : Moments] \cup [text : UNION {[1 .. n -> Characters] : n \in 3 .. 5}]
    \cup [digits : UNION {[1 .. n -> {0, 1, 9}] : n \in 1 .. 7}]
    \cup [duration : [date : [{"Y", "M", "W", "D"} -> {0, 2}], time : [{"H", "M", "S"} -> {0, 5}]]]

Names == INSTANCE NameRewriter WITH DataVar <- "__dict__", Builtins <- {"print"}
Stmt(kind, name, uses, body) == [kind |-> kind, name |-> name, uses |-> uses, params |-> <<>>, body |-> body]
Simple == {Stmt("load", "", <<"a">>, <<>>), Stmt("del", "a", <<>>, <<>>), Stmt("assign", "a", <<"b">>, <<>>),
           Stmt("import", "b", <<>>, <<>>), Stmt("comp", "a", <<"a", "b">>, <<>>)}
Compound ==
  Simple \cup {Stmt("for", "b", <<"a">>, <<Stmt("assign", "a", <<"b">>, <<>>)>>),
               Stmt("except", "a", <<>>, <<Stmt("load", "", <<"a">>, <<>>)>>)}
         \cup {Stmt("def", "g", <<>>, <<s>>) : s \in Simple}
Bodies == {<<s, u>> : s \in Compound, u \in Compound}
            \cup {<<Stmt("global", "a", <<>>, <<>>), s>> : s \in Compound}
Outermost ==
  Compound \cup {[Stmt("def", "f", <<"b">>, b) EXCEPT !.params = p] : p \in {<<>>, <<"b">>}, b \in Bodies}
           \cup {Stmt("class", "a", <<"b">>, b) : b \in Bodies}
NameInputs ==
  [module : {Stmt("module", "", <<>>, <<s, u>>) : s \in Outermost, u \in Simple},
   options : [contexts : {{"load", "store", "del"}}, inherit : BOOLEAN]]
    \cup [keeps : BOOLEAN, steps : UpTo({"a", "b", "print"} \X {None, "1"}, 3)]

-------------------------------------------------------------------------------
\* Functions: paths of two parts, small trees of data, four classes.
Files == INSTANCE Paths
Piece == {<<"a">>, <<"b">>, Files!Up, Files!Here}
SomePaths == {Files!Path(abs, parts) : abs \in BOOLEAN, parts \in UpTo(Piece, 2)}
Cwd == Files!Path(TRUE, <<<<"a">>, <<"b">>>>)
PathInputs ==
  [path : SomePaths, parent : SomePaths, par : BOOLEAN]
    \cup [base : {<<"a">>, <<"a", "b">>, <<"", "x">>, <<"", "x", "y">>, <<"a", "">>}, suffix : {None, "z"}]
    \cup [found : UpTo(UpTo({1, 2}, 2), 2), excluded : UpTo({<<1>>, <<2>>}, 3)]
    \cup [mode : UpTo({"+", "-", "u", "a", "r", "z"}, 4)]
    \cup [srcs : UpTo({None, 1, 2}, 2), dsts : UpTo({None, 1, 2}, 2)]

Configs == INSTANCE ConfigData WITH MaxDepth <- 5
Mapped(entries) == [map |-> entries]
Number(n) == [num |-> n]
Var(items) == [str |-> <<[var |-> items]>>]
KeyX == [key |-> "x"]
KeyY == [key |-> "y"]
Variables == {<<KeyX>>, <<KeyY>>, <<KeyX, [all |-> TRUE]>>, <<KeyX, [idx |-> 0]>>, <<KeyX, KeyY>>}
Leaf == {Number(1), [str |-> <<[text |-> "a"]>>], Var(<<KeyX>>), Var(<<KeyY>>), Var(<<[key |-> "exclude"]>>),
         [str |-> <<[text |-> "t"], [var |-> <<KeyX>>]>>], Configs!Marker}
Deep == Leaf \cup {[list |-> <<Number(1), Var(<<KeyY>>)>>], Mapped("x" :> Number(2)), Mapped("y" :> Var(<<KeyX>>)),
                   Mapped("y" :> Configs!Marker), Mapped(<<>>),
                   [list |-> <<Mapped(("x" :> Var(<<KeyY>>)) @@ ("y" :> Number(1)))>>]}
Small == {Mapped("x" :> a) : a \in Deep} \cup {Mapped("y" :> Mapped("x" :> a)) : a \in Leaf}
Tree == Small \cup {Mapped(("x" :> a) @@ ("y" :> b)) : a \in Deep, b \in Leaf}
ConfigInputs ==
  [value : Tree, resolvers : {<<r>> : r \in [data : Small, relative : BOOLEAN]}]
    \cup [beside : Tree, variable : Variables] \cup [first : Tree, second : Small]
    \cup [files : Small \X Tree]

Classes == INSTANCE Deconflict
Class == {"P", "A", "B", "Q"}
Parents == {("P" :> None) @@ ("A" :> a) @@ ("B" :> b) @@ ("Q" :> None) : a \in {None, "P"}, b \in {"P", "A"}}
Metaclasses == ("type" :> None) @@ ("M" :> "type") @@ ("N" :> "type") @@ ("L" :> "M")
ClassWorlds ==
  {w \in [parent : Parents, mparent : {Metaclasses}, meta : [Class -> DOMAIN Metaclasses]] :
     /\ w.meta["Q"] \in {"type", "N"}
     /\ \A c \in Class : w.parent[c] # None => Classes!IsSub(Metaclasses, w.meta[c], w.meta[w.parent[c]])}
ClassInputs == [world : ClassWorlds, bases : UNION {[1 .. n -> Class] : n \in 1 .. 3}]

-------------------------------------------------------------------------------
Inputs ==
  [ignore |-> IgnoreInputs, dates |-> DateInputs, names |-> NameInputs, paths |-> PathInputs,
   config |-> ConfigInputs, deconflict |-> ClassInputs]

LibraryInit ==
  /\ CacheInit
  /\ \/ ObjectsInit
     \/ part = "caching" /\ x1 = None /\ x2 = None /\ x3 = None /\ x4 = None /\ x5 = None /\ x6 = None
          /\ x7 = None /\ x8 = None /\ x9 = None /\ x10 = None /\ x11 = None
     \/ part \in DOMAIN Inputs /\ x1 \in Inputs[part] /\ x2 = None /\ x3 = None /\ x4 = None /\ x5 = None
          /\ x6 = None /\ x7 = None /\ x8 = None /\ x9 = None /\ x10 = None /\ x11 = None
     \/ part = "stream" /\ Streams!Init /\ x11 = None
     \/ part = "modulegraph" /\ Graphs!Init /\ x4 = None /\ x5 = None /\ x6 = None /\ x7 = None
          /\ x8 = None /\ x9 = None /\ x10 = None /\ x11 = None

LibraryNext ==
  \/ part = "caching" /\ CacheNext /\ UNCHANGED objectVars
  \/ ObjectsNext /\ UNCHANGED cacheVars
  \/ part = "stream" /\ Streams!Next /\ Keep(<<x11>>) /\ UNCHANGED cacheVars
  \/ part = "modulegraph" /\ Graphs!Next /\ Keep(<<x4, x5, x6, x7, x8, x9, x10, x11>>)
       /\ UNCHANGED cacheVars

LibrarySpec == LibraryInit /\ [][LibraryNext]_libraryVars

-------------------------------------------------------------------------------
\* All that a program imports is collected and nothing else, in whatever order it is
\* reached (modules.py:690-744, hooks.py:140-190).
ModulesAreComplete ==
  part = "modulegraph" => /\ Graphs!GraphIsClosed /\ Graphs!GraphIsMinimal
                          /\ Graphs!HooksSeeTheirModules /\ Graphs!RaisesForNativesOnly

\* Algorithms keep their laws: a chain of operations on a stream gives, item by item, what
\* they are on a whole list; the order of its lines does not matter to what a list ignores;
\* a date that is written and read is the same moment; only global names of a module are
\* rewritten; a relative path leads back, an exclude removes one, the last letter of a mode
\* wins; only variables of a configuration change, and the last file wins; a metaclass that
\* resolves a conflict derives from all (nr.stream/__init__.py:51-366, gitignore.py:62-194,
\* nr.parsing.date, dynamic_eval.py:60-330, nr/fs/_path.py, nr/config,
\* nr/metaclass/deconflict.py and copy.py).
FunctionsAreLawful ==
  /\ part = "stream" => Streams!ChainIsItsOperations /\ Streams!TakesNoMore /\ Streams!CollectIsWhatIsLeft
  /\ part = "ignore" =>
       /\ Lists!OrderIsIrrelevant(x1.list, x1.path, x1.isdir)
       /\ Lists!SlashMatches(x1.list, x1.path, x1.isdir)
       /\ Lists!WalkIsPruned(<<x1.list>>, {<<"a">>, <<"b">>, <<"b", "a">>, <<"b", "b">>})
  /\ part = "dates" =>
       /\ "moment" \in DOMAIN x1 => /\ Dating!RoundTrip(Dating!Iso8601, x1.moment)
                                    /\ Dating!RoundTrip(Dating!Java, x1.moment)
       /\ "text" \in DOMAIN x1 => Dating!OneFormatFits(x1.text)
       /\ "digits" \in DOMAIN x1 => Dating!FractionIsCut(x1.digits)
       /\ "duration" \in DOMAIN x1 => Dating!DurationRoundTrip(x1.duration)
  /\ part = "names" =>
       /\ "module" \in DOMAIN x1 => /\ Names!OnlyGlobalsAreRewritten(x1.module, x1.options)
                                    /\ Names!ModuleNamesStay(x1.module, x1.options)
       /\ "steps" \in DOMAIN x1 => Names!LastStepIsSeen("a" :> "0", x1.keeps, x1.steps)
  /\ part = "paths" =>
       /\ "path" \in DOMAIN x1 => Files!RelLeadsBack(x1.path, x1.parent, Cwd, x1.par)
       /\ "base" \in DOMAIN x1 => Files!SuffixIsWhatIsRemoved(Files!Path(TRUE, <<x1.base>>), x1.suffix)
       /\ "found" \in DOMAIN x1 => Files!ExcludesRemoveOneEach(x1.found, x1.excluded)
       /\ "mode" \in DOMAIN x1 => Files!LastLetterWins({<<"u", "r">>, <<"g", "w">>}, x1.mode)
       /\ "srcs" \in DOMAIN x1 => Files!DirtyAsDocumented(x1.srcs, x1.dsts)
  /\ part = "config" =>
       /\ "value" \in DOMAIN x1 => Configs!OnlyVariablesChange(x1.value, x1.resolvers)
       /\ "beside" \in DOMAIN x1 =>
            \A place \in Configs!Places(x1.beside) : Configs!RelativeIsBeside(x1.beside, place, x1.variable)
       /\ "first" \in DOMAIN x1 => /\ Configs!MergeIsStable(x1.first, x1.second)
                                   /\ Configs!RenderExcludes(x1.first, x1.second)
       /\ "files" \in DOMAIN x1 => Configs!LastFileWins(x1.files)
  /\ part = "deconflict" =>
       /\ Classes!ConflictsAreReal(x1.world, x1.bases) /\ Classes!ReducedIsEssential(x1.world, x1.bases)
       /\ Classes!ResolvedDerivesFromAll(x1.world, x1.bases)
       /\ \A c \in Class : Classes!CopyDerivesFromAll(x1.world, c, x1.bases)
===============================================================================
