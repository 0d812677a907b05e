------------------------------ MODULE ModuleGraph ------------------------------
(***************************************************************************)
(* nr.pylang.bundle: ModuleGraph, which collects the modules that a        *)
(* program imports, and the finder, filter and hooks that it asks.  The    *)
(* name of a module is the sequence of its parts.  A world is what the     *)
(* collection finds outside: directories, statements, options, hooks.      *)
(***************************************************************************)
EXTENDS Naturals, Sequences, SequencesExt, FiniteSetsExt, Functions

CONSTANTS Worlds,
  Roots,         \* what is passed to collect_modules()
  MaxRoots,      \* bound on the number of calls
  None

VARIABLES world, graph,
  roots          \* history: the calls of collect_modules()

vars == <<world, graph, roots>>

Parent(n) == Front(n)
Ancestors(n) == {SubSeq(n, 1, i) : i \in 1 .. Len(n) - 1}
Within(n, m) == IsPrefix(m, n)      \* n is m or a submodule of it

-------------------------------------------------------------------------------
\* ModuleFinder.  A world has a sequence of directories: what files there are for a name.

\* _try_module_at_path(): a file, a package, a native module.
TryModuleAtPath(dir, n) ==
  IF n \notin DOMAIN dir THEN None
  ELSE IF "py" \in dir[n] THEN "py" ELSE IF "pkg" \in dir[n] THEN "pkg"
  ELSE IF "native" \in dir[n] THEN "native" ELSE None

FindModule(w, n) ==
  LET having == {i \in DOMAIN w.path : TryModuleAtPath(w.path[i], n) # None} IN
  IF n \in w.builtin THEN "builtin"
  ELSE IF having = {} THEN "notfound" ELSE TryModuleAtPath(w.path[Min(having)], n)

\* What iter_package_modules() lists for a package, without its recursion.  (It cuts a file
\* name at its last dot: a native suffix has only one here.)
PackageModules(w, n) ==
  {c \in UNION {DOMAIN w.path[i] : i \in DOMAIN w.path} :
     Len(c) = Len(n) + 1 /\ Within(c, n)
       /\ \E i \in DOMAIN w.path : TryModuleAtPath(w.path[i], c) # None}

-------------------------------------------------------------------------------
\* Imports.  A statement has a line, a level (how many dots), a name, what it takes.

\* get_imports(): in the order of lines, the names from which another is taken twice.
GetImports(stmts) ==
  LET Names(s) ==
        <<[level |-> s.level, name |-> s.name, from |-> FALSE]>>
          \o [i \in 1 .. Len(s.takes) |->
                [level |-> s.level, name |-> Append(s.name, s.takes[i]), from |-> TRUE]]
      InOrder == SortSeq(stmts, LAMBDA a, b : a.line < b.line)
  IN  FlattenSeq([i \in DOMAIN InOrder |-> Names(InOrder[i])])

\* to_abs(): relative to the package, or to the parent of a submodule.
ToAbs(imp, n, isSubmodule) ==
  LET base == IF isSubmodule THEN Parent(n) ELSE n
      prefix == SubSeq(base, 1, Len(base) + 1 - imp.level)
  IN  IF imp.level = 0 THEN imp.name
      ELSE IF imp.level > 1 /\ imp.level > Len(base) THEN None ELSE prefix \o imp.name

\* ModuleInfo.children: those that are in the graph.
Children(g, n) == {c \in DOMAIN g.mods : Len(c) = Len(n) + 1 /\ Within(c, n)}

IsPkg(g, n) ==
  \/ g.mods[n].kind = "pkg"
  \/ g.mods[n].kind # "py" /\ \E c \in Children(g, n) : g.mods[c].kind # "notfound"

\* load_imports(): a source that cannot be parsed imports nothing, one with a relative
\* import that leaves the package raises ValueError (<<None>>).
LoadImports(w, g, n) ==
  LET Abs(imp) == ToAbs(imp, n, Len(n) > 1 /\ ~IsPkg(g, n))
      Both(imp) == IF Abs(imp) = None THEN <<None>>
                   ELSE IF imp.from THEN <<Parent(Abs(imp)), Abs(imp)>> ELSE <<Abs(imp)>>
      imps == GetImports(w.source[n])
  IN  IF g.mods[n].kind \notin {"py", "pkg"} \/ n \notin DOMAIN w.source THEN <<>>
      ELSE FlattenSeq([i \in DOMAIN imps |-> Both(imps[i])])

\* ModuleImportFilter.accept().  An exclude has a module from which it holds, or <<>>.
\* Without one, `X' also covers what the submodules of X import.
Accept(w, name, importer) ==
  IF w.whitelist # {} THEN name \in w.whitelist
  ELSE \A x \in w.excludes :
         IF x.importer = <<>> THEN ~Within(name, x.name) /\ ~(importer # x.name /\ Within(importer, x.name))
         ELSE ~(importer = x.importer /\ Within(name, x.name))

\* DelegateHook: the hook of the longest prefix is loaded, and all that are loaded are
\* asked whether they match.
EnsureFirstHook(w, g, n) ==     \* mutant: the first that is found from the top
  LET own == {h \in w.hooks : Within(n, h)} IN
  IF own = {} THEN g.loaded
  ELSE g.loaded \cup {CHOOSE h \in own : \A k \in own : Len(k) >= Len(h)}

EnsureHook(w, g, n) ==
  LET own == {h \in w.hooks : Within(n, h)} IN
  IF own = {} THEN g.loaded
  ELSE g.loaded \cup {CHOOSE h \in own : \A k \in own : Len(k) <= Len(h)}
HooksFor(loaded, n) == {h \in loaded : Within(n, h)}

-------------------------------------------------------------------------------
\* ModuleGraph.

NewModule(kind) ==
  [kind |-> kind, sparse |-> None, from |-> {}, handled |-> FALSE, hooks |-> {}, imports |-> <<>>]

AddModule(g, n, kind) ==
  [g EXCEPT !.mods = [m \in DOMAIN @ \cup {n} |-> IF m = n THEN NewModule(kind) ELSE @[m]]]

\* ModuleInfo.sparse: its own, or that of its parent in the graph, or that of the graph.
Sparse(w, g, n) ==
  LET set == {i \in 1 .. Len(n) :
                /\ \A j \in i .. Len(n) : SubSeq(n, 1, j) \in DOMAIN g.mods
                /\ g.mods[SubSeq(n, 1, i)].sparse # None}
  IN  IF set = {} THEN w.sparse ELSE g.mods[SubSeq(n, 1, Max(set))].sparse

RECURSIVE CollectModule(_, _, _, _, _), CollectPackage(_, _, _)

CollectModules(w, g, n, source, sparse) ==
  IF g.raised # None THEN g
  ELSE CollectModule(w, IF n \in DOMAIN g.mods THEN g ELSE AddModule(g, n, FindModule(w, n)),
                     n, source, sparse)

\* The generator iter_package_modules() and the loop over it.  A native submodule that is
\* in the graph already is found anew, without the graph that is_pkg() looks into.
CollectPackage(w, g, n) ==
  LET Submodule(h, c) ==
        LET known == c \in DOMAIN h.mods
            added == IF known THEN h ELSE
                       CollectModule(w, AddModule(h, c, FindModule(w, c)), c, None, None)
        IN  IF h.raised # None THEN h
            ELSE IF known /\ FindModule(w, c) = "native" THEN [h EXCEPT !.raised = "TypeError"]
            ELSE IF IsPkg(added, c) THEN CollectPackage(w, added, c) ELSE added
  IN  FoldLeft(Submodule, g, SetToSeq(PackageModules(w, n)))

\* The name that is imported, then its parents, sparsely once a module was found.
CollectImport(w, g, name, importer) ==
  LET Up(acc, i) ==
        LET n == SubSeq(name, 1, i)
            h == CollectModules(w, acc.g, n, importer, IF acc.atParent THEN TRUE ELSE None)
        IN  [g |-> h, atParent |-> acc.atParent \/ (n \in DOMAIN h.mods /\ h.mods[n].kind # "notfound")]
  IN  FoldLeft(Up, [g |-> g, atParent |-> FALSE],
               [i \in 1 .. Len(name) |-> Len(name) + 1 - i]).g

\* The module is inspected, and what it imports is collected.
Handle(w, g, n) ==
  LET loaded == EnsureHook(w, g, n)
      imports == LoadImports(w, g, n)
      h == [g EXCEPT !.loaded = loaded, !.mods[n].handled = TRUE,
                     !.mods[n].hooks = HooksFor(loaded, n), !.mods[n].imports = imports]
      Import(k, name) ==
        IF k.raised = None /\ Accept(w, name, n) THEN CollectImport(w, k, name, n) ELSE k
  IN  IF None \in ToSet(imports) THEN [h EXCEPT !.raised = "ValueError"]
      ELSE FoldLeft(Import, h, imports)

CollectModule(w, g, n, source, sparse) ==
  LET wish == IF sparse = None THEN w.sparse /\ n \notin w.whole ELSE sparse
      marked == [g EXCEPT !.mods[n].from = IF source = None THEN @ ELSE @ \cup {source},
                          !.mods[n].sparse = IF Sparse(w, g, n) THEN wish ELSE @]
      IsPackage == marked.mods[n].kind = "notfound" \/ IsPkg(marked, n)
      children == IF ~Sparse(w, marked, n) /\ IsPackage THEN CollectPackage(w, marked, n) ELSE marked
      above == IF Len(n) > 1 /\ Parent(n) \notin DOMAIN children.mods
               THEN CollectModules(w, children, Parent(n), None, TRUE) ELSE children
  IN  IF above.raised # None \/ above.mods[n].handled THEN above ELSE Handle(w, above, n)

-------------------------------------------------------------------------------
Init ==
  /\ world \in Worlds /\ roots = {}
  /\ graph = [mods |-> Restrict([n \in {<<>>} |-> None], {}), loaded |-> {}, raised |-> None]

\* collect_modules() from outside; a `+' asks for the whole package.
Collect(n, whole) ==
  /\ graph.raised = None /\ Cardinality(roots) < MaxRoots
  /\ graph' = CollectModules(world, graph, n, <<"*">>, IF whole THEN FALSE ELSE None)
  /\ roots' = roots \cup {n} /\ UNCHANGED world

Next == \E n \in Roots, whole \in BOOLEAN : Collect(n, whole)

Spec == Init /\ [][Next]_vars

-------------------------------------------------------------------------------
Mods == DOMAIN graph.mods
Imported(n) == {graph.mods[n].imports[i] : i \in DOMAIN graph.mods[n].imports}
Submodules(n) == PackageModules(world, n)

\* Whatever the order in which modules are reached, nothing is missing once the call is
\* over: parents, accepted imports and all of a package that is not sparse are there,
\* and handled (modules.py:690-744).
GraphIsClosed ==
  graph.raised = None =>
    \A n \in Mods :
      /\ graph.mods[n].handled /\ Ancestors(n) \subseteq Mods
      /\ \A m \in Imported(n) : Accept(world, m, n) => m \in Mods
      /\ ~Sparse(world, graph, n) /\ (graph.mods[n].kind # "py") => Submodules(n) \subseteq Mods

\* Nothing is there without a reason.
GraphIsMinimal ==
  \A n \in Mods :
    \/ n \in roots
    \/ \E m \in Mods : n \in Ancestors(m) \/ (n \in Imported(m) /\ Accept(world, n, m))
    \/ n \in Submodules(Parent(n)) /\ \E m \in Ancestors(n) \cap Mods : ~Sparse(world, graph, m)

\* A hook sees all the modules that it is for, unless a package was collected whole: then
\* the submodules are handled before their package (hooks.py:167-186).
HooksSeeTheirModules ==
  (\A n \in Mods : Sparse(world, graph, n)) =>
    \A n \in Mods : graph.mods[n].handled => graph.mods[n].hooks = HooksFor(world.hooks, n)

\* TypeError is raised only where a package with a native module is not sparse.
RaisesForNativesOnly ==
  graph.raised = "TypeError" =>
    \E n \in Mods : ~Sparse(world, graph, Parent(n)) /\ graph.mods[n].kind = "native"
===============================================================================
