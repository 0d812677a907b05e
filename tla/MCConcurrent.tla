------------------------------- MODULE MCConcurrent ------------------------------
(***************************************************************************)
(* For TLC: what threads, processes, contexts and handles do to state that *)
(* they share.  A behaviour is one of Refreshable, or of the component     *)
(* that `part' names, whose variables are the first of x1 .. x13.          *)
(***************************************************************************)
EXTENDS Refreshable, FiniteSets, Functions, TLC

CONSTANTS Actors,     \* interchangeable, like Threads
  Old, Partial, Empty, Unread, Broken, Unbound

VARIABLES part, x1, x2, x3, x4, x5, x6, x7, x8, x9, x10, x11, x12, x13

pool == <<x1, x2, x3, x4, x5, x6, x7, x8, x9, x10, x11, x12, x13>>
sharedVars == <<vars, part, pool>>
Symmetry == Permutations(Threads) \cup Permutations(Actors)

-------------------------------------------------------------------------------
\* Files: two writers of one file, a move of three files, two handles of a namespace.
Atomic == INSTANCE AtomicFile WITH Writers <- Actors,
  name <- x1, data <- x2, temp <- x3, pc <- x4, backup <- x5, rename <- x6, exposed <- x7

Pieces == {"a", "b", "c"}
Moving == INSTANCE Move WITH
  isdir <- x1, rename <- x2, at <- x3, dstIsDir <- x4, real <- x5, stage <- x6, failed <- x7

RowKeys == {"k1", "k2"}
RowValues == {"v"}
JsonFile == INSTANCE JsonFileStore WITH
  Handles <- Actors, Keys <- RowKeys, Values <- RowValues, Lifetimes <- {0, 1, None}, MaxTime <- 2,
  file <- x1, values <- x2, saving <- x3, now <- x4, stored <- x5, shared <- x6

\* Processes: a runner with three pids, three starts of an archive.
Runner == INSTANCE WsgiRunner WITH Pids <- Threads,
  pc <- x1, pidfile <- x2, pending <- x3, stop <- x4, raced <- x5, recycled <- x6

Packed == {<<"lib", "p", "x">>, <<"lib", "p", "y">>, <<"lib", "top">>, <<"lib", "q">>}
ToUnpack == {<<"p">>, <<"top">>}
Archive == INSTANCE Pex WITH Processes <- Threads, MaxMinute <- 2,
  Members <- Packed, Unzip <- ToUnpack, Entries <- {None, "file", "bad"},
  pc <- x1, minute <- x2, left <- x3, out <- x4, dir <- x5, entry <- x6, interactive <- x7,
  now <- x8, overlap <- x9

\* Objects: a proxy and its stacks, applications and their databases, one configuration.
Proxy == INSTANCE Proxies WITH Objects <- Actors, MaxDepth <- 3,
  class <- x1, func <- x2, lazy <- x3, cache <- x4, pc <- x5, result <- x6, override <- x7,
  overlap <- x8, ref <- x9, stack <- x10, kin <- x11

Shared == INSTANCE AppDb WITH      \* one database with two entities
  Apps <- Actors, Names <- {"n1", "n2"}, Dbs <- {"d"}, Converters <- {"c"},
  entities <- x1, ref <- x2, origin <- x3, bound <- x4, members <- x5, failed <- x6, db <- x7,
  tables <- x8, converters <- x9, installed <- x10, result <- x11
Several == INSTANCE AppDb WITH     \* two databases with one
  Apps <- Actors, Names <- {"n"}, Dbs <- {"d1", "d2"}, Converters <- {"c"},
  entities <- x1, ref <- x2, origin <- x3, bound <- x4, members <- x5, failed <- x6, db <- x7,
  tables <- x8, converters <- x9, installed <- x10, result <- x11

Logging(level, handlers, overrides) == [level |-> level, handlers |-> handlers, overrides |-> overrides]
Configs == {Logging("INFO", <<"h1">>, [l \in {"l"} |-> "DEBUG"]), Logging("DEBUG", <<"h1", "h2">>, <<>>), None}
App == INSTANCE AppConfig WITH Loggers <- {"l"}, Apps <- {"app"}, MaxTime <- 3, MaxHandlers <- 3,
  file <- x1, now <- x2, env <- x3, app <- x4, config <- x5, lastLoad <- x6, stage <- x7,
  read <- x8, toInstall <- x9, root <- x10, levels <- x11, changed <- x12, outcome <- x13

\* A call over HTTP: parameters in the path, query, header and body, required and not, an
\* annotation that two methods share, and the values that are taken for others.
Param(name, type, ann, default) == [name |-> name, type |-> type, ann |-> ann, default |-> default]
Text(kind, text) == [kind |-> kind, text |-> text]
Null == Text("none", "null")
Annotated(in, type) == [in |-> in, type |-> type, optional |-> FALSE, name |-> None, default |-> None]
Routes == [name : {"f"}, path : {<<>>}, params :
             {<<Param("a", "int", <<"ann", "h1">>, None), Param("b", "list", <<"ann", "l1">>, None)>>,
              <<Param("a", "int", <<"ann", "h1">>, Text("int", "5")), Param("b", "list", None, None)>>,
              <<Param("a", "int", None, None), Param("b", "list", None, None)>>},
           returns : {"str", "passthrough"}]
Interfaces ==
  {<<[name |-> "f", path |-> <<"a">>, returns |-> "int",
      params |-> <<Param("a", "str", None, None), Param("b", "str", <<"ann", "q1">>, Null)>>],
     [name |-> "g", path |-> <<>>, returns |-> "void",
      params |-> <<Param("c", "str", <<"ann", "q1">>, default), Param("d", "list", None, None)>>]>> :
   default \in {None, Text("str", "x")}}
    \cup {<<r>> : r \in Routes}
Annotations == (<<"ann", "q1">> :> Annotated("query", "str"))
                 @@ (<<"ann", "h1">> :> Annotated("header", "int"))
                 @@ (<<"ann", "l1">> :> Annotated("query", "list"))
Literals == ("5" :> "int") @@ ("null" :> "none") @@ ("[5]" :> "list")
Unroutable == {"a/b", ""}
Values == {Text("str", "x"), Text("str", "5"), Text("str", "a/b"), Text("str", "null"),
           Text("int", "5"), Text("list", "[5]"), Null}
Exceptions == ("NotFound" :> "404") @@ ("BadRequest" :> "400")
Rest == INSTANCE RestCall WITH
  routes <- x1, heap <- x2, resolved <- x3, stage <- x4, call <- x5, request <- x6,
  response <- x7, ran <- x8, outcome <- x9

\* The values that stand for nothing are none of the others, and the interfaces are ones
\* that can be declared.
ASSUME SharedAssumption ==
  /\ Atomic!ContentsDiffer /\ Moving!PiecesAreSets /\ JsonFile!RowsDiffer
  /\ Runner!PidsAreNumbers
  /\ Archive!DirectoriesAreSets
  /\ Proxy!ContextsAreNotNone /\ App!NoneIsNoTime
  /\ Shared!NoneIsNotMade /\ Several!NoneIsNotMade
  /\ Rest!InterfacesAreSound /\ Rest!AnnotationsAreSound
  /\ Rest!ValuesAreJson /\ Rest!ExceptionsAreTheirs

-------------------------------------------------------------------------------
SharedInit ==
  /\ Init
  /\ \/ part = "refreshable" /\ x1 = None /\ x2 = None /\ x3 = None /\ x4 = None /\ x5 = None
          /\ x6 = None /\ x7 = None /\ x8 = None /\ x9 = None /\ x10 = None /\ x11 = None
          /\ x12 = None /\ x13 = None
     \/ part = "atomic" /\ Atomic!Init /\ x8 = None /\ x9 = None /\ x10 = None /\ x11 = None
          /\ x12 = None /\ x13 = None
     \/ part = "move" /\ Moving!Init /\ x8 = None /\ x9 = None /\ x10 = None /\ x11 = None
          /\ x12 = None /\ x13 = None
     \/ part = "jsonfile" /\ JsonFile!Init /\ x7 = None /\ x8 = None /\ x9 = None /\ x10 = None
          /\ x11 = None /\ x12 = None /\ x13 = None
     \/ part = "runner" /\ Runner!Init /\ x7 = None /\ x8 = None /\ x9 = None /\ x10 = None
          /\ x11 = None /\ x12 = None /\ x13 = None
     \/ part = "pex" /\ Archive!Init /\ x10 = None /\ x11 = None /\ x12 = None /\ x13 = None
     \/ part = "rest" /\ Rest!Init /\ x10 = None /\ x11 = None /\ x12 = None /\ x13 = None
     \/ part = "proxy" /\ Proxy!Init /\ x12 = None /\ x13 = None
     \/ part = "onedb" /\ Shared!Init /\ x12 = None /\ x13 = None
     \/ part = "twodbs" /\ Several!Init /\ x12 = None /\ x13 = None
     \/ part = "appconfig" /\ App!Init

\* The rest of the pool does not move.
Keep(what) == UNCHANGED <<vars, part, what>>
SharedNext ==
  \/ part = "refreshable" /\ Next /\ UNCHANGED <<part, pool>>
  \/ part = "atomic" /\ Atomic!Next /\ Keep(<<x8, x9, x10, x11, x12, x13>>)
  \/ part = "move" /\ Moving!Next /\ Keep(<<x8, x9, x10, x11, x12, x13>>)
  \/ part = "jsonfile" /\ JsonFile!Next /\ Keep(<<x7, x8, x9, x10, x11, x12, x13>>)
  \/ part = "runner" /\ Runner!Next /\ Keep(<<x7, x8, x9, x10, x11, x12, x13>>)
  \/ part = "pex" /\ Archive!Next /\ Keep(<<x10, x11, x12, x13>>)
  \/ part = "rest" /\ Rest!Next /\ Keep(<<x10, x11, x12, x13>>)
  \/ part = "proxy" /\ Proxy!Next /\ Keep(<<x12, x13>>)
  \/ part = "onedb" /\ Shared!Next /\ Keep(<<x12, x13>>)
  \/ part = "twodbs" /\ Several!Next /\ Keep(<<x12, x13>>)
  \/ part = "appconfig" /\ App!Next /\ Keep(<<>>)

SharedSpec == SharedInit /\ [][SharedNext]_sharedVars

-------------------------------------------------------------------------------
\* The content of a file survives: a writer that is killed, a move that is broken off and
\* tried again, a namespace that is closed and opened (_atomic.py:71-79, _path.py:570-601,
\* jsondirectory.py:46-84).
FilesSurvive ==
  /\ part = "atomic" => Atomic!ContentSurvives /\ Atomic!NothingIsLeftBehind
  /\ part = "move" => Moving!NothingIsLost /\ Moving!MoveIsWhole
  /\ part = "jsonfile" => JsonFile!LoneHandleLosesNothing

\* The file that stands for a process is right: the pidfile names the one server and stop()
\* ends it, and the directory that a process unpacked is there as long as it runs
\* (runners.py:202-379, pex_main.py:133-262).
ProcessesAreTracked ==
  /\ part = "runner" => Runner!OneServerInPidfile /\ Runner!PidsAreServers /\ Runner!TerminatedIsGone
  /\ part = "pex" => Archive!RunningHasItsModules /\ Archive!DirectoriesAreRemoved

\* Who asks gets what is his: the object of his own stack, the instance of his own
\* application's entity, the answer to his own call, the configuration that is in the file
\* (proxy/__init__.py:230-357, appdb.py:83-255, flask.py:52-166, loader.py:44-60).
CallsAreSeparate ==
  /\ part = "proxy" => Proxy!OverrideIsPermanent /\ Proxy!LazyIsOne /\ Proxy!StacksAreSeparate
  /\ part = "onedb" => Shared!InstancesAreOwn /\ Shared!InstalledOnce
  /\ part = "twodbs" => Several!InstancesAreOwn /\ Several!InstalledOnce
  /\ part = "rest" => Rest!CallIsLocal /\ Rest!ErrorsAreTold /\ Rest!ResolvedOnce /\ Rest!NamesAreKept
  /\ part = "appconfig" => App!LoadedIsNotNewer /\ App!ChangedIsTold
================================================================================
