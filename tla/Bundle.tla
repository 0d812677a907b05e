--------------------------------- MODULE Bundle --------------------------------
(***************************************************************************)
(* nr.pylang.bundle: DistributionBuilder, which compiles, zips and copies  *)
(* the modules of a graph that was collected, again and again while their  *)
(* sources are edited, and may be killed while it copies.  What a run left *)
(* behind is kept by the next one as long as it looks newer.               *)
(***************************************************************************)
EXTENDS Naturals, FiniteSets, FiniteSetsExt, Functions

CONSTANTS Modules,
  Collected,     \* what collections can give: kinds, imports, core, stdlib, unzippable, data
  MaxTime,       \* bound on the clock
  MaxEdits,      \* bound on the edits of a module
  Options,       \* what a run is asked for: records of dist, defaults, narrow, srcs, compile,
                 \* zip and always, and extra: "nothing", "resource", "entry" or "pex"
  None

VARIABLES
  world,     \* one of Collected
  o,         \* the options of the current run
  stage, todo,
  src,       \* per module: the time of its file, and which edit made it
  file,      \* the files that were written: the same, <<directory, module, extension>>
  zip,       \* the members of the zip file
  now,
  spoiled    \* history: a kill while copying, an edit during a run, or an edit of a file
             \* at the time at which it was copied

vars == <<world, o, stage, todo, src, file, zip, now, spoiled>>

Init ==
  /\ world \in Collected /\ o = None /\ stage = "idle" /\ todo = {}
  /\ src = [m \in Modules |-> [time |-> 0, edit |-> 1]]
  /\ file = Restrict([f \in {None} |-> None], {}) /\ zip = {} /\ now = 1 /\ spoiled = FALSE

Found == {m \in Modules : world.kind[m] \in {"src", "native"}}

\* ensure_module_in_list(), for the core modules: what they import follows, excluded or
\* not, unless the module was in the list.
Ensured(list) ==
  LET Closed(R) == world.core \cap Found \subseteq list \cup R
                     /\ \A m \in R : world.imports[m] \cap Found \subseteq list \cup R
      closed == {R \in SUBSET (Found \ list) : Closed(R)}
  IN  list \cup CHOOSE R \in closed : \A S \in closed : R \subseteq S

\* build() and do_get_modules(): which modules; `narrow' and `exclude_stdlib' exclude the same.
Selected(opt) ==
  LET list == Found \ IF opt.narrow THEN world.stdlib ELSE {} IN
  IF opt.dist /\ opt.defaults THEN Ensured(list) ELSE list

\* A resource (TypeError), an entry point, that of a PEX too (AttributeError), and having
\* neither sources nor compiled modules (ValueError) end the run before a file is written.
Start(opt) ==
  /\ stage \in {"idle", "done", "raised"}
  /\ o' = opt /\ todo' = Selected(opt)
  /\ stage' = IF opt.extra \in {"resource", "entry"} \/ ~(opt.srcs \/ opt.compile)
              THEN "raised" ELSE "compile"
  /\ UNCHANGED <<world, src, file, zip, now, spoiled>>

\* nr.fs.compare_timestamp()
OutOfDate(source, target) == target \in DOMAIN file => source.time > file[target].time

\* do_compile_modules() leaves what it makes in lib/, unless it will be zipped.
CompileDir == IF o.zip THEN "cache" ELSE "lib"
Compiled(m) == <<CompileDir, m, "pyc">>

Compile ==
  LET new == {m \in todo : o.compile /\ world.kind[m] = "src"
                             /\ (o.always \/ OutOfDate(src[m], Compiled(m)))} IN
  /\ stage = "compile" /\ stage' = IF o.zip /\ todo # {} THEN "zip" ELSE "copy"
  /\ file' = [f \in DOMAIN file \cup {Compiled(m) : m \in new} |->
                IF \E m \in new : f = Compiled(m) THEN [time |-> now, edit |-> src[f[2]].edit] ELSE file[f]]
  /\ UNCHANGED <<world, o, todo, src, zip, now, spoiled>>

\* do_zip_modules() into libs.zip.  Package data raises TypeError, for want of a directory
\* in the archive, after the module itself was written; modules that cannot be zipped are
\* left to be copied.
Wanted(m) ==
  IF world.kind[m] = "native" THEN {"so"}
  ELSE {x \in {"py", "pyc"} : (x = "py" => o.srcs) /\ (x = "pyc" => o.compile)}
Members(m) ==
  {<<m, x, IF x = "pyc" THEN file[Compiled(m)].edit ELSE src[m].edit>> : x \in Wanted(m)}

Zip ==
  LET zippable == todo \ world.unzippable IN
  /\ stage = "zip" /\ zippable \cap world.data = {}
  /\ zip' = UNION {Members(m) : m \in zippable}
  /\ todo' = todo \ zippable /\ stage' = "copy"
  /\ UNCHANGED <<world, o, src, file, now, spoiled>>

ZipRaises ==
  /\ stage = "zip" /\ (todo \ world.unzippable) \cap world.data # {}
  /\ \E done \in SUBSET (todo \ world.unzippable) :
       Cardinality(done \cap world.data) = 1 /\ zip' = UNION {Members(m) : m \in done}
  /\ stage' = "raised" /\ UNCHANGED <<world, o, todo, src, file, now, spoiled>>

\* do_copy_modules(), module by module.  A module that is not to be there as source was
\* compiled to its place, if it was not for the zip file.
Ext(m) == IF world.kind[m] = "native" THEN "so" ELSE IF o.srcs THEN "py" ELSE "pyc"
Target(m) == <<"lib", m, Ext(m)>>
InPlace(m) == Ext(m) = "pyc" /\ Compiled(m) = Target(m)
Source(m) == IF Ext(m) = "pyc" THEN file[Compiled(m)] ELSE src[m]
Write(f, what) == file' = [g \in DOMAIN file \cup {f} |-> IF g = f THEN what ELSE file[g]]

Copies(m) ==
  stage = "copy" /\ m \in todo /\ (~o.always => ~InPlace(m) /\ OutOfDate(Source(m), Target(m)))

Copy(m) ==
  /\ Copies(m) /\ ~InPlace(m)
  /\ Write(Target(m), [time |-> now, edit |-> Source(m).edit]) /\ todo' = todo \ {m}
  /\ UNCHANGED <<world, o, stage, src, zip, now, spoiled>>

\* SameFileError
CopyRaises(m) ==
  /\ Copies(m) /\ InPlace(m) /\ stage' = "raised"
  /\ UNCHANGED <<world, o, todo, src, file, zip, now, spoiled>>

UpToDate(m) ==
  /\ stage = "copy" /\ m \in todo /\ ~Copies(m) /\ todo' = todo \ {m}
  /\ UNCHANGED <<world, o, stage, src, file, zip, now, spoiled>>

\* do_pex() raises at the end: without an entry point there is none to write.
Finish ==
  /\ stage = "copy" /\ todo = {} /\ stage' = IF o.extra = "pex" THEN "raised" ELSE "done"
  /\ UNCHANGED <<world, o, todo, src, file, zip, now, spoiled>>

\* The file that is being copied is cut short.
Kill(m) ==
  /\ Copies(m) /\ ~InPlace(m)
  /\ Write(Target(m), [time |-> now, edit |-> 0]) /\ stage' = "idle" /\ spoiled' = TRUE
  /\ UNCHANGED <<world, o, todo, src, zip, now>>

Edit(m) ==
  /\ src[m].edit < MaxEdits
  /\ src' = [src EXCEPT ![m] = [time |-> now, edit |-> @.edit + 1]]
  /\ spoiled' = (spoiled \/ stage \in {"compile", "zip", "copy"}
                   \/ \E f \in DOMAIN file : f[2] = m /\ file[f].time = now)
  /\ stage' = IF stage = "done" THEN "idle" ELSE stage
  /\ UNCHANGED <<world, o, todo, file, zip, now>>

Tick == now < MaxTime /\ now' = now + 1 /\ UNCHANGED <<world, o, stage, todo, src, file, zip, spoiled>>

Next ==
  \/ \E opt \in Options : Start(opt)
  \/ Compile \/ Zip \/ ZipRaises \/ Finish \/ Tick
  \/ \E m \in Modules : Copy(m) \/ CopyRaises(m) \/ UpToDate(m) \/ Kill(m) \/ Edit(m)

Spec == Init /\ [][Next]_vars

-------------------------------------------------------------------------------
\* A run that ends well leaves all of the modules that were selected as they are now, in
\* the zip file or in lib/, whatever the runs before it were asked to do.
BundleIsCurrent ==
  stage = "done" /\ ~spoiled =>
    \A m \in Selected(o) :
      IF o.zip /\ m \notin world.unzippable
      THEN Members(m) \subseteq zip /\ \A f \in Members(m) : f[3] = src[m].edit
      ELSE Target(m) \in DOMAIN file /\ file[Target(m)].edit = src[m].edit

-------------------------------------------------------------------------------
\* The inductive invariant.  A file that looks as new as its source is what the source is:
\* an edit in the same moment would make that untrue, and spoils the history.
TypeOK ==
  /\ world \in Collected /\ now \in Nat /\ todo \subseteq Modules
  /\ stage \in {"idle", "compile", "zip", "copy", "done", "raised"}
  /\ DOMAIN src = Modules /\ \A m \in Modules : src[m].time \in 0 .. now
  /\ \A f \in DOMAIN file : f[2] \in Modules /\ file[f].time \in 0 .. now

FilesAreRight ==
  ~spoiled => \A f \in DOMAIN file :
                file[f].time >= src[f[2]].time => file[f].edit = src[f[2]].edit

\* What is compiled is there and as new as its source, from then on until an edit.
CompiledAreNew ==
  stage \in {"zip", "copy", "done"} /\ ~spoiled =>
    \A m \in Selected(o) : o.compile /\ world.kind[m] = "src" =>
      Compiled(m) \in DOMAIN file /\ file[Compiled(m)].time >= src[m].time

\* The stages of a run take the modules from `todo', and what was taken is current.
Packed(m) == Members(m) \subseteq zip
InLib(m) == Target(m) \in DOMAIN file /\ file[Target(m)].time >= src[m].time
TakenIsCurrent ==
  /\ stage \in {"compile", "zip", "copy", "done"} => todo \subseteq Selected(o) /\ (o.srcs \/ o.compile)
  /\ stage \in {"compile", "zip"} => todo = Selected(o)
  /\ stage = "zip" => o.zip
  /\ stage = "copy" /\ o.zip => todo \subseteq world.unzippable
  /\ stage = "done" => todo = {}
  /\ stage \in {"copy", "done"} /\ ~spoiled =>
       \A m \in Selected(o) \ todo :
         IF o.zip /\ m \notin world.unzippable THEN Packed(m) ELSE InLib(m)

IInv == TypeOK /\ FilesAreRight /\ CompiledAreNew /\ TakenIsCurrent
===============================================================================
