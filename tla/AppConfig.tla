-------------------------------- MODULE AppConfig -------------------------------
(***************************************************************************)
(* nr.appfire: an application that is started by app() from the variables  *)
(* of the environment, loads its configuration from a file that may change *)
(* at any time, and installs what it says of logging.                      *)
(***************************************************************************)
EXTENDS Naturals, Sequences, SequencesExt

CONSTANTS
  Configs,       \* what the file can hold: root level, handlers and level_overrides, or
                 \* None, which is no configuration
  Loggers, Apps,
  MaxTime,       \* bound on the clock, which moves with each edit
  MaxHandlers,   \* bound on the handlers of the root logger
  None

VARIABLES
  file,          \* [conf, mtime], or None
  now,
  env,           \* APPFIRE_APP and AF_APP
  app, config,   \* the application, and its Refreshable: what the file had
  lastLoad,      \* last_load_mtime of its loader
  stage, read,   \* within load_config(): what was read, when the file was of which time
  toInstall,     \* whether initialize() waits for it
  root, levels,  \* of the logging module
  changed,       \* what changed() said last
  outcome

logVars == <<root, levels>>
vars == <<file, now, env, app, config, lastLoad, stage, read, toInstall, root, levels, changed, outcome>>

Init ==
  /\ file \in {[conf |-> c, mtime |-> 0] : c \in Configs} \cup {None} /\ now = 1
  /\ env \in [{"APPFIRE_APP", "AF_APP"} -> Apps \cup {None}]
  /\ app = None /\ config = None /\ lastLoad = None /\ stage = "idle" /\ read = None
  /\ toInstall = FALSE /\ root = [level |-> "WARNING", handlers |-> <<>>]
  /\ levels = [l \in Loggers |-> None] /\ changed = None /\ outcome = None

Edit ==
  /\ now <= MaxTime /\ now' = now + 1
  /\ file' \in {[conf |-> c, mtime |-> now] : c \in Configs} \cup {None}
  /\ changed' = None
  /\ UNCHANGED <<env, app, config, lastLoad, stage, read, toInstall, logVars, outcome>>

\* app() takes the first variable that is there and leaves the other; the application and
\* its loader are new.
App ==
  LET var == IF env["APPFIRE_APP"] # None THEN "APPFIRE_APP" ELSE "AF_APP" IN
  /\ stage = "idle" /\ env' = [env EXCEPT ![var] = None]
  /\ IF env[var] = None
     THEN outcome' = "EnvironmentError" /\ UNCHANGED <<app, config, lastLoad, stage, toInstall>>
     ELSE /\ app' = env[var] /\ config' = None /\ lastLoad' = None
          /\ stage' = "read" /\ toInstall' = TRUE /\ outcome' = None
  /\ changed' = None /\ UNCHANGED <<file, now, read, logVars>>

\* launch() of uvicorn, which calls app() in this process or in others.
Launch(a) ==
  /\ stage = "idle" /\ env' = [env EXCEPT !["APPFIRE_APP"] = a]
  /\ UNCHANGED <<file, now, app, config, lastLoad, stage, read, toInstall, logVars, changed, outcome>>

\* reload_config(); initialize() only loads what was not loaded.
Reload ==
  /\ stage = "idle" /\ app # None /\ stage' = "read" /\ toInstall' = FALSE
  /\ UNCHANGED <<file, now, env, app, config, lastLoad, read, logVars, changed, outcome>>

\* An application is lost when app() raises.
Kept == IF toInstall THEN None ELSE app

\* load_config() reads the file, and looks at its time when it has what it needs.
Read ==
  /\ stage = "read"
  /\ IF file = None \/ file.conf = None
     THEN stage' = "idle" /\ outcome' = "raised" /\ app' = Kept /\ UNCHANGED read
     ELSE stage' = "stat" /\ read' = file /\ UNCHANGED <<app, outcome>>
  /\ changed' = None
  /\ UNCHANGED <<file, now, env, config, lastLoad, toInstall, logVars>>

Stat ==
  /\ stage = "stat"
  /\ IF file = None
     THEN stage' = "idle" /\ outcome' = "raised" /\ app' = Kept /\ UNCHANGED <<config, lastLoad>>
     ELSE /\ lastLoad' = file.mtime /\ config' = read
          /\ stage' = (IF toInstall THEN "install" ELSE "idle") /\ UNCHANGED <<app, outcome>>
  /\ UNCHANGED <<file, now, env, read, toInstall, logVars, changed>>

\* LoggerConfig.install(); without `replace' the handlers of before stay.
Install(replace) ==
  LET c == config.conf
      kept == IF replace THEN <<>> ELSE root.handlers
  IN  /\ stage = "install" \/ (stage = "idle" /\ config # None)
      /\ Len(kept \o c.handlers) <= MaxHandlers
      /\ stage = "install" => replace
      /\ root' = [level |-> c.level, handlers |-> kept \o c.handlers]
      /\ levels' = [l \in Loggers |-> IF l \in DOMAIN c.overrides THEN c.overrides[l] ELSE levels[l]]
      /\ stage' = "idle" /\ outcome' = (IF stage = "install" THEN "started" ELSE outcome)
      /\ UNCHANGED <<file, now, env, app, config, lastLoad, read, toInstall, changed>>

\* changed() compares the mode bits of the file, some thousands, with seconds since 1970.
Changed ==
  /\ stage = "idle" /\ app # None /\ changed' = (lastLoad = None \/ file = None)
  /\ UNCHANGED <<file, now, env, app, config, lastLoad, stage, read, toInstall, logVars, outcome>>

Next ==
  \/ Edit \/ App \/ Reload \/ Read \/ Stat \/ Changed
  \/ \E a \in Apps : Launch(a)
  \/ \E replace \in BOOLEAN : Install(replace)

Spec == Init /\ [][Next]_vars

-------------------------------------------------------------------------------
\* What is loaded is the file of the time that is remembered, or one that was edited
\* while it was being loaded: then the time is that of a file that was never read
\* (loader.py:45-51).
LoadedIsNotNewer ==
  config # None =>
    /\ config.conf # None /\ config.mtime <= lastLoad
    /\ file # None /\ file.mtime = config.mtime => file = config

\* changed() says so of a file that is gone, and never of one that was edited
\* (loader.py:54-60): what it says is true as long as nothing was edited.
ChangedIsTold ==
  changed # None /\ config # None => (changed <=> file = None)

-------------------------------------------------------------------------------
\* The inductive invariant: the clock is ahead of the files, and what was read is the file
\* until it is edited.
NoneIsNoTime == None \notin Nat

FilesAreOlder ==
  /\ now \in Nat
  /\ file # None => file.mtime \in 0 .. now - 1
  /\ config # None => config.mtime \in 0 .. now - 1 /\ lastLoad \in Nat

ReadIsFile ==
  stage = "stat" =>
    /\ changed = None
    /\ read # None /\ read.conf # None /\ read.mtime \in 0 .. now - 1
    /\ file # None => read.mtime <= file.mtime /\ (file.mtime = read.mtime => file = read)

IInv == FilesAreOlder /\ ReadIsFile /\ LoadedIsNotNewer /\ ChangedIsTold
===============================================================================
