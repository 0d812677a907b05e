---------------------------------- MODULE Pex ----------------------------------
(***************************************************************************)
(* nr.pylang.bundle: pex_main.py, the main program of an archive.  What    *)
(* cannot be imported from the archive is unpacked into a directory that   *)
(* is named after the minute and removed at exit; processes of one minute  *)
(* have the same.                                                          *)
(***************************************************************************)
EXTENDS Naturals, FiniteSets, Sequences, SequencesExt

CONSTANTS Processes, MaxMinute,
  Members,       \* of the archive: paths, as sequences
  Unzip,         \* PEX-INFO: the packages to unpack
  Entries,       \* PEX-INFO: kinds of entry points, None among them
  None

VARIABLES
  pc, minute,    \* per process
  left,          \* per process: what it still has to unpack
  out,           \* per process: what it ran
  dir,           \* per minute: what is in the directory, or None
  entry, interactive,
  now,
  overlap        \* history: two processes had one directory at once

vars == <<pc, minute, left, out, dir, entry, interactive, now, overlap>>

Init ==
  /\ pc = [p \in Processes |-> "start"] /\ minute = [p \in Processes |-> None]
  /\ left = [p \in Processes |-> {}] /\ out = [p \in Processes |-> None]
  /\ dir = [m \in 1 .. MaxMinute |-> None]
  /\ entry \in Entries /\ interactive \in BOOLEAN /\ now = 1 /\ overlap = FALSE

\* unzip_modules(): what is below the directory of a package, and all entry points.
Unpacked ==
  {f \in Members : Last(f) = "entry_points.txt"
                     \/ \E m \in Unzip : IsStrictPrefix(<<"lib">> \o m, f)}

Alive == {q \in Processes : pc[q] \in {"unzip", "run"}}

\* main(): makedirs() does not mind that the directory exists.
Begin(p) ==
  /\ pc[p] = "start" /\ pc' = [pc EXCEPT ![p] = "unzip"] /\ minute' = [minute EXCEPT ![p] = now]
  /\ left' = [left EXCEPT ![p] = IF Unzip = {} THEN {} ELSE Unpacked]
  /\ dir' = [dir EXCEPT ![now] = IF @ = None THEN {} ELSE @]
  /\ overlap' = (overlap \/ \E q \in Alive : minute[q] = now)
  /\ UNCHANGED <<out, entry, interactive, now>>

\* A file at a time; makedirs() makes the directory again if it has gone.
Extract(p, f) ==
  /\ pc[p] = "unzip" /\ f \in left[p] /\ left' = [left EXCEPT ![p] = @ \ {f}]
  /\ dir' = [dir EXCEPT ![minute[p]] = IF @ = None THEN {f} ELSE @ \cup {f}]
  /\ UNCHANGED <<pc, minute, out, entry, interactive, now, overlap>>

\* run_entrypoint(), or run_interactive() when it is asked for or there is no entry point.
Run(p) ==
  /\ pc[p] = "unzip" /\ left[p] = {}
  /\ pc' = [pc EXCEPT ![p] = "run"]
  /\ out' = [out EXCEPT ![p] =
       IF interactive \/ entry = None THEN "interactive"
       ELSE IF entry \in {"file", "module", "console_script"} THEN entry ELSE "ValueError"]
  /\ UNCHANGED <<minute, left, dir, entry, interactive, now, overlap>>

\* atexit: rmtree() of the directory, which fails when another process has removed it.
Exit(p) ==
  /\ pc[p] = "run" /\ pc' = [pc EXCEPT ![p] = "done"]
  /\ dir' = [dir EXCEPT ![minute[p]] = None]
  /\ UNCHANGED <<minute, left, out, entry, interactive, now, overlap>>

Kill(p) ==
  /\ p \in Alive /\ pc' = [pc EXCEPT ![p] = "killed"]
  /\ UNCHANGED <<minute, left, out, dir, entry, interactive, now, overlap>>

Tick == now < MaxMinute /\ now' = now + 1 /\ UNCHANGED <<pc, minute, left, out, dir, entry, interactive, overlap>>

Next ==
  \/ \E p \in Processes : Begin(p) \/ Run(p) \/ Exit(p) \/ Kill(p)
  \/ \E p \in Processes, f \in Unpacked : Extract(p, f)
  \/ Tick

Spec == Init /\ [][Next]_vars

-------------------------------------------------------------------------------
\* A process finds what was unpacked for it as long as it runs, unless another was started
\* in the same minute (pex_main.py:229-236).
RunningHasItsModules ==
  ~overlap /\ Unzip # {} =>
    \A p \in Processes : pc[p] = "run" => dir[minute[p]] # None /\ Unpacked \subseteq dir[minute[p]]

\* Nothing stays behind but what killed processes leave.
DirectoriesAreRemoved ==
  ~overlap => \A m \in 1 .. MaxMinute :
    dir[m] # None => \E p \in Processes : minute[p] = m /\ pc[p] \in {"unzip", "run", "killed"}

-------------------------------------------------------------------------------
(* The inductive invariant.                                                 *)

\* None is neither the content of a directory nor a minute.
DirectoriesAreSets == (\A files \in SUBSET Members : files # None) /\ MaxMinute \in Nat \ {0}

TypeOK ==
  /\ pc \in [Processes -> {"start", "unzip", "run", "done", "killed"}]
  /\ minute \in [Processes -> (1 .. MaxMinute) \cup {None}]
  /\ \A p \in Processes : pc[p] # "start" => minute[p] \in 1 .. MaxMinute
  /\ left \in [Processes -> SUBSET Unpacked]
  /\ dir \in [1 .. MaxMinute -> (SUBSET Members) \cup {None}]
  /\ now \in 1 .. MaxMinute
  /\ overlap \in BOOLEAN

\* Each process that runs has a directory of its own, with what it has unpacked.
AliveHasItsDirectory ==
  ~overlap =>
    \A p \in Alive :
      /\ \A q \in Alive : minute[p] = minute[q] => p = q
      /\ dir[minute[p]] # None
      /\ Unzip # {} => Unpacked \ left[p] \subseteq dir[minute[p]]
      /\ pc[p] = "run" => left[p] = {}

IInv == TypeOK /\ AliveHasItsDirectory /\ DirectoriesAreRemoved
===============================================================================
