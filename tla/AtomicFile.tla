------------------------------- MODULE AtomicFile ------------------------------
(***************************************************************************)
(* nr.fs: processes that replace one file through atomic_file, any of      *)
(* which may be killed between two calls of the operating system.  A name  *)
(* refers to an inode, so that a file that is renamed while it is written  *)
(* keeps its writer.  Each writer writes one content, named like itself.   *)
(***************************************************************************)
EXTENDS Naturals, FiniteSets

CONSTANTS Writers, Old, Partial, None

VARIABLES
  name,      \* what the names "file" and "backup" refer to, or None
  data,      \* the content of each inode: complete, or Partial
  temp,      \* the writers whose temporary file exists
  pc,        \* per writer: where it is
  backup,    \* per writer: delete_file, the inode it renamed, or None
  rename,    \* temporary files are on the same device: a move is a rename
  exposed    \* history: two writers were replacing the file at once

vars == <<name, data, temp, pc, backup, rename, exposed>>

Copied(w) == <<"copy", w>>
Inodes == {Old} \cup Writers \cup {Copied(w) : w \in Writers}

Init ==
  /\ name \in [{"file", "backup"} -> {Old, None}] /\ name["backup"] = None
  /\ data = [i \in Inodes |-> IF i = Old THEN name["file"] ELSE Partial]
  /\ temp = {} /\ pc = [w \in Writers |-> "idle"] /\ backup = [w \in Writers |-> None]
  /\ rename \in BOOLEAN /\ exposed = FALSE

Replacing == {"isfile", "rename", "move", "copy", "unlink", "remove"}
Exposing == Replacing \cup IF rename THEN {} ELSE {"killed"}
Goto(w, from, to) ==
  /\ pc[w] = from /\ pc' = [pc EXCEPT ![w] = to]
  /\ exposed' = (exposed \/ Cardinality({v \in Writers : pc'[v] \in Exposing}) > 1)
  /\ UNCHANGED rename

Enter(w) ==
  /\ Goto(w, "idle", "body") /\ temp' = temp \cup {w}
  /\ UNCHANGED <<name, data, backup>>

\* The body is done: an exception or discard() leaves the file alone, else the
\* temporary file is closed, with all of its content.
Abandon(w) == Goto(w, "body", "exit") /\ UNCHANGED <<name, data, temp, backup>>

Close(w) ==
  /\ Goto(w, "body", "isfile") /\ data' = [data EXCEPT ![w] = w]
  /\ UNCHANGED <<name, temp, backup>>

IsFile(w) ==
  /\ Goto(w, "isfile", IF name["file"] = None THEN "move" ELSE "rename")
  /\ UNCHANGED <<name, data, temp, backup>>

\* Mutant: the backup is removed before the new file is in place.
RenameOldAndRemove(w) ==
  /\ name["file"] # None /\ Goto(w, "rename", "move")
  /\ name' = [file |-> None, backup |-> None]
  /\ UNCHANGED <<data, temp, backup>>

\* The rename replaces a backup that somebody left behind.
RenameOld(w) ==
  /\ name["file"] # None /\ Goto(w, "rename", "move")
  /\ name' = [file |-> None, backup |-> name["file"]]
  /\ backup' = [backup EXCEPT ![w] = name["file"]]
  /\ UNCHANGED <<data, temp>>

RenameFails(w) ==
  /\ name["file"] = None /\ Goto(w, "rename", "exit")
  /\ UNCHANGED <<name, data, temp, backup>>

AfterMove(w) == IF backup[w] = None THEN "exit" ELSE "remove"

Move(w) ==
  /\ rename /\ Goto(w, "move", AfterMove(w))
  /\ name' = [name EXCEPT !["file"] = w] /\ temp' = temp \ {w}
  /\ UNCHANGED <<data, backup>>

\* shutil.move() to another device copies: it opens what is there, or a new file, ...
Target(w) == IF name["file"] = None THEN Copied(w) ELSE name["file"]

MoveOpen(w) ==
  /\ ~rename /\ Goto(w, "move", "copy")
  /\ name' = [name EXCEPT !["file"] = Target(w)]
  /\ data' = [data EXCEPT ![Target(w)] = Partial]
  /\ backup' = [backup EXCEPT ![w] = <<@, Target(w)>>]
  /\ UNCHANGED temp

\* ... writes it, and removes the temporary file.
MoveCopy(w) ==
  /\ Goto(w, "copy", "unlink")
  /\ data' = [data EXCEPT ![backup[w][2]] = w]
  /\ backup' = [backup EXCEPT ![w] = @[1]]
  /\ UNCHANGED <<name, temp>>

MoveUnlink(w) ==
  /\ Goto(w, "unlink", AfterMove(w)) /\ temp' = temp \ {w}
  /\ UNCHANGED <<name, data, backup>>

\* Whatever has the name: FileNotFoundError when another writer was faster.
Remove(w) ==
  /\ Goto(w, "remove", "exit") /\ name' = [name EXCEPT !["backup"] = None]
  /\ UNCHANGED <<data, temp, backup>>

\* tempfile.__exit__, which does not mind that the file is gone.
Exit(w) ==
  /\ Goto(w, "exit", "done") /\ temp' = temp \ {w}
  /\ UNCHANGED <<name, data, backup>>

Kill(w) ==
  /\ pc[w] \notin {"idle", "done", "killed"} /\ Goto(w, pc[w], "killed")
  /\ UNCHANGED <<name, data, temp, backup>>

Next == \E w \in Writers :
  \/ Enter(w) \/ Abandon(w) \/ Close(w) \/ IsFile(w) \/ RenameOld(w) \/ RenameFails(w)
  \/ Move(w) \/ MoveOpen(w) \/ MoveCopy(w) \/ MoveUnlink(w) \/ Remove(w) \/ Exit(w) \/ Kill(w)

Spec == Init /\ [][Next]_vars

-------------------------------------------------------------------------------
Complete(n) == name[n] # None /\ data[name[n]] # Partial

\* As long as one writer replaces the file at a time, there is a complete content
\* under one of the two names at any moment: a kill loses none (_atomic.py:71-79).
\* data[Old] is None for ever when there was no file at first.
ContentSurvives == data[Old] # None /\ ~exposed => Complete("file") \/ Complete("backup")

\* Writers that are not killed leave the file, and only the file.
NothingIsLeftBehind ==
  ~exposed /\ (\A w \in Writers : pc[w] \in {"idle", "done"})
    => temp = {} /\ name["backup"] = None /\ (data[Old] # None => Complete("file"))
-------------------------------------------------------------------------------
(* The inductive invariant.                                                 *)

\* The contents and the inodes are told apart.
ContentsDiffer ==
  /\ IsFiniteSet(Writers)
  /\ None \notin Inodes /\ Partial \notin {Old, None} \cup Writers /\ Old \notin Writers
  /\ \A w \in Writers : Copied(w) \notin {Old} \cup Writers

Names == {"file", "backup"}
Phases == Replacing \cup {"idle", "body", "exit", "done", "killed"}

TypeOK ==
  /\ name \in [Names -> Inodes \cup {None}]
  /\ data \in [Inodes -> Writers \cup {Old, Partial, None}]
  /\ temp \subseteq {w \in Writers : pc[w] \notin {"idle", "done"}}
  /\ pc \in [Writers -> Phases]
  /\ \A w \in Writers :
       IF pc[w] = "copy" THEN backup[w] \in (Inodes \cup {None}) \X (Inodes \ Writers)
       ELSE pc[w] # "killed" => backup[w] \in Inodes \cup {None}
  /\ DOMAIN backup = Writers
  /\ rename \in BOOLEAN /\ exposed \in BOOLEAN

\* The temporary file is complete once it is closed.
ClosedIsComplete ==
  \A w \in Writers : pc[w] \in {"isfile", "rename", "move", "copy", "unlink", "remove"} => data[w] = w

\* Where a move is a rename, what has a name is complete; where it is a copy, no
\* temporary file has one.
RenamedIsComplete ==
  IF rename
  THEN /\ \A w \in Writers : pc[w] # "copy"
       /\ \A n \in Names : name[n] # None => Complete(n)
  ELSE \A n \in Names : name[n] \notin Writers

OneExposes == \A v, w \in Writers : pc[v] \in Exposing /\ pc[w] \in Exposing => v = w

\* What the one writer knows of the two names, at each of its steps.
WriterKnowsNames ==
  \A w \in Writers :
    /\ pc[w] = "move" => name["file"] = None
    /\ pc[w] \in {"rename", "unlink", "remove"} => name["file"] # None
    /\ pc[w] = "copy" => backup[w][2] = name["file"] /\ name["file"] = Copied(w)
    /\ pc[w] \in {"idle", "body", "isfile", "rename", "move", "copy"} => name["backup"] # Copied(w)
    /\ pc[w] \in {"idle", "body", "isfile", "rename", "move"} => name["file"] # Copied(w)

\* What is not complete is being copied, or was when its writer was killed.
PartialIsCopied ==
  \A n \in Names : name[n] # None =>
    Complete(n) \/ (n = "file" /\ ~rename /\ \E w \in Writers : pc[w] \in {"copy", "killed"})

\* A backup has a writer that removes it, or would have.
BackupIsKnown ==
  name["backup"] # None => \E w \in Writers :
    \/ pc[w] = "killed"
    \/ pc[w] \in {"move", "unlink", "remove"} /\ backup[w] # None
    \/ pc[w] = "copy" /\ backup[w][1] # None

IInv ==
  /\ TypeOK /\ ClosedIsComplete /\ RenamedIsComplete
  /\ ~exposed => OneExposes /\ WriterKnowsNames /\ PartialIsCopied /\ BackupIsKnown
  /\ ContentSurvives
===============================================================================
