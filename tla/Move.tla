---------------------------------- MODULE Move ---------------------------------
(***************************************************************************)
(* nr.fs: move() of a file or a directory, which copies and removes piece  *)
(* by piece where it cannot rename; each step may fail, and the caller may *)
(* try again.                                                              *)
(***************************************************************************)
EXTENDS FiniteSets

CONSTANTS Pieces, None

VARIABLES
  isdir,     \* src is a directory; a file has one piece
  rename,    \* src and dst are on one file system
  at,        \* the pieces at src, dst and dst/base(src); None: nothing is there
  dstIsDir,
  real,      \* real_dst
  stage,
  failed     \* history: a move was broken off

vars == <<isdir, rename, at, dstIsDir, real, stage, failed>>
Whole == IF isdir THEN Pieces ELSE {CHOOSE p \in Pieces : TRUE}

Init ==
  /\ isdir \in BOOLEAN /\ rename \in BOOLEAN /\ dstIsDir \in BOOLEAN
  /\ \E dst, inner \in {None, {}} :
       /\ inner # None => dst # None /\ dstIsDir
       /\ dstIsDir => dst # None
       /\ at = [src |-> Whole, dst |-> dst, inner |-> inner]
  /\ real = "dst" /\ stage = "call" /\ failed = FALSE

\* A directory is moved into; what exists in it is an error, which is raised as a
\* NameError for want of the class.
Begin ==
  /\ stage = "call" /\ at.src # None
  /\ real' = IF dstIsDir THEN "inner" ELSE "dst"
  /\ stage' = IF dstIsDir /\ at.inner # None THEN "NameError" ELSE "rename"
  /\ UNCHANGED <<isdir, rename, at, dstIsDir, failed>>

\* os.rename(), which does not put a directory where a file is.
Rename ==
  /\ stage = "rename"
  /\ IF rename /\ ~(isdir /\ at[real] # None)
     THEN /\ at' = [at EXCEPT ![real] = at.src, !.src = None] /\ stage' = "done"
          /\ dstIsDir' = (IF real = "dst" THEN isdir ELSE dstIsDir)
     ELSE /\ stage' = "copy" /\ UNCHANGED <<at, dstIsDir>>
  /\ UNCHANGED <<isdir, rename, real, failed>>

\* copytree() makes the directory, which must not exist; a file is opened and truncated.
CopyFirst ==
  /\ stage = "copy"
  /\ IF isdir /\ at[real] # None THEN stage' = "OSError" /\ UNCHANGED <<at, dstIsDir>>
     ELSE /\ at' = [at EXCEPT ![real] = {}] /\ stage' = "copying"
          /\ dstIsDir' = (IF real = "dst" THEN isdir ELSE dstIsDir)
  /\ UNCHANGED <<isdir, rename, real, failed>>

CopyPiece(p) ==
  /\ stage = "copying" /\ p \in at.src \ at[real]
  /\ at' = [at EXCEPT ![real] = @ \cup {p}]
  /\ UNCHANGED <<isdir, rename, dstIsDir, real, stage, failed>>

\* rmtree() or unlink(), once everything is copied.
Remove ==
  /\ stage = "copying" /\ at.src \subseteq at[real] /\ stage' = "removing"
  /\ UNCHANGED <<isdir, rename, at, dstIsDir, real, failed>>

RemovePiece(p) ==
  /\ stage = "removing" /\ p \in at.src
  /\ at' = [at EXCEPT !.src = IF isdir THEN @ \ {p} ELSE None]
  /\ stage' = IF isdir THEN stage ELSE "done"
  /\ UNCHANGED <<isdir, rename, dstIsDir, real, failed>>
RemoveLast ==
  /\ stage = "removing" /\ at.src = {} /\ at' = [at EXCEPT !.src = None] /\ stage' = "done"
  /\ UNCHANGED <<isdir, rename, dstIsDir, real, failed>>

\* An OSError or a kill, in the middle of it.
Break ==
  /\ stage \in {"copying", "removing"} /\ stage' = "OSError" /\ failed' = TRUE
  /\ UNCHANGED <<isdir, rename, at, dstIsDir, real>>

Retry ==
  /\ stage \in {"OSError", "NameError"} /\ stage' = "call"
  /\ UNCHANGED <<isdir, rename, at, dstIsDir, real, failed>>

Next ==
  \/ Begin \/ Rename \/ CopyFirst \/ Remove \/ RemoveLast \/ Break \/ Retry
  \/ \E p \in Pieces : CopyPiece(p) \/ RemovePiece(p)

Spec == Init /\ [][Next]_vars

-------------------------------------------------------------------------------
\* Whatever breaks off a move, and however often it is tried again, each piece is at one
\* of the places; and a move that none broke off has put the whole at the place it
\* returns.  After a broken one the pieces may be split over two places, for the
\* directory that it left is moved into (_path.py:575-601).
At(place) == IF at[place] = None THEN {} ELSE at[place]
NothingIsLost == Whole \subseteq At("src") \cup At("dst") \cup At("inner")
MoveIsWhole == stage = "done" /\ ~failed => at.src = None /\ at[real] = Whole
-------------------------------------------------------------------------------
(* The inductive invariant.                                                 *)

\* None is not a set of pieces, and a file has one.
PiecesAreSets == Pieces # {} /\ \A pieces \in SUBSET Pieces : pieces # None

TypeOK ==
  /\ isdir \in BOOLEAN /\ rename \in BOOLEAN /\ dstIsDir \in BOOLEAN /\ failed \in BOOLEAN
  /\ at \in [{"src", "dst", "inner"} -> (SUBSET Pieces) \cup {None}]
  /\ real \in {"dst", "inner"}
  /\ stage \in {"call", "rename", "copy", "copying", "removing", "done", "OSError", "NameError"}

\* What is moved is there, a file as a whole; and what is removed was copied.
SourceIsThere ==
  /\ stage \in {"rename", "copy", "copying", "removing"} => at.src # None
  /\ ~isdir => at.src \in {Whole, None}
  /\ stage \in {"copying", "removing"} => at[real] # None
  /\ stage = "removing" => at.src \subseteq at[real]

\* A move that none broke off.
UnbrokenIsWhole ==
  ~failed =>
    /\ stage \notin {"removing", "done"} => at.src = Whole
    /\ stage = "copying" => at[real] \subseteq Whole
    /\ stage = "removing" => at[real] = Whole

IInv == TypeOK /\ SourceIsThere /\ NothingIsLost /\ UnbrokenIsWhole /\ MoveIsWhole
===============================================================================
