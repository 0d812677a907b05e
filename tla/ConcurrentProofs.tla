--------------------------- MODULE ConcurrentProofs ---------------------------
(***************************************************************************)
(* Theorems about the components that MCConcurrent composes, for any set   *)
(* of Threads and of Actors.  A step of the composition is a step of the   *)
(* component that `part' names, so that each component has an inductive    *)
(* invariant of its own and a lemma that its steps keep it: here for files *)
(* and processes, and in SeparationProofs for proxies, applications and    *)
(* calls over HTTP.                                                        *)
(***************************************************************************)
EXTENDS MCConcurrent, FiniteSetTheorems, TLAPS

-------------------------------------------------------------------------------
(* 1. WsgiRunner: the pidfile of a server (x1 pc, x2 pidfile, x3 pending,    *)
(* x4 stop, x5 raced, x6 recycled).                                         *)

LEMMA RunnerInit == Runner!Init => Runner!IInv
<1> SUFFICES ASSUME Runner!Init PROVE Runner!IInv
  OBVIOUS
<1> USE SharedAssumption DEF SharedAssumption, Runner!PidsAreNumbers, Runner!Init
<1>1. Runner!TypeOK
  BY DEF Runner!TypeOK, Runner!Phases
<1>2. Runner!Serving = {} /\ Runner!Starting = {}
  BY DEF Runner!Serving, Runner!Starting
<1>3. Runner!KnownIsServer /\ Runner!SameIsThere /\ Runner!TerminatedIsGone
  BY DEF Runner!KnownIsServer, Runner!SameIsThere, Runner!TerminatedIsGone
<1> QED BY <1>1, <1>2, <1>3 DEF Runner!IInv, Runner!OneServerInPidfile, Runner!StartsAlone

\* A process begins, under a pid that was free.
LEMMA RunnerBegins ==
  ASSUME Runner!IInv, NEW p \in Threads, Runner!Launch(p) \/ Runner!Other(p)
  PROVE  Runner!IInv'
<1> USE SharedAssumption
    DEF SharedAssumption, Runner!PidsAreNumbers, Runner!IInv, Runner!TypeOK, Runner!Phases,
        Runner!Fresh, Runner!Launch, Runner!Other
<1>1. Runner!TypeOK'
  OBVIOUS
<1>2. Runner!OneServerInPidfile' /\ Runner!StartsAlone'
  BY DEF Runner!OneServerInPidfile, Runner!StartsAlone, Runner!Starting, Runner!Serving
<1>3. Runner!KnownIsServer'
  BY DEF Runner!KnownIsServer
<1>4. Runner!SameIsThere' /\ Runner!TerminatedIsGone'
  BY DEF Runner!SameIsThere, Runner!TerminatedIsGone, Runner!Exists
<1> QED BY <1>1, <1>2, <1>3, <1>4

\* run(), up to the pidfile.
LEMMA RunnerStarts ==
  ASSUME Runner!IInv, NEW p \in Threads,
         Runner!Check(p) \/ Runner!OpenPidfile(p) \/ Runner!WritePidfile(p)
  PROVE  Runner!IInv'
<1> USE SharedAssumption
    DEF SharedAssumption, Runner!PidsAreNumbers, Runner!IInv, Runner!TypeOK, Runner!Phases,
        Runner!Check, Runner!OpenPidfile, Runner!WritePidfile
<1>1. Runner!TypeOK'
  OBVIOUS
<1>2. Runner!OneServerInPidfile' /\ Runner!StartsAlone'
  <2>1. CASE Runner!Check(p)
    <3>1. ~x5 => Runner!Serving = {}
      BY <2>1 DEF Runner!OneServerInPidfile, Runner!Serving, Runner!Status, Runner!Exists
    <3>2. x1' = [x1 EXCEPT ![p] = "checked"] /\ x5' = (x5 \/ Runner!Starting # {})
      BY <2>1
    <3>3. ASSUME ~x5' PROVE Runner!Serving' = {} /\ Runner!Starting' = {p}
      <4>1. Runner!Serving = {} /\ Runner!Starting = {}
        BY <3>1, <3>2, <3>3
      <4>2. Runner!Serving' = {}
        BY <3>2, <4>1 DEF Runner!Serving
      <4>3. Runner!Starting' = {p}
        BY <3>2, <4>1 DEF Runner!Starting
      <4> QED BY <4>2, <4>3
    <3> QED BY <3>3 DEF Runner!OneServerInPidfile, Runner!StartsAlone
  <2>2. CASE Runner!OpenPidfile(p)
    BY <2>2 DEF Runner!OneServerInPidfile, Runner!StartsAlone, Runner!Starting, Runner!Serving
  <2>3. CASE Runner!WritePidfile(p)
    BY <2>3 DEF Runner!OneServerInPidfile, Runner!StartsAlone, Runner!Starting, Runner!Serving
  <2> QED BY <2>1, <2>2, <2>3
<1>3. Runner!KnownIsServer'
  BY DEF Runner!KnownIsServer
<1>4. Runner!SameIsThere' /\ Runner!TerminatedIsGone'
  BY DEF Runner!SameIsThere, Runner!TerminatedIsGone, Runner!Exists
<1> QED BY <1>1, <1>2, <1>3, <1>4

\* A process ends, and its signals with it; stop() then waits for another one.
LEMMA RunnerEnds ==
  ASSUME Runner!IInv, NEW p \in Threads,
         Runner!Refuse(p) \/ Runner!EndServing(p) \/ Runner!Interrupt(p) \/ Runner!Die(p)
  PROVE  Runner!IInv'
<1> USE DEF Runner!IInv, Runner!TypeOK
<1>1. /\ x1' = [x1 EXCEPT ![p] = "free"] /\ x3' = [x3 EXCEPT ![p] = {}]
      /\ x4' = [x4 EXCEPT !.same = x4.same /\ x4.pid # p]
      /\ UNCHANGED <<x5, x6>>
      /\ x2' = x2 \/ (x1[p] = "serving" /\ x2' = None)
  BY DEF Runner!Refuse, Runner!EndServing, Runner!Interrupt, Runner!Die, Runner!Ends, Runner!Gone
<1>2. x4'.pid = x4.pid /\ x4'.phase = x4.phase /\ x4'.same = (x4.same /\ x4.pid # p)
  BY <1>1 DEF Runner!Phases
<1>3. Runner!TypeOK'
  BY <1>1 DEF Runner!Phases
<1>4. Runner!OneServerInPidfile' /\ Runner!StartsAlone'
  BY <1>1 DEF Runner!OneServerInPidfile, Runner!StartsAlone, Runner!Starting, Runner!Serving
<1>5. Runner!KnownIsServer'
  BY <1>1, <1>2, SharedAssumption DEF Runner!KnownIsServer, SharedAssumption, Runner!PidsAreNumbers
<1>6. Runner!SameIsThere' /\ Runner!TerminatedIsGone'
  BY <1>1, <1>2 DEF Runner!SameIsThere, Runner!TerminatedIsGone, Runner!Exists
<1> QED BY <1>3, <1>4, <1>5, <1>6

\* spawn_daemon(): the start goes on under another pid.
LEMMA RunnerSpawns ==
  ASSUME Runner!IInv, NEW p \in Threads, NEW q \in Threads, Runner!Spawn(p, q)
  PROVE  Runner!IInv'
<1> USE DEF Runner!IInv, Runner!TypeOK
<1>1. /\ x1[p] = "checked" /\ x1[q] = "free" /\ p # q
      /\ x1' = [x1 EXCEPT ![p] = "free", ![q] = "checked"] /\ x3' = [x3 EXCEPT ![p] = {}]
      /\ x4' = [x4 EXCEPT !.same = x4.same /\ x4.pid # p]
      /\ x6' = (x6 \/ q = x2 \/ q = x4.pid)
      /\ UNCHANGED <<x2, x5>>
  BY DEF Runner!Spawn, Runner!Gone
<1>2. x4'.pid = x4.pid /\ x4'.phase = x4.phase /\ x4'.same = (x4.same /\ x4.pid # p)
  BY <1>1 DEF Runner!Phases
<1>3. Runner!TypeOK'
  BY <1>1 DEF Runner!Phases
<1>4. Runner!OneServerInPidfile' /\ Runner!StartsAlone'
  BY <1>1 DEF Runner!OneServerInPidfile, Runner!StartsAlone, Runner!Starting, Runner!Serving
<1>5. Runner!KnownIsServer'
  BY <1>1, <1>2 DEF Runner!KnownIsServer
<1>6. Runner!SameIsThere' /\ Runner!TerminatedIsGone'
  BY <1>1, <1>2 DEF Runner!SameIsThere, Runner!TerminatedIsGone, Runner!Exists
<1> QED BY <1>3, <1>4, <1>5, <1>6

\* Pidfile.stop() and process_terminate().
LEMMA RunnerStops ==
  ASSUME Runner!IInv, Runner!Stop \/ Runner!Signal \/ Runner!Wait \/ Runner!StopReturns
  PROVE  Runner!IInv'
<1> USE SharedAssumption
    DEF SharedAssumption, Runner!PidsAreNumbers, Runner!IInv, Runner!TypeOK
<1>1. UNCHANGED <<x1, x2, x5, x6>>
  BY DEF Runner!Stop, Runner!Signal, Runner!Wait, Runner!StopReturns
<1>2. CASE Runner!Stop \/ Runner!StopReturns
  <2>1. /\ x4'.pid \in {x2, None} /\ x3' = x3 /\ x4'.phase # "terminated"
        /\ x4'.same => x4'.pid \in Threads /\ x1[x4'.pid] # "free"
        /\ x4' \in [phase : Runner!Phases, pid : Threads \cup {None}, same : BOOLEAN]
        /\ x4'.phase # "idle" => x4'.pid \in Threads
    <3>1. CASE Runner!Stop
      <4>1. x2 \in Threads /\ x4' = [phase |-> "int", pid |-> x2, same |-> x1[x2] # "free"]
        BY <3>1 DEF Runner!Stop, Runner!Exists
      <4>2. x4'.pid = x2 /\ x4'.phase = "int" /\ x4'.same = (x1[x2] # "free") /\ x3' = x3
        BY <3>1, <4>1 DEF Runner!Stop
      <4>3. x4' \in [phase : Runner!Phases, pid : Threads \cup {None}, same : BOOLEAN]
        BY <4>1 DEF Runner!Phases
      <4> QED BY <4>1, <4>2, <4>3
    <3>2. CASE Runner!StopReturns
      BY <3>2 DEF Runner!StopReturns, Runner!Phases
    <3> QED BY <1>2, <3>1, <3>2
  <2> QED BY <1>1, <2>1
       DEF Runner!OneServerInPidfile, Runner!StartsAlone, Runner!Starting, Runner!Serving,
           Runner!KnownIsServer, Runner!SameIsThere, Runner!TerminatedIsGone, Runner!Exists
<1>3. CASE Runner!Signal \/ Runner!Wait
  <2>1. PICK phase \in Runner!Phases \ {"idle"} :
          /\ x4' = [x4 EXCEPT !.phase = phase]
          /\ phase = "terminated" => x1[x4.pid] = "free"
          /\ x4.pid \in Threads
    BY <1>3 DEF Runner!Signal, Runner!Wait, Runner!Goto, Runner!After, Runner!Exists, Runner!Phases
  <2>2. \/ x3' = x3
        \/ \E signal \in {"int", "term", "kill"} :
             x3' = [x3 EXCEPT ![x4.pid] = @ \cup {signal}] /\ x1[x4.pid] # "free"
    BY <1>3 DEF Runner!Signal, Runner!Wait, Runner!Exists
  <2>3. x4'.pid = x4.pid /\ x4'.phase = phase /\ x4'.same = x4.same
    BY <2>1 DEF Runner!Phases
  <2>4. Runner!TypeOK'
    BY <1>1, <2>1, <2>2, <2>3
  <2>5. Runner!OneServerInPidfile' /\ Runner!StartsAlone'
    BY <1>1 DEF Runner!OneServerInPidfile, Runner!StartsAlone, Runner!Starting, Runner!Serving
  <2>6. Runner!KnownIsServer'
    BY <1>1, <2>1, <2>2, <2>3 DEF Runner!KnownIsServer
  <2>7. Runner!SameIsThere' /\ Runner!TerminatedIsGone'
    BY <1>1, <2>1, <2>3 DEF Runner!SameIsThere, Runner!TerminatedIsGone, Runner!Exists
  <2> QED BY <2>4, <2>5, <2>6, <2>7
<1> QED BY <1>2, <1>3

LEMMA RunnerStep == Runner!IInv /\ [Runner!Next]_(Runner!vars) => Runner!IInv'
<1> SUFFICES ASSUME Runner!IInv, [Runner!Next]_(Runner!vars) PROVE Runner!IInv'
  OBVIOUS
<1>1. CASE Runner!Next
  BY <1>1, RunnerBegins, RunnerStarts, RunnerEnds, RunnerSpawns, RunnerStops DEF Runner!Next
<1>2. CASE UNCHANGED Runner!vars
  BY <1>2 DEF Runner!vars, Runner!IInv, Runner!TypeOK, Runner!OneServerInPidfile,
       Runner!StartsAlone, Runner!KnownIsServer, Runner!SameIsThere, Runner!TerminatedIsGone,
       Runner!Starting, Runner!Serving, Runner!Exists
<1> QED BY <1>1, <1>2

LEMMA RunnerKeepsPidfile ==
  Runner!IInv => Runner!OneServerInPidfile /\ Runner!PidsAreServers /\ Runner!TerminatedIsGone
<1> SUFFICES ASSUME Runner!IInv PROVE Runner!PidsAreServers
  BY DEF Runner!IInv
<1> QED BY DEF Runner!IInv, Runner!TypeOK, Runner!KnownIsServer, Runner!PidsAreServers,
               Runner!Status, Runner!Exists
-------------------------------------------------------------------------------
(* 2. Pex: the directory that an archive unpacks (x1 pc, x2 minute, x3 left, *)
(* x4 out, x5 dir, x8 now, x9 overlap).                                     *)

LEMMA UnpackedAreMembers == Archive!Unpacked \subseteq Packed
BY DEF Archive!Unpacked

LEMMA ArchiveInit == Archive!Init => Archive!IInv
<1> SUFFICES ASSUME Archive!Init PROVE Archive!IInv
  OBVIOUS
<1>1. Archive!TypeOK
  <2>1. x8 \in 1 .. 2
    BY DEF Archive!Init
  <2>2. x9 \in BOOLEAN /\ \A p \in Threads : x1[p] = "start"
    BY DEF Archive!Init
  <2>3. x5 \in [1 .. 2 -> (SUBSET Packed) \cup {None}]
    BY DEF Archive!Init
  <2>4. x1 \in [Threads -> {"start", "unzip", "run", "done", "killed"}]
    BY DEF Archive!Init
  <2>5. x2 \in [Threads -> (1 .. 2) \cup {None}] /\ x3 \in [Threads -> SUBSET Archive!Unpacked]
    BY DEF Archive!Init
  <2> QED BY <2>1, <2>2, <2>3, <2>4, <2>5 DEF Archive!TypeOK
<1>2. Archive!AliveHasItsDirectory /\ Archive!DirectoriesAreRemoved
  BY DEF Archive!Init, Archive!AliveHasItsDirectory, Archive!DirectoriesAreRemoved, Archive!Alive
<1> QED BY <1>1, <1>2 DEF Archive!IInv

\* The start of a process: alone in its minute, or `overlap'.
LEMMA ArchiveBegins ==
  ASSUME Archive!IInv, NEW p \in Threads, Archive!Begin(p)
  PROVE  Archive!IInv'
<1> USE SharedAssumption
    DEF SharedAssumption, Archive!DirectoriesAreSets, Archive!IInv, Archive!TypeOK
<1> DEFINE mine == IF x5[x8] = None THEN {} ELSE x5[x8]
<1>1. /\ x1[p] = "start" /\ x1' = [x1 EXCEPT ![p] = "unzip"] /\ x2' = [x2 EXCEPT ![p] = x8]
      /\ x3'[p] \in SUBSET Archive!Unpacked
      /\ ToUnpack # {} => x3'[p] = Archive!Unpacked
      /\ \A q \in Threads \ {p} : x3'[q] = x3[q]
      /\ x3' \in [Threads -> SUBSET Archive!Unpacked]
      /\ x5' = [x5 EXCEPT ![x8] = mine]
      /\ x9' = (x9 \/ \E q \in Archive!Alive : x2[q] = x8) /\ x8' = x8
  BY DEF Archive!Begin
<1>2. mine # None /\ mine \in SUBSET Packed
  OBVIOUS
<1>3. Archive!TypeOK'
  BY <1>1, <1>2
<1>4. Archive!Alive' = Archive!Alive \cup {p} /\ p \notin Archive!Alive
  BY <1>1 DEF Archive!Alive
<1>5. Archive!AliveHasItsDirectory'
  <2> SUFFICES ASSUME ~x9', NEW r \in Archive!Alive'
               PROVE  /\ \A q \in Archive!Alive' : x2'[r] = x2'[q] => r = q
                      /\ x5'[x2'[r]] # None
                      /\ ToUnpack # {} => Archive!Unpacked \ x3'[r] \subseteq x5'[x2'[r]]
                      /\ x1'[r] = "run" => x3'[r] = {}
    BY DEF Archive!AliveHasItsDirectory
  <2>1. ~x9 /\ \A q \in Archive!Alive : x2[q] # x8
    BY <1>1
  <2>2. CASE r = p
    <3>1. x2'[p] = x8 /\ x1'[p] = "unzip" /\ x5'[x8] = mine
      BY <1>1
    <3>2. \A q \in Archive!Alive : x2'[q] # x8
      BY <1>1, <1>4, <2>1 DEF Archive!Alive
    <3> QED BY <1>1, <1>2, <1>4, <2>2, <3>1, <3>2
  <2>3. CASE r # p
    <3>1. r \in Archive!Alive /\ x2'[r] = x2[r] /\ x1'[r] = x1[r] /\ x3'[r] = x3[r] /\ x2[r] # x8
      BY <1>1, <1>4, <2>1, <2>3 DEF Archive!Alive
    <3>2. x2'[p] = x8 /\ \A q \in Archive!Alive : x2'[q] = x2[q]
      BY <1>1, <1>4 DEF Archive!Alive
    <3>3. x2[r] \in 1 .. 2 /\ x5'[x2[r]] = x5[x2[r]]
      BY <1>1, <3>1 DEF Archive!Alive
    <3> QED BY <1>4, <2>1, <3>1, <3>2, <3>3 DEF Archive!AliveHasItsDirectory
  <2> QED BY <2>2, <2>3
<1>6. Archive!DirectoriesAreRemoved'
  BY <1>1, <1>2 DEF Archive!DirectoriesAreRemoved
<1> QED BY <1>3, <1>5, <1>6

\* A file is unpacked.
LEMMA ArchiveExtracts ==
  ASSUME Archive!IInv, NEW p \in Threads, NEW f \in Archive!Unpacked, Archive!Extract(p, f)
  PROVE  Archive!IInv'
<1> USE SharedAssumption
    DEF SharedAssumption, Archive!DirectoriesAreSets, Archive!IInv, Archive!TypeOK
<1> DEFINE more == IF x5[x2[p]] = None THEN {f} ELSE x5[x2[p]] \cup {f}
<1>1. /\ x1[p] = "unzip" /\ x3' = [x3 EXCEPT ![p] = x3[p] \ {f}]
      /\ x5' = [x5 EXCEPT ![x2[p]] = more]
      /\ UNCHANGED <<x1, x2, x8, x9>>
  BY DEF Archive!Extract
<1>2. more # None /\ more \in SUBSET Packed /\ f \in more
  BY <1>1, UnpackedAreMembers
<1>3. Archive!TypeOK'
  BY <1>1, <1>2
<1>4. Archive!Alive' = Archive!Alive /\ p \in Archive!Alive
  BY <1>1 DEF Archive!Alive
<1>5. Archive!AliveHasItsDirectory'
  BY <1>1, <1>2, <1>4 DEF Archive!AliveHasItsDirectory, Archive!Alive
<1>6. Archive!DirectoriesAreRemoved'
  BY <1>1, <1>2 DEF Archive!DirectoriesAreRemoved
<1> QED BY <1>3, <1>5, <1>6

\* run_entrypoint(), the exit with its rmtree(), a kill, and the clock.
LEMMA ArchiveGoesOn ==
  ASSUME Archive!IInv, NEW p \in Threads,
         Archive!Run(p) \/ Archive!Exit(p) \/ Archive!Kill(p)
  PROVE  Archive!IInv'
<1> USE DEF Archive!IInv, Archive!TypeOK
<1>1. UNCHANGED <<x2, x3, x8, x9>>
  BY DEF Archive!Run, Archive!Exit, Archive!Kill
<1>2. CASE Archive!Run(p)
  BY <1>1, <1>2 DEF Archive!Run, Archive!AliveHasItsDirectory, Archive!DirectoriesAreRemoved,
       Archive!Alive
<1>3. CASE Archive!Exit(p)
  BY <1>1, <1>3 DEF Archive!Exit, Archive!AliveHasItsDirectory, Archive!DirectoriesAreRemoved,
       Archive!Alive
<1>4. CASE Archive!Kill(p)
  BY <1>1, <1>4 DEF Archive!Kill, Archive!AliveHasItsDirectory, Archive!DirectoriesAreRemoved,
       Archive!Alive
<1> QED BY <1>2, <1>3, <1>4

LEMMA ArchiveStep == Archive!IInv /\ [Archive!Next]_(Archive!vars) => Archive!IInv'
<1> SUFFICES ASSUME Archive!IInv, [Archive!Next]_(Archive!vars) PROVE Archive!IInv'
  OBVIOUS
<1>1. CASE Archive!Tick \/ UNCHANGED Archive!vars
  BY <1>1 DEF Archive!Tick, Archive!vars, Archive!IInv, Archive!TypeOK,
       Archive!AliveHasItsDirectory, Archive!DirectoriesAreRemoved, Archive!Alive
<1>2. CASE Archive!Next
  BY <1>1, <1>2, ArchiveBegins, ArchiveExtracts, ArchiveGoesOn DEF Archive!Next
<1> QED BY <1>1, <1>2

LEMMA ArchiveKeepsDirectories ==
  Archive!IInv => Archive!RunningHasItsModules /\ Archive!DirectoriesAreRemoved
BY DEF Archive!IInv, Archive!TypeOK, Archive!AliveHasItsDirectory, Archive!RunningHasItsModules,
       Archive!Alive
-------------------------------------------------------------------------------
(* 3. Move: the pieces of a file or a directory (x1 isdir, x2 rename, x3 at, *)
(* x4 dstIsDir, x5 real, x6 stage, x7 failed).                              *)

LEMMA WholeIsPieces == x1 \in BOOLEAN => Moving!Whole \in SUBSET Pieces /\ Moving!Whole # None
<1> USE SharedAssumption DEF SharedAssumption, Moving!PiecesAreSets
<1>1. (CHOOSE p \in Pieces : TRUE) \in Pieces
  OBVIOUS
<1> QED BY <1>1 DEF Moving!Whole

\* A file has one piece, which is all of it.
LEMMA FileIsOnePiece ==
  ASSUME ~x1, NEW p \in Moving!Whole  PROVE Moving!Whole = {p}
BY DEF Moving!Whole

LEMMA MoveInit == Moving!Init => Moving!IInv
<1> SUFFICES ASSUME Moving!Init PROVE Moving!IInv
  OBVIOUS
<1> USE SharedAssumption, WholeIsPieces DEF SharedAssumption, Moving!PiecesAreSets
<1>1. PICK dst \in {None, {}}, inner \in {None, {}} :
        x3 = [src |-> Moving!Whole, dst |-> dst, inner |-> inner]
  BY DEF Moving!Init
<1>2. x3 \in [{"src", "dst", "inner"} -> (SUBSET Pieces) \cup {None}] /\ x3.src = Moving!Whole
  BY <1>1 DEF Moving!Init
<1>3. Moving!TypeOK
  BY <1>2 DEF Moving!Init, Moving!TypeOK
<1> QED BY <1>2, <1>3 DEF Moving!Init, Moving!IInv, Moving!SourceIsThere, Moving!NothingIsLost,
            Moving!At, Moving!UnbrokenIsWhole, Moving!MoveIsWhole

\* What changes none of the pieces.
LEMMA MoveKeepsPieces ==
  ASSUME Moving!IInv, UNCHANGED <<x1, x2, x3>>,
         Moving!Begin \/ Moving!Remove \/ Moving!Break \/ Moving!Retry
           \/ Moving!Rename \/ Moving!CopyFirst \/ UNCHANGED Moving!vars
  PROVE  Moving!IInv'
<1> USE DEF Moving!IInv, Moving!TypeOK, Moving!SourceIsThere, Moving!NothingIsLost, Moving!At,
            Moving!UnbrokenIsWhole, Moving!MoveIsWhole, Moving!Whole
<1>1. CASE Moving!Begin
  BY <1>1 DEF Moving!Begin
<1>2. CASE Moving!Remove
  BY <1>2 DEF Moving!Remove
<1>3. CASE Moving!Break \/ Moving!Retry \/ UNCHANGED Moving!vars
  BY <1>3 DEF Moving!Break, Moving!Retry, Moving!vars
<1>4. CASE Moving!Rename
  <2>1. x6 = "rename" /\ x6' = "copy" /\ UNCHANGED <<x4, x5, x7>>
    <3>1. x6 = "rename" /\ x3.src # None /\ UNCHANGED <<x5, x7>>
      BY <1>4 DEF Moving!Rename
    <3>2. x3' # [x3 EXCEPT ![x5] = x3.src, !.src = None]
      BY <3>1
    <3> QED BY <1>4, <3>1, <3>2 DEF Moving!Rename
  <2> QED BY <2>1
<1>5. CASE Moving!CopyFirst
  <2>1. /\ x6 = "copy" /\ x4' \in BOOLEAN /\ UNCHANGED <<x5, x7>>
        /\ x6' = "OSError" \/ (x6' = "copying" /\ x3[x5] = {})
    BY <1>5 DEF Moving!CopyFirst
  <2> QED BY <2>1, SharedAssumption DEF SharedAssumption, Moving!PiecesAreSets
<1> QED BY <1>1, <1>2, <1>3, <1>4, <1>5

\* os.rename() puts the whole source at the destination.
LEMMA MoveRenames ==
  ASSUME Moving!IInv, Moving!Rename, x3' # x3
  PROVE  Moving!IInv'
<1> USE WholeIsPieces DEF Moving!IInv, Moving!TypeOK
<1>1. /\ x6 = "rename" /\ x6' = "done" /\ UNCHANGED <<x1, x2, x5, x7>> /\ x4' \in BOOLEAN
      /\ x1 => x3[x5] = None
      /\ x3' = [x3 EXCEPT ![x5] = x3.src, !.src = None]
  BY DEF Moving!Rename
<1>2. x3'[x5] = x3.src /\ x3'.src = None /\ \A o \in {"dst", "inner"} \ {x5} : x3'[o] = x3[o]
  BY <1>1
<1>3. Moving!TypeOK' /\ Moving!Whole' = Moving!Whole
  BY <1>1 DEF Moving!Whole
<1>4. Moving!NothingIsLost'
  <2>1. CASE x1
    BY <1>1, <1>2, <1>3, <2>1 DEF Moving!NothingIsLost, Moving!At
  <2>2. CASE ~x1
    BY <1>1, <1>2, <1>3, <2>2 DEF Moving!NothingIsLost, Moving!At, Moving!SourceIsThere
  <2> QED BY <2>1, <2>2
<1>5. Moving!SourceIsThere' /\ Moving!UnbrokenIsWhole' /\ Moving!MoveIsWhole'
  BY <1>1, <1>2, <1>3 DEF Moving!SourceIsThere, Moving!UnbrokenIsWhole, Moving!MoveIsWhole
<1> QED BY <1>3, <1>4, <1>5

\* The destination is made, or a file is truncated, the source of which is whole.
LEMMA MoveCopiesFirst ==
  ASSUME Moving!IInv, Moving!CopyFirst, x3' # x3
  PROVE  Moving!IInv'
<1> USE WholeIsPieces, SharedAssumption
    DEF Moving!IInv, Moving!TypeOK, SharedAssumption, Moving!PiecesAreSets
<1>1. /\ x6 = "copy" /\ x6' = "copying" /\ UNCHANGED <<x1, x2, x5, x7>> /\ x4' \in BOOLEAN
      /\ x1 => x3[x5] = None
      /\ x3' = [x3 EXCEPT ![x5] = {}]
  BY DEF Moving!CopyFirst
<1>2. x3'[x5] = {} /\ x3'.src = x3.src /\ \A o \in {"dst", "inner"} \ {x5} : x3'[o] = x3[o]
  BY <1>1
<1>3. Moving!TypeOK' /\ Moving!Whole' = Moving!Whole
  BY <1>1 DEF Moving!Whole
<1>4. Moving!NothingIsLost'
  <2>1. CASE x1
    BY <1>1, <1>2, <1>3, <2>1 DEF Moving!NothingIsLost, Moving!At
  <2>2. CASE ~x1
    BY <1>1, <1>2, <1>3, <2>2 DEF Moving!NothingIsLost, Moving!At, Moving!SourceIsThere
  <2> QED BY <2>1, <2>2
<1>5. Moving!SourceIsThere' /\ Moving!UnbrokenIsWhole' /\ Moving!MoveIsWhole'
  BY <1>1, <1>2, <1>3 DEF Moving!SourceIsThere, Moving!UnbrokenIsWhole, Moving!MoveIsWhole
<1> QED BY <1>3, <1>4, <1>5

\* A piece is copied.
LEMMA MoveCopies ==
  ASSUME Moving!IInv, NEW p \in Pieces, Moving!CopyPiece(p)
  PROVE  Moving!IInv'
<1> USE WholeIsPieces, SharedAssumption
    DEF Moving!IInv, Moving!TypeOK, SharedAssumption, Moving!PiecesAreSets
<1>1. /\ x6 = "copying" /\ UNCHANGED <<x1, x2, x4, x5, x6, x7>>
      /\ x3[x5] \in SUBSET Pieces /\ x3.src \in SUBSET Pieces /\ p \in x3.src
      /\ x3' = [x3 EXCEPT ![x5] = x3[x5] \cup {p}]
  BY DEF Moving!CopyPiece, Moving!SourceIsThere
<1>2. /\ x3'[x5] = x3[x5] \cup {p} /\ x3'.src = x3.src
      /\ \A o \in {"dst", "inner"} \ {x5} : x3'[o] = x3[o]
  BY <1>1
<1>3. Moving!TypeOK' /\ Moving!Whole' = Moving!Whole /\ x3'[x5] # None
  BY <1>1, <1>2 DEF Moving!Whole
<1>4. Moving!NothingIsLost'
  <2>1. \A o \in {"src", "dst", "inner"} : Moving!At(o) \subseteq Moving!At(o)'
    BY <1>1, <1>2, <1>3 DEF Moving!At
  <2> QED BY <1>3, <2>1 DEF Moving!NothingIsLost
<1>5. Moving!SourceIsThere' /\ Moving!UnbrokenIsWhole' /\ Moving!MoveIsWhole'
  BY <1>1, <1>2, <1>3 DEF Moving!SourceIsThere, Moving!UnbrokenIsWhole, Moving!MoveIsWhole
<1> QED BY <1>3, <1>4, <1>5

\* What is removed from the source is at the destination.
LEMMA MoveRemoves ==
  ASSUME Moving!IInv, Moving!RemoveLast \/ \E p \in Pieces : Moving!RemovePiece(p)
  PROVE  Moving!IInv'
<1> USE WholeIsPieces, SharedAssumption
    DEF Moving!IInv, Moving!TypeOK, SharedAssumption, Moving!PiecesAreSets
<1>1. PICK rest \in (SUBSET Pieces) \cup {None} :
        /\ x6 = "removing" /\ UNCHANGED <<x1, x2, x4, x5, x7>>
        /\ x3' = [x3 EXCEPT !.src = rest]
        /\ IF rest = None THEN x6' = "done" /\ (x3.src = {} \/ ~x1)
           ELSE x6' = x6 /\ x1 /\ rest \subseteq x3.src
  <2>1. CASE Moving!RemoveLast
    BY <2>1 DEF Moving!RemoveLast
  <2>2. CASE \E p \in Pieces : Moving!RemovePiece(p)
    <3>1. PICK p \in Pieces : Moving!RemovePiece(p)
      BY <2>2
    <3>2. CASE x1
      <4>1. x3.src \ {p} \in SUBSET Pieces /\ x3.src \ {p} # None
        BY <3>1 DEF Moving!RemovePiece, Moving!SourceIsThere
      <4> QED BY <3>1, <3>2, <4>1 DEF Moving!RemovePiece
    <3>3. CASE ~x1
      BY <3>1, <3>3 DEF Moving!RemovePiece
    <3> QED BY <3>2, <3>3
  <2> QED BY <2>1, <2>2
<1>2. /\ x3'.src = rest /\ \A o \in {"dst", "inner"} : x3'[o] = x3[o]
      /\ x3.src \subseteq x3[x5] /\ x3[x5] # None
  BY <1>1 DEF Moving!SourceIsThere
<1>3. Moving!TypeOK' /\ Moving!Whole' = Moving!Whole
  BY <1>1 DEF Moving!Whole
<1>4. Moving!NothingIsLost'
  <2>1. Moving!At("src") \subseteq Moving!At(x5)
    BY <1>2 DEF Moving!At
  <2>2. Moving!At(x5) \subseteq Moving!At("dst") \cup Moving!At("inner")
    OBVIOUS
  <2>3. \A o \in {"dst", "inner"} : Moving!At(o)' = Moving!At(o)
    BY <1>2 DEF Moving!At
  <2> QED BY <1>3, <2>1, <2>2, <2>3 DEF Moving!NothingIsLost
<1>5. Moving!SourceIsThere' /\ Moving!UnbrokenIsWhole' /\ Moving!MoveIsWhole'
  BY <1>1, <1>2, <1>3 DEF Moving!SourceIsThere, Moving!UnbrokenIsWhole, Moving!MoveIsWhole
<1> QED BY <1>3, <1>4, <1>5

LEMMA MoveStep == Moving!IInv /\ [Moving!Next]_(Moving!vars) => Moving!IInv'
<1> SUFFICES ASSUME Moving!IInv, [Moving!Next]_(Moving!vars) PROVE Moving!IInv'
  OBVIOUS
<1>1. CASE Moving!Begin \/ Moving!Remove \/ Moving!Break \/ Moving!Retry \/ UNCHANGED Moving!vars
  <2>1. UNCHANGED <<x1, x2, x3>>
    BY <1>1 DEF Moving!Begin, Moving!Remove, Moving!Break, Moving!Retry, Moving!vars
  <2> QED BY <1>1, <2>1, MoveKeepsPieces
<1>2. CASE Moving!Rename
  <2>1. x1' = x1 /\ x2' = x2
    BY <1>2 DEF Moving!Rename
  <2> QED BY <1>2, <2>1, MoveKeepsPieces, MoveRenames
<1>3. CASE Moving!CopyFirst
  <2>1. x1' = x1 /\ x2' = x2
    BY <1>3 DEF Moving!CopyFirst
  <2> QED BY <1>3, <2>1, MoveKeepsPieces, MoveCopiesFirst
<1>4. CASE Moving!RemoveLast \/ \E p \in Pieces : Moving!CopyPiece(p) \/ Moving!RemovePiece(p)
  BY <1>4, MoveCopies, MoveRemoves
<1> QED BY <1>1, <1>2, <1>3, <1>4 DEF Moving!Next
-------------------------------------------------------------------------------
(* 4. JsonFileStore: the rows of a namespace (x1 file, x2 values, x3 saving, *)
(* x4 now, x5 stored, x6 shared).                                           *)

LEMMA RowsAre ==
  ASSUME NEW r
  PROVE  r \in JsonFile!Rows <=>
           DOMAIN r \subseteq RowKeys /\ r \in [DOMAIN r -> JsonFile!ARow]
<1>1. ASSUME r \in JsonFile!Rows
      PROVE  DOMAIN r \subseteq RowKeys /\ r \in [DOMAIN r -> JsonFile!ARow]
  <2>1. PICK ks \in SUBSET RowKeys : r \in [ks -> JsonFile!ARow]
    BY <1>1 DEF JsonFile!Rows
  <2> QED BY <2>1
<1>2. ASSUME DOMAIN r \subseteq RowKeys, r \in [DOMAIN r -> JsonFile!ARow]
      PROVE  r \in JsonFile!Rows
  BY <1>2 DEF JsonFile!Rows
<1> QED BY <1>1, <1>2

LEMMA RestrictedAreRows ==
  ASSUME NEW r \in JsonFile!Rows, NEW ks \in SUBSET DOMAIN r
  PROVE  /\ JsonFile!Restrict(r, ks) \in JsonFile!Rows /\ DOMAIN JsonFile!Restrict(r, ks) = ks
         /\ \A k \in ks : JsonFile!Restrict(r, ks)[k] = r[k]
<1>1. JsonFile!Restrict(r, ks) = [k \in ks |-> r[k]]
  BY DEF JsonFile!Restrict
<1>2. DOMAIN r \subseteq RowKeys /\ \A k \in DOMAIN r : r[k] \in JsonFile!ARow
  BY RowsAre
<1>3. [k \in ks |-> r[k]] \in [ks -> JsonFile!ARow] /\ DOMAIN [k \in ks |-> r[k]] = ks
  BY <1>2
<1>4. [k \in ks |-> r[k]] \in JsonFile!Rows
  BY <1>2, <1>3, RowsAre
<1> QED BY <1>1, <1>3, <1>4

LEMMA FreshAreRows ==
  ASSUME NEW r \in JsonFile!Rows
  PROVE  /\ JsonFile!Fresh(r) \in JsonFile!Rows
         /\ DOMAIN JsonFile!Fresh(r) = {k \in DOMAIN r : ~JsonFile!Expired(r[k])}
         /\ \A k \in DOMAIN JsonFile!Fresh(r) : JsonFile!Fresh(r)[k] = r[k]
<1> DEFINE ks == {k \in DOMAIN r : ~JsonFile!Expired(r[k])}
<1>1. JsonFile!Fresh(r) = JsonFile!Restrict(r, ks) /\ ks \in SUBSET DOMAIN r
  BY DEF JsonFile!Fresh
<1> HIDE DEF ks
<1>2. JsonFile!Fresh(r) \in JsonFile!Rows /\ DOMAIN JsonFile!Fresh(r) = ks
        /\ \A k \in ks : JsonFile!Fresh(r)[k] = r[k]
  BY <1>1, RestrictedAreRows
<1> QED BY <1>2 DEF ks

LEMMA NoRowsAreRows == JsonFile!NoRows \in JsonFile!Rows /\ DOMAIN JsonFile!NoRows = {}
<1>1. JsonFile!NoRows = [k \in {} |-> 0]
  BY DEF JsonFile!NoRows, JsonFile!Restrict
<1>2. DOMAIN JsonFile!NoRows = {} /\ JsonFile!NoRows \in [{} -> JsonFile!ARow]
  BY <1>1
<1> QED BY <1>2, RowsAre

LEMMA PutIsRows ==
  ASSUME NEW r \in JsonFile!Rows, NEW k \in RowKeys, NEW row \in JsonFile!ARow
  PROVE  /\ JsonFile!Put(r, k, row) \in JsonFile!Rows
         /\ DOMAIN JsonFile!Put(r, k, row) = DOMAIN r \cup {k}
         /\ JsonFile!Put(r, k, row)[k] = row
         /\ \A x \in DOMAIN r \ {k} : JsonFile!Put(r, k, row)[x] = r[x]
<1> DEFINE put == [x \in DOMAIN r \cup {k} |-> IF x = k THEN row ELSE r[x]]
<1>1. JsonFile!Put(r, k, row) = put
  BY DEF JsonFile!Put
<1>2. DOMAIN r \subseteq RowKeys /\ \A x \in DOMAIN r : r[x] \in JsonFile!ARow
  BY RowsAre
<1>3. DOMAIN put = DOMAIN r \cup {k} /\ put \in [DOMAIN r \cup {k} -> JsonFile!ARow]
  BY <1>2
<1>4. put[k] = row /\ \A x \in DOMAIN r \ {k} : put[x] = r[x]
  OBVIOUS
<1> HIDE DEF put
<1>5. put \in JsonFile!Rows
  BY <1>2, <1>3, RowsAre
<1> QED BY <1>1, <1>3, <1>4, <1>5

LEMMA RowIsARow ==
  ASSUME JsonFile!TypeOK, NEW v \in RowValues, NEW life \in {0, 1, None}
  PROVE  JsonFile!Row(v, life) \in JsonFile!ARow
BY DEF JsonFile!TypeOK, JsonFile!Row, JsonFile!ARow, JsonFile!Expiries

\* The copy that a handle works with.
LEMMA GetValuesIsRows ==
  ASSUME JsonFile!IInv, NEW h \in Actors, JsonFile!Ready(h)
  PROVE  /\ JsonFile!GetValues(h) \in JsonFile!Rows
         /\ ~x6 => JsonFile!Covers(JsonFile!GetValues(h))
<1> USE SharedAssumption, NoRowsAreRows DEF SharedAssumption, JsonFile!RowsDiffer
<1>1. x2[h] \in JsonFile!Rows \cup {Unread} /\ x1 \in JsonFile!Rows \cup {None, Broken}
  BY DEF JsonFile!IInv, JsonFile!TypeOK, JsonFile!Ready
<1>2. CASE x2[h] # Unread
  BY <1>1, <1>2 DEF JsonFile!GetValues, JsonFile!IInv, JsonFile!NothingIsMissing
<1>3. CASE x2[h] = Unread /\ x1 = None
  BY <1>3 DEF JsonFile!GetValues, JsonFile!IInv, JsonFile!NothingIsMissing, JsonFile!Covers
<1>4. CASE x2[h] = Unread /\ x1 # None
  BY <1>1, <1>4 DEF JsonFile!GetValues, JsonFile!Ready, JsonFile!IInv, JsonFile!NothingIsMissing
<1> QED BY <1>2, <1>3, <1>4

LEMMA JsonInit == JsonFile!Init => JsonFile!IInv
<1> SUFFICES ASSUME JsonFile!Init PROVE JsonFile!IInv
  OBVIOUS
<1> USE SharedAssumption DEF SharedAssumption, JsonFile!RowsDiffer, JsonFile!Init
<1>1. JsonFile!TypeOK
  <2>1. x4 \in 0 .. 2
    OBVIOUS
  <2> QED BY <2>1, NoRowsAreRows DEF JsonFile!TypeOK
<1>2. DOMAIN JsonFile!Fresh(x5) = {}
  BY NoRowsAreRows, FreshAreRows
<1> QED BY <1>1, <1>2 DEF JsonFile!IInv, JsonFile!BrokenIsNotRead, JsonFile!OneHandle,
            JsonFile!NothingIsMissing

\* Less is missing when rows leave that have expired.
LEMMA CoversFresh ==
  ASSUME JsonFile!TypeOK, NEW r \in JsonFile!Rows, JsonFile!Covers(r)
  PROVE  JsonFile!Covers(JsonFile!Fresh(r))
BY FreshAreRows DEF JsonFile!Covers, JsonFile!TypeOK

\* A handle is made, or all of them are gone.
LEMMA JsonOpens ==
  ASSUME JsonFile!IInv, JsonFile!Kill \/ \E h \in Actors : JsonFile!Open(h)
  PROVE  JsonFile!IInv'
<1> USE SharedAssumption DEF SharedAssumption, JsonFile!RowsDiffer, JsonFile!IInv, JsonFile!TypeOK
<1>1. CASE JsonFile!Kill
  BY <1>1 DEF JsonFile!Kill, JsonFile!BrokenIsNotRead, JsonFile!OneHandle,
       JsonFile!NothingIsMissing, JsonFile!Covers, JsonFile!Fresh, JsonFile!Expired
<1>2. CASE \E h \in Actors : JsonFile!Open(h)
  <2>1. PICK h \in Actors :
          /\ x2[h] = None /\ x3 = None /\ x2' = [x2 EXCEPT ![h] = Unread]
          /\ x6' = (x6 \/ \E g \in Actors : x2[g] # None)
          /\ UNCHANGED <<x1, x3, x4, x5>>
    BY <1>2 DEF JsonFile!Open
  <2> QED BY <2>1 DEF JsonFile!BrokenIsNotRead, JsonFile!OneHandle, JsonFile!NothingIsMissing,
              JsonFile!Covers, JsonFile!Fresh, JsonFile!Expired
<1> QED BY <1>1, <1>2

\* load() and an expunge() that finds nothing change the copy only.
LEMMA JsonLoads ==
  ASSUME JsonFile!IInv, NEW h \in Actors, JsonFile!Ready(h), NEW rows \in JsonFile!Rows,
         ~x6 => JsonFile!Covers(rows),
         x2' = [x2 EXCEPT ![h] = rows], UNCHANGED <<x1, x3, x4, x5, x6>>
  PROVE  JsonFile!IInv'
<1> USE SharedAssumption DEF SharedAssumption, JsonFile!RowsDiffer, JsonFile!IInv, JsonFile!TypeOK
<1>1. x3 = None /\ x2[h] # None /\ (x1 = Broken => x2[h] \in JsonFile!Rows)
  BY DEF JsonFile!Ready, JsonFile!GetValues
<1>2. JsonFile!TypeOK'
  BY <1>1
<1>3. ASSUME ~x6 PROVE (JsonFile!BrokenIsNotRead /\ JsonFile!OneHandle)'
  BY <1>1, <1>3 DEF JsonFile!BrokenIsNotRead, JsonFile!OneHandle
<1>4. ASSUME ~x6 PROVE JsonFile!NothingIsMissing'
  BY <1>4 DEF JsonFile!NothingIsMissing, JsonFile!Covers, JsonFile!Fresh, JsonFile!Expired
<1> QED BY <1>2, <1>3, <1>4

\* store() and an expunge() that finds something truncate the file.
LEMMA JsonStores ==
  ASSUME JsonFile!IInv, NEW h \in Actors, JsonFile!Ready(h), NEW rows \in JsonFile!Rows,
         x5' \in JsonFile!Rows, ~x6 => JsonFile!Covers(rows)',
         x2' = [x2 EXCEPT ![h] = rows], x1' = Broken, x3' = h, UNCHANGED <<x4, x6>>
  PROVE  JsonFile!IInv'
<1> USE SharedAssumption DEF SharedAssumption, JsonFile!RowsDiffer, JsonFile!IInv, JsonFile!TypeOK
<1>1. x2[h] # None
  BY DEF JsonFile!Ready
<1>2. JsonFile!TypeOK'
  OBVIOUS
<1>3. ASSUME ~x6 PROVE (JsonFile!BrokenIsNotRead /\ JsonFile!OneHandle)'
  BY <1>1, <1>3 DEF JsonFile!BrokenIsNotRead, JsonFile!OneHandle
<1>4. ASSUME ~x6 PROVE JsonFile!NothingIsMissing'
  <2>1. \A g \in Actors : x2'[g] \in JsonFile!Rows => x2'[g] = rows
    BY <1>1, <1>4 DEF JsonFile!OneHandle
  <2> QED BY <1>4, <2>1 DEF JsonFile!NothingIsMissing
<1> QED BY <1>2, <1>3, <1>4

LEMMA JsonUses ==
  ASSUME JsonFile!IInv, NEW h \in Actors,
         \/ JsonFile!Expunge(h)
         \/ \E k \in RowKeys : JsonFile!Load(h, k)
         \/ \E k \in RowKeys, v \in RowValues, life \in {0, 1, None} : JsonFile!Store(h, k, v, life)
  PROVE  JsonFile!IInv'
<1>1. JsonFile!Ready(h)
  BY DEF JsonFile!Expunge, JsonFile!Load, JsonFile!Store
<1>2. PICK rows \in JsonFile!Rows :
        rows = JsonFile!GetValues(h) /\ (~x6 => JsonFile!Covers(rows))
  BY <1>1, GetValuesIsRows
<1>3. JsonFile!TypeOK /\ x5 \in JsonFile!Rows
  BY DEF JsonFile!IInv, JsonFile!TypeOK
<1>4. CASE JsonFile!Expunge(h)
  <2>1. PICK fresh \in JsonFile!Rows : fresh = JsonFile!Fresh(rows)
    BY FreshAreRows
  <2>2. /\ x2' = [x2 EXCEPT ![h] = fresh] /\ UNCHANGED <<x4, x5, x6>>
        /\ UNCHANGED <<x1, x3>> \/ (x1' = Broken /\ x3' = h)
    BY <1>2, <1>4, <2>1 DEF JsonFile!Expunge
  <2>3. ~x6 => JsonFile!Covers(fresh)
    BY <1>2, <1>3, <2>1, CoversFresh
  <2>4. ~x6 => JsonFile!Covers(fresh)'
    BY <2>2, <2>3 DEF JsonFile!Covers, JsonFile!Fresh, JsonFile!Expired
  <2> QED BY <1>1, <1>3, <2>2, <2>3, <2>4, JsonLoads, JsonStores
<1>5. ASSUME NEW k \in RowKeys, JsonFile!Load(h, k) PROVE JsonFile!IInv'
  <2> DEFINE gone == k \in DOMAIN rows /\ JsonFile!Expired(rows[k])
  <2>1. PICK left : left = IF gone THEN JsonFile!Restrict(rows, DOMAIN rows \ {k}) ELSE rows
    OBVIOUS
  <2>2. x2' = [x2 EXCEPT ![h] = left] /\ UNCHANGED <<x1, x3, x4, x5, x6>>
    BY <1>2, <1>5, <2>1 DEF JsonFile!Load
  <2>3. left \in JsonFile!Rows
    BY <2>1, RestrictedAreRows
  <2>4. ASSUME ~x6 PROVE JsonFile!Covers(left)
    <3>1. CASE gone
      <4>1. DOMAIN left = DOMAIN rows \ {k} /\ \A x \in DOMAIN rows \ {k} : left[x] = rows[x]
        BY <2>1, <3>1, RestrictedAreRows
      <4>2. \A x \in DOMAIN JsonFile!Fresh(x5) : ~JsonFile!Expired(x5[x])
        BY <1>3, FreshAreRows
      <4> QED BY <1>2, <2>4, <3>1, <4>1, <4>2 DEF JsonFile!Covers
    <3> QED BY <1>2, <2>1, <2>4, <3>1
  <2> QED BY <1>1, <2>2, <2>3, <2>4, JsonLoads
<1>6. ASSUME NEW k \in RowKeys, NEW v \in RowValues, NEW life \in {0, 1, None},
             JsonFile!Store(h, k, v, life)
      PROVE  JsonFile!IInv'
  <2>1. PICK row \in JsonFile!ARow : row = JsonFile!Row(v, life)
    BY <1>3, RowIsARow
  <2>2. PICK put \in JsonFile!Rows : put = JsonFile!Put(rows, k, row)
    BY PutIsRows
  <2>3. /\ x2' = [x2 EXCEPT ![h] = put] /\ x5' = JsonFile!Put(x5, k, row)
        /\ x1' = Broken /\ x3' = h /\ UNCHANGED <<x4, x6>>
    BY <1>2, <1>6, <2>1, <2>2 DEF JsonFile!Store
  <2>4. /\ x5' \in JsonFile!Rows /\ DOMAIN x5' = DOMAIN x5 \cup {k} /\ x5'[k] = row
        /\ \A x \in DOMAIN x5 \ {k} : x5'[x] = x5[x]
    <3> DEFINE more == JsonFile!Put(x5, k, row)
    <3>1. /\ more \in JsonFile!Rows
          /\ DOMAIN more = DOMAIN x5 \cup {k}
          /\ more[k] = row
          /\ \A x \in DOMAIN x5 \ {k} : more[x] = x5[x]
      BY <1>3, PutIsRows, Zenon
    <3> HIDE DEF more
    <3>2. x5' = more
      BY <2>3 DEF more
    <3> QED BY <3>1, <3>2
  <2>5. /\ DOMAIN put = DOMAIN rows \cup {k} /\ put[k] = row
        /\ \A x \in DOMAIN rows \ {k} : put[x] = rows[x]
    <3>1. /\ JsonFile!Put(rows, k, row) \in JsonFile!Rows
          /\ DOMAIN JsonFile!Put(rows, k, row) = DOMAIN rows \cup {k}
          /\ JsonFile!Put(rows, k, row)[k] = row
          /\ \A x \in DOMAIN rows \ {k} : JsonFile!Put(rows, k, row)[x] = rows[x]
      BY PutIsRows, Zenon
    <3> QED BY <2>2, <3>1, Zenon
  <2>6. ASSUME ~x6 PROVE JsonFile!Covers(put)'
    <3>1. DOMAIN JsonFile!Fresh(x5)' = {x \in DOMAIN x5' : ~JsonFile!Expired(x5'[x])}
      BY <2>3 DEF JsonFile!Fresh, JsonFile!Restrict, JsonFile!Expired
    <3>2. SUFFICES ASSUME NEW x \in DOMAIN x5', ~JsonFile!Expired(x5'[x])
                   PROVE  x \in DOMAIN put /\ put[x] = x5'[x]
      BY <3>1 DEF JsonFile!Covers
    <3>3. CASE x = k
      BY <2>4, <2>5, <3>3
    <3>4. CASE x # k
      <4>1. x \in DOMAIN x5 /\ x5'[x] = x5[x]
        BY <2>4, <3>4
      <4>2. x \in DOMAIN JsonFile!Fresh(x5)
        BY <1>3, <3>2, <4>1, FreshAreRows
      <4>3. x \in DOMAIN rows /\ rows[x] = x5[x]
        BY <1>2, <2>6, <4>2 DEF JsonFile!Covers
      <4> QED BY <2>5, <3>4, <4>1, <4>3
    <3> QED BY <3>3, <3>4
  <2> QED BY <1>1, <2>3, <2>4, <2>6, JsonStores
<1> QED BY <1>4, <1>5, <1>6

\* The copy is written; expunge() of the directory reads and writes the file itself.
LEMMA JsonSaves ==
  ASSUME JsonFile!IInv, JsonFile!Save \/ JsonFile!ExpungeAll
  PROVE  JsonFile!IInv'
<1> USE SharedAssumption DEF SharedAssumption, JsonFile!RowsDiffer, JsonFile!IInv
<1>1. PICK rows \in JsonFile!Rows :
        x1' = rows /\ x3' = None /\ UNCHANGED <<x2, x4, x5, x6>> /\ (~x6 => JsonFile!Covers(rows))
  <2>1. CASE JsonFile!Save
    BY <2>1 DEF JsonFile!Save, JsonFile!TypeOK, JsonFile!NothingIsMissing
  <2>2. CASE JsonFile!ExpungeAll
    <3>1. x1 \in JsonFile!Rows /\ x1' = JsonFile!Fresh(x1) /\ UNCHANGED <<x2, x3, x4, x5, x6>> /\ x3 = None
      BY <2>2 DEF JsonFile!ExpungeAll, JsonFile!TypeOK
    <3> QED BY <3>1, FreshAreRows, CoversFresh DEF JsonFile!NothingIsMissing
  <2> QED BY <2>1, <2>2
<1>2. JsonFile!TypeOK'
  BY <1>1 DEF JsonFile!TypeOK
<1>3. ASSUME ~x6 PROVE (JsonFile!BrokenIsNotRead /\ JsonFile!OneHandle)'
  BY <1>1, <1>3 DEF JsonFile!BrokenIsNotRead, JsonFile!OneHandle
<1>4. ASSUME ~x6 PROVE JsonFile!NothingIsMissing'
  BY <1>1, <1>4 DEF JsonFile!NothingIsMissing, JsonFile!Covers, JsonFile!Fresh, JsonFile!Expired
<1> QED BY <1>1, <1>2, <1>3, <1>4

\* What has expired stays so.
LEMMA JsonTicks == JsonFile!IInv /\ JsonFile!Tick => JsonFile!IInv'
<1> SUFFICES ASSUME JsonFile!IInv, JsonFile!Tick PROVE JsonFile!IInv'
  OBVIOUS
<1>1. UNCHANGED <<x1, x2, x3, x5, x6>> /\ x4' = x4 + 1 /\ x4 < 2 /\ x5 \in JsonFile!Rows /\ x4 \in 0 .. 2
  BY DEF JsonFile!Tick, JsonFile!IInv, JsonFile!TypeOK
<1>2. JsonFile!TypeOK'
  BY <1>1 DEF JsonFile!IInv, JsonFile!TypeOK
<1>3. DOMAIN JsonFile!Fresh(x5)' \subseteq DOMAIN JsonFile!Fresh(x5)
  <2>1. \A k \in DOMAIN x5 : x5[k] \in JsonFile!ARow
    BY <1>1, RowsAre
  <2>2. \A k \in DOMAIN x5 : JsonFile!Expired(x5[k]) => JsonFile!Expired(x5[k])'
    <3> SUFFICES ASSUME NEW k \in DOMAIN x5, x5[k].exp # None, x5[k].exp < x4
                 PROVE  x5[k].exp < x4 + 1
      BY <1>1 DEF JsonFile!Expired
    <3>1. x5[k].exp \in JsonFile!Expiries \ {None}
      BY <2>1 DEF JsonFile!ARow
    <3>2. x5[k].exp \in Int
      BY <3>1 DEF JsonFile!Expiries
    <3> QED BY <1>1, <3>2
  <2>3. DOMAIN JsonFile!Fresh(x5) = {k \in DOMAIN x5 : ~JsonFile!Expired(x5[k])}
    BY <1>1, FreshAreRows
  <2>4. DOMAIN JsonFile!Fresh(x5)' = {k \in DOMAIN x5 : ~JsonFile!Expired(x5[k])'}
    BY <1>1 DEF JsonFile!Fresh, JsonFile!Restrict, JsonFile!Expired
  <2> QED BY <2>2, <2>3, <2>4
<1>4. ASSUME ~x6 PROVE (JsonFile!BrokenIsNotRead /\ JsonFile!OneHandle /\ JsonFile!NothingIsMissing)'
  BY <1>1, <1>3, <1>4 DEF JsonFile!IInv, JsonFile!BrokenIsNotRead, JsonFile!OneHandle,
     JsonFile!NothingIsMissing, JsonFile!Covers
<1> QED BY <1>1, <1>2, <1>4 DEF JsonFile!IInv

LEMMA JsonStep == JsonFile!IInv /\ [JsonFile!Next]_(JsonFile!vars) => JsonFile!IInv'
<1> SUFFICES ASSUME JsonFile!IInv, [JsonFile!Next]_(JsonFile!vars) PROVE JsonFile!IInv'
  OBVIOUS
<1>1. CASE JsonFile!Next
  BY <1>1, JsonOpens, JsonUses, JsonSaves, JsonTicks DEF JsonFile!Next
<1>2. CASE UNCHANGED JsonFile!vars
  BY <1>2 DEF JsonFile!vars, JsonFile!IInv, JsonFile!TypeOK, JsonFile!BrokenIsNotRead,
       JsonFile!OneHandle, JsonFile!NothingIsMissing, JsonFile!Covers, JsonFile!Fresh, JsonFile!Expired
<1> QED BY <1>1, <1>2

LEMMA JsonLosesNothing == JsonFile!IInv => JsonFile!LoneHandleLosesNothing
<1> SUFFICES ASSUME JsonFile!IInv, ~x6, x1 # Broken, NEW k \in DOMAIN JsonFile!Fresh(x5)
             PROVE  /\ x1 # None /\ k \in DOMAIN x1 /\ x1[k] = x5[k]
                    /\ \A h \in Actors : JsonFile!Ready(h) =>
                         k \in DOMAIN JsonFile!GetValues(h) /\ JsonFile!GetValues(h)[k] = x5[k]
  BY DEF JsonFile!LoneHandleLosesNothing
<1>1. x1 # None /\ k \in DOMAIN x1 /\ x1[k] = x5[k]
  BY DEF JsonFile!IInv, JsonFile!TypeOK, JsonFile!NothingIsMissing, JsonFile!Covers
<1> QED BY <1>1, GetValuesIsRows DEF JsonFile!Covers
-------------------------------------------------------------------------------
(* 5. AtomicFile: the file and its backup (x1 name, x2 data, x3 temp, x4 pc, *)
(* x5 backup, x6 rename, x7 exposed).                                       *)

LEMMA SameSets ==
  ASSUME NEW S
  PROVE  /\ Atomic!Cardinality(S) = Cardinality(S)
         /\ Atomic!IsFiniteSet(S) <=> IsFiniteSet(S)
BY DEF Atomic!Cardinality, Cardinality, Atomic!IsFiniteSet, IsFiniteSet

LEMMA NoneIsNoWriter == None \notin Actors
BY SharedAssumption DEF SharedAssumption, Atomic!ContentsDiffer, Atomic!Inodes

LEMMA AtMostOneIsOne ==
  ASSUME NEW S, IsFiniteSet(S), ~(Cardinality(S) > 1), NEW a \in S, NEW b \in S
  PROVE  a = b
<1> SUFFICES ASSUME a # b PROVE FALSE
  OBVIOUS
<1>1. IsFiniteSet({a}) /\ Cardinality({a}) = 1
  BY FS_Singleton
<1>2. Cardinality({a} \cup {b}) = 2
  BY <1>1, FS_AddElement
<1>3. Cardinality({a} \cup {b}) <= Cardinality(S) /\ Cardinality(S) \in Nat
  BY FS_Subset, FS_CardinalityType
<1> QED BY <1>2, <1>3

\* A writer goes on; unless it is exposed, it is the only one that replaces the file.
LEMMA AtomicGoes ==
  ASSUME Atomic!TypeOK, NEW w \in Actors, NEW from, NEW to, Atomic!Goto(w, from, to)
  PROVE  /\ x4[w] = from /\ x4' = [x4 EXCEPT ![w] = to]
         /\ x4'[w] = to /\ \A v \in Actors \ {w} : x4'[v] = x4[v]
         /\ x6' = x6 /\ x7' \in BOOLEAN
         /\ ~x7' => ~x7 /\ Atomic!OneExposes'
<1> DEFINE exposers == {v \in Actors : x4'[v] \in Atomic!Exposing}
<1>1. /\ x4[w] = from /\ x4' = [x4 EXCEPT ![w] = to] /\ x6' = x6
      /\ x7' = (x7 \/ Cardinality(exposers) > 1)
  BY SameSets DEF Atomic!Goto
<1>2. x7' \in BOOLEAN
  BY <1>1 DEF Atomic!TypeOK
<1>3. IsFiniteSet(exposers)
  <2>1. IsFiniteSet(Actors) /\ exposers \in SUBSET Actors
    BY SharedAssumption, SameSets DEF SharedAssumption, Atomic!ContentsDiffer
  <2> HIDE DEF exposers
  <2> QED BY <2>1, FS_Subset
<1>4. ASSUME ~x7' PROVE ~x7 /\ Atomic!OneExposes'
  <2>1. ~x7 /\ ~(Cardinality(exposers) > 1)
    BY <1>1, <1>4
  <2>2. Atomic!Exposing' = Atomic!Exposing
    BY <1>1 DEF Atomic!Exposing
  <2> SUFFICES ASSUME NEW u \in exposers, NEW v \in exposers PROVE u = v
    BY <2>1, <2>2 DEF Atomic!OneExposes
  <2> HIDE DEF exposers
  <2> QED BY <1>3, <2>1, AtMostOneIsOne
<1> QED BY <1>1, <1>2, <1>4 DEF Atomic!TypeOK

LEMMA AtomicInit == Atomic!Init => Atomic!IInv
<1> SUFFICES ASSUME Atomic!Init PROVE Atomic!IInv
  OBVIOUS
<1> USE SharedAssumption DEF SharedAssumption, Atomic!ContentsDiffer
<1>1. /\ x1 \in [Atomic!Names -> {Old, None}] /\ x1["backup"] = None
      /\ x2 = [i \in Atomic!Inodes |-> IF i = Old THEN x1["file"] ELSE Partial]
      /\ x3 = {} /\ x5 = [w \in Actors |-> None] /\ x6 \in BOOLEAN /\ x7 = FALSE
      /\ x4 = [w \in Actors |-> "idle"]
  BY DEF Atomic!Init, Atomic!Names
<1>2. Old \in Atomic!Inodes /\ x2[Old] = x1["file"] /\ x1["file"] \in {Old, None}
  BY <1>1 DEF Atomic!Inodes, Atomic!Names
<1>3. Atomic!TypeOK
  BY <1>1, <1>2 DEF Atomic!TypeOK, Atomic!Phases, Atomic!Inodes
<1>4. Atomic!Complete("file") \/ x1["file"] = None
  BY <1>2 DEF Atomic!Complete
<1>5. \A n \in Atomic!Names : x1[n] # None => Atomic!Complete(n)
  BY <1>1, <1>4 DEF Atomic!Names
<1>6. Atomic!ClosedIsComplete /\ Atomic!RenamedIsComplete /\ Atomic!ContentSurvives
  BY <1>1, <1>2, <1>4, <1>5, NoneIsNoWriter
     DEF Atomic!Names, Atomic!ClosedIsComplete, Atomic!RenamedIsComplete, Atomic!ContentSurvives
<1>7. Atomic!OneExposes /\ Atomic!PartialIsCopied /\ Atomic!BackupIsKnown
  BY <1>1, <1>5 DEF Atomic!OneExposes, Atomic!Exposing, Atomic!Replacing, Atomic!PartialIsCopied,
     Atomic!BackupIsKnown
<1>8. Atomic!WriterKnowsNames
  <2>1. \A w \in Actors : Atomic!Copied(w) \notin {Old, None}
    BY DEF Atomic!Inodes
  <2> QED BY <1>1, <1>2, <2>1 DEF Atomic!WriterKnowsNames
<1> QED BY <1>3, <1>6, <1>7, <1>8 DEF Atomic!IInv

\* What a step that changes neither the names nor an inode must tell.
LEMMA AtomicWaits ==
  ASSUME Atomic!IInv, NEW w \in Actors,
         \/ Atomic!Enter(w) \/ Atomic!Abandon(w) \/ Atomic!IsFile(w) \/ Atomic!RenameFails(w)
         \/ Atomic!MoveUnlink(w) \/ Atomic!Exit(w) \/ Atomic!Kill(w)
  PROVE  Atomic!IInv'
<1> USE DEF Atomic!IInv
<1>1. PICK from, to :
        /\ Atomic!Goto(w, from, to) /\ UNCHANGED <<x1, x2, x5>>
        /\ \/ from = "idle" /\ to = "body" /\ x3' = x3 \cup {w}
           \/ from = "body" /\ to = "exit" /\ x3' = x3
           \/ from = "isfile" /\ to = "move" /\ x1["file"] = None /\ x3' = x3
           \/ from = "isfile" /\ to = "rename" /\ x1["file"] # None /\ x3' = x3
           \/ from = "rename" /\ to = "exit" /\ x1["file"] = None /\ x3' = x3
           \/ from = "unlink" /\ to = "exit" /\ x5[w] = None /\ x3' = x3 \ {w}
           \/ from = "unlink" /\ to = "remove" /\ x5[w] # None /\ x3' = x3 \ {w}
           \/ from = "exit" /\ to = "done" /\ x3' = x3 \ {w}
           \/ from \notin {"idle", "done", "killed"} /\ to = "killed" /\ x3' = x3
  BY DEF Atomic!Enter, Atomic!Abandon, Atomic!IsFile, Atomic!RenameFails, Atomic!MoveUnlink,
         Atomic!AfterMove, Atomic!Exit, Atomic!Kill
<1>2. /\ x4[w] = from /\ x4' = [x4 EXCEPT ![w] = to]
      /\ x4'[w] = to /\ \A v \in Actors \ {w} : x4'[v] = x4[v]
      /\ x6' = x6 /\ x7' \in BOOLEAN
      /\ ~x7' => ~x7 /\ Atomic!OneExposes'
  BY <1>1, AtomicGoes
<1>3. Atomic!TypeOK'
  BY <1>1, <1>2 DEF Atomic!TypeOK, Atomic!Phases, Atomic!Replacing
<1>4. Atomic!ClosedIsComplete' /\ Atomic!RenamedIsComplete' /\ Atomic!ContentSurvives'
  BY <1>1, <1>2 DEF Atomic!ClosedIsComplete, Atomic!RenamedIsComplete, Atomic!ContentSurvives,
     Atomic!Complete
<1>5. ASSUME ~x7'
      PROVE  (Atomic!WriterKnowsNames /\ Atomic!PartialIsCopied /\ Atomic!BackupIsKnown)'
  <2>1. Atomic!WriterKnowsNames'
    BY <1>1, <1>2, <1>5 DEF Atomic!WriterKnowsNames
  <2>2. Atomic!PartialIsCopied'
    BY <1>1, <1>2, <1>5 DEF Atomic!PartialIsCopied, Atomic!Complete
  <2>3. Atomic!BackupIsKnown'
    BY <1>1, <1>2, <1>5 DEF Atomic!BackupIsKnown
  <2> QED BY <2>1, <2>2, <2>3
<1> QED BY <1>2, <1>3, <1>4, <1>5

\* The temporary file is closed, and complete.
LEMMA AtomicCloses ==
  ASSUME Atomic!IInv, NEW w \in Actors, Atomic!Close(w)
  PROVE  Atomic!IInv'
<1> USE SharedAssumption DEF SharedAssumption, Atomic!ContentsDiffer, Atomic!IInv
<1>1. /\ Atomic!Goto(w, "body", "isfile") /\ x2' = [x2 EXCEPT ![w] = w] /\ UNCHANGED <<x1, x3, x5>>
  BY DEF Atomic!Close
<1>2. /\ x4[w] = "body" /\ x4' = [x4 EXCEPT ![w] = "isfile"]
      /\ x4'[w] = "isfile" /\ \A v \in Actors \ {w} : x4'[v] = x4[v]
      /\ x6' = x6 /\ x7' \in BOOLEAN
      /\ ~x7' => ~x7 /\ Atomic!OneExposes'
  BY <1>1, AtomicGoes
<1>3. Atomic!TypeOK'
  BY <1>1, <1>2 DEF Atomic!TypeOK, Atomic!Phases, Atomic!Replacing
<1>4. x2'[w] = w /\ \A i \in Atomic!Inodes \ {w} : x2'[i] = x2[i]
  BY <1>1 DEF Atomic!TypeOK, Atomic!Inodes
<1>5. Old \in Atomic!Inodes \ {w} /\ w # Partial /\ \A v \in Actors : v \in Atomic!Inodes
  BY DEF Atomic!Inodes
<1>6. \A n \in Atomic!Names : Atomic!Complete(n) => Atomic!Complete(n)'
  BY <1>1, <1>4, <1>5 DEF Atomic!Complete, Atomic!TypeOK
<1>7. Atomic!ClosedIsComplete' /\ Atomic!RenamedIsComplete' /\ Atomic!ContentSurvives'
  BY <1>1, <1>2, <1>4, <1>5, <1>6
     DEF Atomic!ClosedIsComplete, Atomic!RenamedIsComplete, Atomic!ContentSurvives, Atomic!Names
<1>8. ASSUME ~x7'
      PROVE  (Atomic!WriterKnowsNames /\ Atomic!PartialIsCopied /\ Atomic!BackupIsKnown)'
  <2>1. Atomic!WriterKnowsNames' /\ Atomic!BackupIsKnown'
    BY <1>1, <1>2, <1>8 DEF Atomic!WriterKnowsNames, Atomic!BackupIsKnown
  <2>2. Atomic!PartialIsCopied'
    BY <1>1, <1>2, <1>6, <1>8 DEF Atomic!PartialIsCopied
  <2> QED BY <2>1, <2>2
<1> QED BY <1>2, <1>3, <1>7, <1>8

\* While one writer replaces the file and copies nothing, what has a name is complete.
LEMMA AtomicIsComplete ==
  ASSUME Atomic!IInv, ~x7, NEW w \in Actors, x4[w] \in Atomic!Replacing \ {"copy"},
         NEW n \in Atomic!Names, x1[n] # None
  PROVE  Atomic!Complete(n)
<1>1. CASE x6
  BY <1>1 DEF Atomic!IInv, Atomic!RenamedIsComplete
<1>2. CASE ~x6
  <2>1. \A v \in Actors : x4[v] \in {"copy", "killed"} => v = w
    BY <1>2 DEF Atomic!IInv, Atomic!OneExposes, Atomic!Exposing, Atomic!Replacing
  <2> QED BY <2>1 DEF Atomic!IInv, Atomic!PartialIsCopied, Atomic!Replacing
<1> QED BY <1>1, <1>2

\* The file becomes the backup.
LEMMA AtomicRenames ==
  ASSUME Atomic!IInv, NEW w \in Actors, Atomic!RenameOld(w)
  PROVE  Atomic!IInv'
<1> USE SharedAssumption DEF SharedAssumption, Atomic!ContentsDiffer, Atomic!IInv
<1>1. /\ x1["file"] # None /\ Atomic!Goto(w, "rename", "move")
      /\ x1' = [file |-> None, backup |-> x1["file"]]
      /\ x5' = [x5 EXCEPT ![w] = x1["file"]] /\ UNCHANGED <<x2, x3>>
  BY DEF Atomic!RenameOld
<1>2. /\ x4[w] = "rename" /\ x4' = [x4 EXCEPT ![w] = "move"]
      /\ x4'[w] = "move" /\ \A v \in Actors \ {w} : x4'[v] = x4[v]
      /\ x6' = x6 /\ x7' \in BOOLEAN
      /\ ~x7' => ~x7 /\ Atomic!OneExposes'
  BY <1>1, AtomicGoes
<1>3. /\ x1'["file"] = None /\ x1'["backup"] = x1["file"] /\ x1["file"] \in Atomic!Inodes
      /\ x1' \in [Atomic!Names -> Atomic!Inodes \cup {None}]
      /\ x5'[w] = x1["file"] /\ \A v \in Actors \ {w} : x5'[v] = x5[v]
      /\ DOMAIN x5' = Actors
  BY <1>1 DEF Atomic!TypeOK, Atomic!Names
<1>4. Atomic!TypeOK'
  BY <1>1, <1>2, <1>3 DEF Atomic!TypeOK, Atomic!Phases, Atomic!Replacing
<1>5. Atomic!ClosedIsComplete' /\ Atomic!RenamedIsComplete'
  BY <1>1, <1>2, <1>3, NoneIsNoWriter DEF Atomic!ClosedIsComplete, Atomic!RenamedIsComplete,
     Atomic!Complete, Atomic!Names
<1>6. ASSUME ~x7'
      PROVE  /\ (Atomic!WriterKnowsNames /\ Atomic!PartialIsCopied /\ Atomic!BackupIsKnown)'
             /\ Atomic!ContentSurvives'
  <2>1. Atomic!Complete("backup")'
    <3>1. Atomic!Complete("file")
      BY <1>1, <1>2, <1>6, AtomicIsComplete DEF Atomic!Names, Atomic!Replacing
    <3> QED BY <1>1, <1>3, <3>1 DEF Atomic!Complete
  <2>2. Atomic!PartialIsCopied' /\ Atomic!ContentSurvives'
    BY <1>3, <2>1 DEF Atomic!PartialIsCopied, Atomic!ContentSurvives, Atomic!Names
  <2>3. Atomic!BackupIsKnown'
    BY <1>1, <1>2, <1>3 DEF Atomic!BackupIsKnown
  <2>4. Atomic!WriterKnowsNames'
    <3>1. \A v \in Actors \ {w} : x4[v] \in {"idle", "body", "exit", "done", "killed"}
      BY <1>2, <1>6 DEF Atomic!OneExposes, Atomic!Exposing, Atomic!Replacing, Atomic!TypeOK,
         Atomic!Phases
    <3>2. \A v \in Actors : Atomic!Copied(v) # None
      BY DEF Atomic!Inodes
    <3> QED BY <1>2, <1>3, <1>6, <3>1, <3>2 DEF Atomic!WriterKnowsNames
  <2> QED BY <2>2, <2>3, <2>4
<1> QED BY <1>2, <1>4, <1>5, <1>6 DEF Atomic!ContentSurvives

\* The new file takes the name at once.
LEMMA AtomicMoves ==
  ASSUME Atomic!IInv, NEW w \in Actors, Atomic!Move(w)
  PROVE  Atomic!IInv'
<1> USE SharedAssumption DEF SharedAssumption, Atomic!ContentsDiffer, Atomic!IInv
<1>1. PICK to \in {"exit", "remove"} :
        /\ x6 /\ Atomic!Goto(w, "move", to) /\ (x5[w] # None => to = "remove")
        /\ x1' = [x1 EXCEPT !["file"] = w] /\ x3' = x3 \ {w} /\ UNCHANGED <<x2, x5>>
  BY DEF Atomic!Move, Atomic!AfterMove
<1>2. /\ x4[w] = "move" /\ x4' = [x4 EXCEPT ![w] = to]
      /\ x4'[w] = to /\ \A v \in Actors \ {w} : x4'[v] = x4[v]
      /\ x6' = x6 /\ x7' \in BOOLEAN
      /\ ~x7' => ~x7 /\ Atomic!OneExposes'
  BY <1>1, AtomicGoes
<1>3. /\ x1'["file"] = w /\ x1'["backup"] = x1["backup"] /\ w \in Atomic!Inodes /\ w # None
      /\ x1' \in [Atomic!Names -> Atomic!Inodes \cup {None}]
  BY <1>1 DEF Atomic!TypeOK, Atomic!Names, Atomic!Inodes
<1>4. Atomic!TypeOK'
  BY <1>1, <1>2, <1>3 DEF Atomic!TypeOK, Atomic!Phases, Atomic!Replacing
<1>5. Atomic!Complete("file")'
  BY <1>1, <1>2, <1>3 DEF Atomic!Complete, Atomic!ClosedIsComplete
<1>6. \A n \in Atomic!Names : x1'[n] # None => Atomic!Complete(n)'
  BY <1>1, <1>3, <1>5 DEF Atomic!Complete, Atomic!RenamedIsComplete, Atomic!Names
<1>7. Atomic!ClosedIsComplete' /\ Atomic!RenamedIsComplete' /\ Atomic!ContentSurvives'
        /\ Atomic!PartialIsCopied'
  BY <1>1, <1>2, <1>5, <1>6 DEF Atomic!ClosedIsComplete, Atomic!RenamedIsComplete,
     Atomic!ContentSurvives, Atomic!PartialIsCopied
<1>8. ASSUME ~x7' PROVE (Atomic!WriterKnowsNames /\ Atomic!BackupIsKnown)'
  <2>1. Atomic!BackupIsKnown'
    BY <1>1, <1>2, <1>3, <1>8 DEF Atomic!BackupIsKnown
  <2>2. \A v \in Actors : Atomic!Copied(v) # w
    OBVIOUS
  <2>3. \A v \in Actors \ {w} : x4[v] \notin Atomic!Replacing
    BY <1>2, <1>8 DEF Atomic!OneExposes, Atomic!Exposing, Atomic!Replacing
  <2>4. Atomic!WriterKnowsNames'
    BY <1>2, <1>3, <1>8, <2>2, <2>3 DEF Atomic!WriterKnowsNames, Atomic!Replacing
  <2> QED BY <2>1, <2>4
<1> QED BY <1>2, <1>4, <1>7, <1>8

\* On another device: the copy has the name before it has the content.
LEMMA AtomicOpensCopy ==
  ASSUME Atomic!IInv, NEW w \in Actors, Atomic!MoveOpen(w)
  PROVE  Atomic!IInv'
<1> USE SharedAssumption DEF SharedAssumption, Atomic!ContentsDiffer, Atomic!IInv
<1> DEFINE target == Atomic!Target(w)
<1>1. /\ ~x6 /\ Atomic!Goto(w, "move", "copy")
      /\ x1' = [x1 EXCEPT !["file"] = target] /\ x2' = [x2 EXCEPT ![target] = Partial]
      /\ x5' = [x5 EXCEPT ![w] = <<x5[w], target>>] /\ x3' = x3
  BY DEF Atomic!MoveOpen
<1>2. /\ x4[w] = "move" /\ x4' = [x4 EXCEPT ![w] = "copy"]
      /\ x4'[w] = "copy" /\ \A v \in Actors \ {w} : x4'[v] = x4[v]
      /\ x6' = x6 /\ x7' \in BOOLEAN
      /\ ~x7' => ~x7 /\ Atomic!OneExposes'
  BY <1>1, AtomicGoes
<1>3. target \in Atomic!Inodes \ Actors /\ target # None
  BY <1>1 DEF Atomic!Target, Atomic!TypeOK, Atomic!RenamedIsComplete, Atomic!Names, Atomic!Inodes
<1> HIDE DEF target
<1>4. /\ x1'["file"] = target /\ x1'["backup"] = x1["backup"]
      /\ x1' \in [Atomic!Names -> Atomic!Inodes \cup {None}]
      /\ x2'[target] = Partial /\ \A i \in Atomic!Inodes \ {target} : x2'[i] = x2[i]
      /\ x5'[w] = <<x5[w], target>> /\ \A v \in Actors \ {w} : x5'[v] = x5[v]
      /\ DOMAIN x5' = Actors
  BY <1>1, <1>3 DEF Atomic!TypeOK, Atomic!Names
<1>5. Atomic!TypeOK'
  BY <1>1, <1>2, <1>3, <1>4 DEF Atomic!TypeOK, Atomic!Phases, Atomic!Replacing
<1>6. Atomic!ClosedIsComplete' /\ Atomic!RenamedIsComplete'
  <2>1. Actors \subseteq Atomic!Inodes
    BY DEF Atomic!Inodes
  <2> QED BY <1>1, <1>2, <1>3, <1>4, <2>1 DEF Atomic!ClosedIsComplete, Atomic!RenamedIsComplete,
      Atomic!Names
<1>7. ASSUME ~x7'
      PROVE  /\ (Atomic!WriterKnowsNames /\ Atomic!PartialIsCopied /\ Atomic!BackupIsKnown)'
             /\ Atomic!ContentSurvives'
  <2>1. x1["file"] = None /\ target = Atomic!Copied(w) /\ x1["backup"] # target
    BY <1>2, <1>7 DEF Atomic!WriterKnowsNames, Atomic!Target, target
  <2>2. Atomic!Complete("backup") => Atomic!Complete("backup")'
    BY <1>4, <2>1 DEF Atomic!Complete, Atomic!TypeOK, Atomic!Names
  <2>3. Old \in Atomic!Inodes /\ Old # target
    BY <2>1 DEF Atomic!Inodes
  <2>4. Atomic!ContentSurvives'
    BY <1>2, <1>4, <1>7, <2>1, <2>2, <2>3 DEF Atomic!ContentSurvives, Atomic!Complete
  <2>5. Atomic!PartialIsCopied'
    BY <1>1, <1>2, <1>4, <1>7, <2>1, <2>2 DEF Atomic!PartialIsCopied, Atomic!Names
  <2>6. Atomic!BackupIsKnown'
    BY <1>2, <1>4, <1>7 DEF Atomic!BackupIsKnown
  <2>7. Atomic!WriterKnowsNames'
    <3>1. \A v \in Actors \ {w} : x4[v] \notin Atomic!Replacing
      BY <1>2, <1>7 DEF Atomic!OneExposes, Atomic!Exposing, Atomic!Replacing
    <3>2. \A v \in Actors \ {w} : Atomic!Copied(v) # target
      BY <2>1 DEF Atomic!Copied
    <3> QED BY <1>2, <1>3, <1>4, <1>7, <2>1, <3>1, <3>2
            DEF Atomic!WriterKnowsNames, Atomic!Replacing
  <2> QED BY <2>4, <2>5, <2>6, <2>7
<1> QED BY <1>2, <1>5, <1>6, <1>7 DEF Atomic!ContentSurvives

LEMMA AtomicCopies ==
  ASSUME Atomic!IInv, NEW w \in Actors, Atomic!MoveCopy(w)
  PROVE  Atomic!IInv'
<1> USE SharedAssumption DEF SharedAssumption, Atomic!ContentsDiffer, Atomic!IInv
<1> DEFINE target == x5[w][2]
<1>1. /\ Atomic!Goto(w, "copy", "unlink") /\ x2' = [x2 EXCEPT ![target] = w]
      /\ x5' = [x5 EXCEPT ![w] = x5[w][1]] /\ UNCHANGED <<x1, x3>>
  BY DEF Atomic!MoveCopy
<1>2. /\ x4[w] = "copy" /\ x4' = [x4 EXCEPT ![w] = "unlink"]
      /\ x4'[w] = "unlink" /\ \A v \in Actors \ {w} : x4'[v] = x4[v]
      /\ x6' = x6 /\ x7' \in BOOLEAN
      /\ ~x7' => ~x7 /\ Atomic!OneExposes'
  BY <1>1, AtomicGoes
<1>3. target \in Atomic!Inodes \ Actors /\ x5[w][1] \in Atomic!Inodes \cup {None} /\ ~x6
  BY <1>2 DEF Atomic!TypeOK, Atomic!RenamedIsComplete
<1> HIDE DEF target
<1>4. /\ x2'[target] = w /\ \A i \in Atomic!Inodes \ {target} : x2'[i] = x2[i]
      /\ x5'[w] = x5[w][1] /\ \A v \in Actors \ {w} : x5'[v] = x5[v] /\ DOMAIN x5' = Actors
  BY <1>1, <1>3 DEF Atomic!TypeOK
<1>5. Atomic!TypeOK'
  BY <1>1, <1>2, <1>3, <1>4 DEF Atomic!TypeOK, Atomic!Phases, Atomic!Replacing
<1>6. Atomic!ClosedIsComplete' /\ Atomic!RenamedIsComplete'
  <2>1. Actors \subseteq Atomic!Inodes
    BY DEF Atomic!Inodes
  <2> QED BY <1>1, <1>2, <1>3, <1>4, <2>1 DEF Atomic!ClosedIsComplete, Atomic!RenamedIsComplete
<1>7. ASSUME ~x7'
      PROVE  /\ (Atomic!WriterKnowsNames /\ Atomic!PartialIsCopied /\ Atomic!BackupIsKnown)'
             /\ Atomic!ContentSurvives'
  <2>1. x1["file"] = target /\ target = Atomic!Copied(w) /\ x1["backup"] # target
    BY <1>2, <1>7 DEF Atomic!WriterKnowsNames, target
  <2>2. Atomic!Complete("file")' /\ x1["file"] # None
    BY <1>1, <1>3, <1>4, <2>1 DEF Atomic!Complete
  <2>3. Atomic!Complete("backup") => Atomic!Complete("backup")'
    BY <1>1, <1>4, <2>1 DEF Atomic!Complete, Atomic!TypeOK, Atomic!Names
  <2>4. Atomic!ContentSurvives' /\ Atomic!PartialIsCopied'
    BY <1>1, <1>2, <1>7, <2>2, <2>3 DEF Atomic!ContentSurvives, Atomic!PartialIsCopied, Atomic!Names
  <2>5. Atomic!BackupIsKnown'
    BY <1>1, <1>2, <1>4, <1>7 DEF Atomic!BackupIsKnown
  <2>6. Atomic!WriterKnowsNames'
    BY <1>1, <1>2, <1>4, <1>7, <2>2 DEF Atomic!WriterKnowsNames
  <2> QED BY <2>4, <2>5, <2>6
<1> QED BY <1>2, <1>5, <1>6, <1>7 DEF Atomic!ContentSurvives

\* The backup goes, once the file is complete.
LEMMA AtomicRemoves ==
  ASSUME Atomic!IInv, NEW w \in Actors, Atomic!Remove(w)
  PROVE  Atomic!IInv'
<1> USE DEF Atomic!IInv
<1>1. /\ Atomic!Goto(w, "remove", "exit") /\ x1' = [x1 EXCEPT !["backup"] = None]
      /\ UNCHANGED <<x2, x3, x5>>
  BY DEF Atomic!Remove
<1>2. /\ x4[w] = "remove" /\ x4' = [x4 EXCEPT ![w] = "exit"]
      /\ x4'[w] = "exit" /\ \A v \in Actors \ {w} : x4'[v] = x4[v]
      /\ x6' = x6 /\ x7' \in BOOLEAN
      /\ ~x7' => ~x7 /\ Atomic!OneExposes'
  BY <1>1, AtomicGoes
<1>3. /\ x1'["backup"] = None /\ x1'["file"] = x1["file"]
      /\ x1' \in [Atomic!Names -> Atomic!Inodes \cup {None}]
  BY <1>1 DEF Atomic!TypeOK, Atomic!Names
<1>4. Atomic!TypeOK'
  BY <1>1, <1>2, <1>3 DEF Atomic!TypeOK, Atomic!Phases, Atomic!Replacing
<1>5. Atomic!ClosedIsComplete' /\ Atomic!RenamedIsComplete'
  BY <1>1, <1>2, <1>3, SharedAssumption DEF Atomic!ClosedIsComplete, Atomic!RenamedIsComplete,
     Atomic!Complete, Atomic!Names, SharedAssumption, Atomic!ContentsDiffer, Atomic!Inodes
<1>6. ASSUME ~x7'
      PROVE  /\ (Atomic!WriterKnowsNames /\ Atomic!PartialIsCopied /\ Atomic!BackupIsKnown)'
             /\ Atomic!ContentSurvives'
  <2>1. Atomic!Complete("file")
    <3>1. x1["file"] # None
      BY <1>2, <1>6 DEF Atomic!WriterKnowsNames
    <3> QED BY <1>2, <1>6, <3>1, AtomicIsComplete DEF Atomic!Replacing, Atomic!Names
  <2>2. Atomic!Complete("file")'
    BY <1>1, <1>3, <2>1 DEF Atomic!Complete
  <2>3. \A v \in Actors : Atomic!Copied(v) # None
    BY SharedAssumption DEF SharedAssumption, Atomic!ContentsDiffer, Atomic!Inodes
  <2>4. Atomic!WriterKnowsNames'
    BY <1>1, <1>2, <1>3, <1>6, <2>3 DEF Atomic!WriterKnowsNames
  <2> QED BY <1>3, <2>2, <2>4 DEF Atomic!PartialIsCopied, Atomic!BackupIsKnown,
          Atomic!ContentSurvives, Atomic!Names
<1> QED BY <1>2, <1>4, <1>5, <1>6 DEF Atomic!ContentSurvives

LEMMA AtomicStep == Atomic!IInv /\ [Atomic!Next]_(Atomic!vars) => Atomic!IInv'
<1> SUFFICES ASSUME Atomic!IInv, [Atomic!Next]_(Atomic!vars) PROVE Atomic!IInv'
  OBVIOUS
<1>1. CASE Atomic!Next
  BY <1>1, AtomicWaits, AtomicCloses, AtomicRenames, AtomicMoves, AtomicOpensCopy, AtomicCopies,
     AtomicRemoves DEF Atomic!Next
<1>2. CASE UNCHANGED Atomic!vars
  BY <1>2 DEF Atomic!vars, Atomic!IInv, Atomic!TypeOK, Atomic!ClosedIsComplete,
     Atomic!RenamedIsComplete, Atomic!OneExposes, Atomic!Exposing, Atomic!WriterKnowsNames,
     Atomic!PartialIsCopied, Atomic!BackupIsKnown, Atomic!ContentSurvives, Atomic!Complete
<1> QED BY <1>1, <1>2

LEMMA AtomicLeavesNothing == Atomic!IInv => Atomic!ContentSurvives /\ Atomic!NothingIsLeftBehind
<1> SUFFICES ASSUME Atomic!IInv, ~x7, \A w \in Actors : x4[w] \in {"idle", "done"}
             PROVE  x3 = {} /\ x1["backup"] = None /\ (x2[Old] # None => Atomic!Complete("file"))
  BY DEF Atomic!IInv, Atomic!NothingIsLeftBehind
<1>1. x3 = {}
  BY DEF Atomic!IInv, Atomic!TypeOK
<1>2. x1["backup"] = None
  BY DEF Atomic!IInv, Atomic!BackupIsKnown
<1>3. x2[Old] # None => Atomic!Complete("file")
  BY <1>2 DEF Atomic!IInv, Atomic!ContentSurvives, Atomic!Complete
<1> QED BY <1>1, <1>2, <1>3
-------------------------------------------------------------------------------
(* 6. The composition of these.                                             *)

SharedInv ==
  /\ part = "runner" => Runner!IInv
  /\ part = "pex" => Archive!IInv
  /\ part = "move" => Moving!IInv
  /\ part = "jsonfile" => JsonFile!IInv
  /\ part = "atomic" => Atomic!IInv

LEMMA InitShared == SharedInit => SharedInv
BY RunnerInit, ArchiveInit, MoveInit, JsonInit, AtomicInit DEF SharedInit, SharedInv

LEMMA SharedStep == SharedInv /\ [SharedNext]_sharedVars => SharedInv'
<1> SUFFICES ASSUME SharedInv, [SharedNext]_sharedVars PROVE SharedInv'
  OBVIOUS
<1>1. part' = part
  BY DEF SharedNext, sharedVars, Keep
<1>2. CASE part = "runner"
  <2>1. [Runner!Next]_(Runner!vars)
    BY <1>2 DEF SharedNext, sharedVars, pool, Runner!vars
  <2> QED BY <1>1, <1>2, <2>1, RunnerStep DEF SharedInv
<1>3. CASE part = "pex"
  <2>1. [Archive!Next]_(Archive!vars)
    BY <1>3 DEF SharedNext, sharedVars, pool, Archive!vars
  <2> QED BY <1>1, <1>3, <2>1, ArchiveStep DEF SharedInv
<1>4. CASE part = "move"
  <2>1. [Moving!Next]_(Moving!vars)
    BY <1>4 DEF SharedNext, sharedVars, pool, Moving!vars
  <2> QED BY <1>1, <1>4, <2>1, MoveStep DEF SharedInv
<1>5. CASE part = "jsonfile"
  <2>1. [JsonFile!Next]_(JsonFile!vars)
    BY <1>5 DEF SharedNext, sharedVars, pool, JsonFile!vars
  <2> QED BY <1>1, <1>5, <2>1, JsonStep DEF SharedInv
<1>6. CASE part = "atomic"
  <2>1. [Atomic!Next]_(Atomic!vars)
    BY <1>6 DEF SharedNext, sharedVars, pool, Atomic!vars
  <2> QED BY <1>1, <1>6, <2>1, AtomicStep DEF SharedInv
<1>7. CASE part \notin {"runner", "pex", "move", "jsonfile", "atomic"}
  BY <1>1, <1>7 DEF SharedInv
<1> QED BY <1>2, <1>3, <1>4, <1>5, <1>6, <1>7

\* The pidfile names the one server, who is signalled is a server and gone when stop()
\* says so, and what a process unpacked is there as long as it runs: for any number of
\* processes.
THEOREM ProcessesTracked == SharedSpec => []ProcessesAreTracked
<1>1. SharedInv => ProcessesAreTracked
  BY RunnerKeepsPidfile, ArchiveKeepsDirectories DEF SharedInv, ProcessesAreTracked
<1> QED BY <1>1, InitShared, SharedStep, PTL DEF SharedSpec

\* A complete content is under one of the two names whoever is killed, each piece of what is
\* moved is at one of the places, and a lone handle loses no row: for any set of writers and
\* of handles.
THEOREM ContentsKept == SharedSpec => []FilesSurvive
<1>1. SharedInv => FilesSurvive
  BY AtomicLeavesNothing, JsonLosesNothing DEF SharedInv, FilesSurvive, Moving!IInv
<1> QED BY <1>1, InitShared, SharedStep, PTL DEF SharedSpec

-------------------------------------------------------------------------------
(* 7. Proxies, applications, databases and calls over HTTP: what             *)
(* SeparationProofs shows of each, for the parameters it has here; `Two' has *)
(* two databases with one entity.                                            *)

One == INSTANCE SeparationProofs WITH Objects <- Actors, MaxDepth <- 3,
  Loggers <- {"l"}, Configured <- {"app"}, MaxTime <- 3, MaxHandlers <- 3,
  Apps <- Actors, Names <- {"n1", "n2"}, Dbs <- {"d"}, Converters <- {"c"},
  class <- x1, func <- x2, lazy <- x3, cache <- x4, pc <- x5, asked <- x6, override <- x7,
  overlap <- x8, ref <- x9, stack <- x10, kin <- x11,
  file <- x1, now <- x2, env <- x3, app <- x4, config <- x5, lastLoad <- x6, stage <- x7,
  read <- x8, toInstall <- x9, root <- x10, levels <- x11, changed <- x12, outcome <- x13,
  entities <- x1, refs <- x2, origin <- x3, bound <- x4, members <- x5, failed <- x6, db <- x7,
  tables <- x8, converters <- x9, installed <- x10, got <- x11,
  routes <- x1, heap <- x2, resolved <- x3, phase <- x4, call <- x5, request <- x6,
  response <- x7, ran <- x8, end <- x9

\* The components of SeparationProofs are those of MCConcurrent.
LEMMA SameProxy ==
  /\ Proxy!vars = One!Proxy!vars
  /\ Proxy!Init <=> One!Proxy!Init
  /\ Proxy!Next <=> One!Proxy!Next
  /\ Proxy!OverrideIsPermanent <=> One!Proxy!OverrideIsPermanent
  /\ Proxy!LazyIsOne <=> One!Proxy!LazyIsOne
  /\ Proxy!StacksAreSeparate <=> One!Proxy!StacksAreSeparate
  /\ Proxy!ContextsAreNotNone <=> One!Proxy!ContextsAreNotNone
<1>1. Proxy!vars = One!Proxy!vars
  BY DEF Proxy!vars, One!Proxy!vars
<1>2. Proxy!Init <=> One!Proxy!Init
  BY DEF Proxy!Init, One!Proxy!Init
<1>3. Proxy!Next <=> One!Proxy!Next
  BY DEF Proxy!Next, Proxy!Get, Proxy!Store, Proxy!Bind, Proxy!SetLazy, Proxy!SetCache,
         Proxy!Called, Proxy!SetFunc, Proxy!Push, Proxy!Pop, Proxy!CopyContext, Proxy!Goto,
         Proxy!Computing, Proxy!stackVars, Proxy!List, Proxy!proxyVars, Proxy!Front,
         One!Proxy!Next, One!Proxy!Get, One!Proxy!Store, One!Proxy!Bind, One!Proxy!SetLazy,
         One!Proxy!SetCache, One!Proxy!Called, One!Proxy!SetFunc, One!Proxy!Push, One!Proxy!Pop,
         One!Proxy!CopyContext, One!Proxy!Goto, One!Proxy!Computing, One!Proxy!stackVars,
         One!Proxy!List, One!Proxy!proxyVars, One!Proxy!Front
<1>4. Proxy!OverrideIsPermanent <=> One!Proxy!OverrideIsPermanent
  BY DEF Proxy!OverrideIsPermanent, One!Proxy!OverrideIsPermanent
<1>5. Proxy!LazyIsOne <=> One!Proxy!LazyIsOne
  BY DEF Proxy!LazyIsOne, One!Proxy!LazyIsOne
<1>6. Proxy!StacksAreSeparate <=> One!Proxy!StacksAreSeparate
  BY DEF Proxy!StacksAreSeparate, Proxy!ToSet, One!Proxy!StacksAreSeparate, One!Proxy!ToSet
<1>7. Proxy!ContextsAreNotNone <=> One!Proxy!ContextsAreNotNone
  BY DEF Proxy!ContextsAreNotNone, One!Proxy!ContextsAreNotNone
<1> QED BY <1>1, <1>2, <1>3, <1>4, <1>5, <1>6, <1>7

LEMMA SameConfig ==
  /\ App!vars = One!App!vars
  /\ App!Init <=> One!App!Init
  /\ App!Next <=> One!App!Next
  /\ App!LoadedIsNotNewer <=> One!App!LoadedIsNotNewer
  /\ App!ChangedIsTold <=> One!App!ChangedIsTold
  /\ App!NoneIsNoTime <=> One!App!NoneIsNoTime
<1>1. App!vars = One!App!vars
  BY DEF App!vars, One!App!vars
<1>2. App!Init <=> One!App!Init
  BY DEF App!Init, One!App!Init
<1>3. App!Next <=> One!App!Next
  BY DEF App!Next, App!Edit, App!App, App!Reload, App!Read, App!Stat, App!Changed, App!Launch,
         App!Install, App!logVars, App!Kept, One!App!Next, One!App!Edit, One!App!App,
         One!App!Reload, One!App!Read, One!App!Stat, One!App!Changed, One!App!Launch,
         One!App!Install, One!App!logVars, One!App!Kept
<1>4. App!LoadedIsNotNewer <=> One!App!LoadedIsNotNewer
  BY DEF App!LoadedIsNotNewer, One!App!LoadedIsNotNewer
<1>5. App!ChangedIsTold <=> One!App!ChangedIsTold
  BY DEF App!ChangedIsTold, One!App!ChangedIsTold
<1>6. App!NoneIsNoTime <=> One!App!NoneIsNoTime
  BY DEF App!NoneIsNoTime, One!App!NoneIsNoTime
<1> QED BY <1>1, <1>2, <1>3, <1>4, <1>5, <1>6

LEMMA SameShared ==
  /\ Shared!vars = One!Orm!vars
  /\ Shared!Init <=> One!Orm!Init
  /\ Shared!Next <=> One!Orm!Next
  /\ Shared!InstancesAreOwn <=> One!Orm!InstancesAreOwn
  /\ Shared!InstalledOnce <=> One!Orm!InstalledOnce
  /\ Shared!NoneIsNotMade <=> One!Orm!NoneIsNotMade
<1>1. Shared!vars = One!Orm!vars
  BY DEF Shared!vars, One!Orm!vars
<1>2. Shared!Init <=> One!Orm!Init
  BY DEF Shared!Init, One!Orm!Init
<1>3. Shared!Next <=> One!Orm!Next
  BY DEF Shared!Next, Shared!Make, Shared!Declare, Shared!Instantiate, Shared!DropTable,
         Shared!Clone, Shared!BindTo, Shared!DropAllTables, Shared!RegisterConverter,
         Shared!Called, Shared!Declared, Shared!Resolved, Shared!BoundPart, Shared!Clash,
         Shared!ToSet, Shared!Of, One!Orm!Next, One!Orm!Make, One!Orm!Declare,
         One!Orm!Instantiate, One!Orm!DropTable, One!Orm!Clone, One!Orm!BindTo,
         One!Orm!DropAllTables, One!Orm!RegisterConverter, One!Orm!Called, One!Orm!Declared,
         One!Orm!Resolved, One!Orm!BoundPart, One!Orm!Clash, One!Orm!ToSet, One!Orm!Of
<1>4. Shared!InstancesAreOwn <=> One!Orm!InstancesAreOwn
  BY DEF Shared!InstancesAreOwn, Shared!Declared, Shared!Resolved, Shared!Of, Shared!ToSet,
         One!Orm!InstancesAreOwn, One!Orm!Declared, One!Orm!Resolved, One!Orm!Of, One!Orm!ToSet
<1>5. Shared!InstalledOnce <=> One!Orm!InstalledOnce
  BY DEF Shared!InstalledOnce, Shared!Cardinality, Shared!ToSet, One!Orm!InstalledOnce,
         One!Orm!Cardinality, One!Orm!ToSet
<1>6. Shared!NoneIsNotMade <=> One!Orm!NoneIsNotMade
  BY DEF Shared!NoneIsNotMade, One!Orm!NoneIsNotMade
<1> QED BY <1>1, <1>2, <1>3, <1>4, <1>5, <1>6

LEMMA SameRest ==
  /\ Rest!vars = One!Rest!vars
  /\ Rest!Init <=> One!Rest!Init
  /\ Rest!Next <=> One!Rest!Next
  /\ Rest!CallIsLocal <=> One!Rest!CallIsLocal
  /\ Rest!ErrorsAreTold <=> One!Rest!ErrorsAreTold
  /\ Rest!ResolvedOnce <=> One!Rest!ResolvedOnce
  /\ Rest!NamesAreKept <=> One!Rest!NamesAreKept
  /\ Rest!InterfacesAreSound <=> One!Rest!InterfacesAreSound
  /\ Rest!AnnotationsAreSound <=> One!Rest!AnnotationsAreSound
  /\ Rest!ValuesAreJson <=> One!Rest!ValuesAreJson
  /\ Rest!ExceptionsAreTheirs <=> One!Rest!ExceptionsAreTheirs
<1>1. Rest!vars = One!Rest!vars
  BY DEF Rest!vars, One!Rest!vars
<1>2. Rest!Init <=> One!Rest!Init
  BY DEF Rest!Init, Rest!MethodNames, One!Rest!Init, One!Rest!MethodNames
<1>3. Rest!Next <=> One!Rest!Next
  BY DEF Rest!Next, Rest!GetRoutes, Rest!GetRoutesAgain, Rest!Receive, Rest!Disconnect,
         Rest!MethodNames, Rest!ParamNames, Rest!Method, Rest!Dispatch, Rest!Results, Rest!Serve,
         Rest!ResolvingAll, Rest!Cardinality, Rest!Bodies, Rest!Id, Rest!Ended, Rest!Received,
         Rest!Accepts, Rest!Sent, Rest!Visited, Rest!Min, Rest!Bad, Rest!Range, Rest!Response,
         Rest!Failure, Rest!Called, Rest!Answer, Rest!Resolving, Rest!IsOwn, Rest!Value,
         Rest!Lacking, Rest!Given, Rest!Fits, Rest!Objects, Rest!ParamName, Rest!Dict, Rest!Visit,
         Rest!IndexOf, Rest!Fill, Rest!InPath, Rest!Max, Rest!At, Rest!Taken, Rest!Decode,
         Rest!Own, Rest!FillIn, Rest!ToSet, Rest!Defaults, One!Rest!Next, One!Rest!GetRoutes,
         One!Rest!GetRoutesAgain, One!Rest!Receive, One!Rest!Disconnect, One!Rest!MethodNames,
         One!Rest!ParamNames, One!Rest!Method, One!Rest!Dispatch, One!Rest!Results,
         One!Rest!Serve, One!Rest!ResolvingAll, One!Rest!Cardinality, One!Rest!Bodies,
         One!Rest!Id, One!Rest!Ended, One!Rest!Received, One!Rest!Accepts, One!Rest!Sent,
         One!Rest!Visited, One!Rest!Min, One!Rest!Bad, One!Rest!Range, One!Rest!Response,
         One!Rest!Failure, One!Rest!Called, One!Rest!Answer, One!Rest!Resolving, One!Rest!IsOwn,
         One!Rest!Value, One!Rest!Lacking, One!Rest!Given, One!Rest!Fits, One!Rest!Objects,
         One!Rest!ParamName, One!Rest!Dict, One!Rest!Visit, One!Rest!IndexOf, One!Rest!Fill,
         One!Rest!InPath, One!Rest!Max, One!Rest!At, One!Rest!Taken, One!Rest!Decode,
         One!Rest!Own, One!Rest!FillIn, One!Rest!ToSet, One!Rest!Defaults
<1>4. Rest!CallIsLocal <=> One!Rest!CallIsLocal
  BY DEF Rest!CallIsLocal, Rest!Method, Rest!Clash, Rest!Id, Rest!Value, Rest!Places, Rest!IsLast,
         Rest!WithDefault, Rest!Users, Rest!ParamOf, Rest!IsOwn, Rest!Before, Rest!InPath,
         Rest!ToSet, One!Rest!CallIsLocal, One!Rest!Method, One!Rest!Clash, One!Rest!Id,
         One!Rest!Value, One!Rest!Places, One!Rest!IsLast, One!Rest!WithDefault, One!Rest!Users,
         One!Rest!ParamOf, One!Rest!IsOwn, One!Rest!Before, One!Rest!InPath, One!Rest!ToSet
<1>5. Rest!ErrorsAreTold <=> One!Rest!ErrorsAreTold
  BY DEF Rest!ErrorsAreTold, One!Rest!ErrorsAreTold
<1>6. Rest!ResolvedOnce <=> One!Rest!ResolvedOnce
  BY DEF Rest!ResolvedOnce, Rest!ResolvingAll, Rest!Resolving, Rest!Fill, Rest!Id, Rest!IsOwn,
         Rest!Own, Rest!FillIn, Rest!InPath, Rest!Defaults, Rest!ToSet, One!Rest!ResolvedOnce,
         One!Rest!ResolvingAll, One!Rest!Resolving, One!Rest!Fill, One!Rest!Id, One!Rest!IsOwn,
         One!Rest!Own, One!Rest!FillIn, One!Rest!InPath, One!Rest!Defaults, One!Rest!ToSet
<1>7. Rest!NamesAreKept <=> One!Rest!NamesAreKept
  BY DEF Rest!NamesAreKept, Rest!ToSet, Rest!Id, Rest!IsOwn, Rest!Places, Rest!IsFirst,
         Rest!Users, Rest!ParamOf, Rest!InPath, Rest!Before, One!Rest!NamesAreKept,
         One!Rest!ToSet, One!Rest!Id, One!Rest!IsOwn, One!Rest!Places, One!Rest!IsFirst,
         One!Rest!Users, One!Rest!ParamOf, One!Rest!InPath, One!Rest!Before
<1>8. Rest!InterfacesAreSound <=> One!Rest!InterfacesAreSound
  BY DEF Rest!InterfacesAreSound, Rest!Sound, Rest!ToSet, One!Rest!InterfacesAreSound,
         One!Rest!Sound, One!Rest!ToSet
<1>9. Rest!AnnotationsAreSound <=> One!Rest!AnnotationsAreSound
  BY DEF Rest!AnnotationsAreSound, One!Rest!AnnotationsAreSound
<1>10. Rest!ValuesAreJson <=> One!Rest!ValuesAreJson
  BY DEF Rest!ValuesAreJson, One!Rest!ValuesAreJson
<1>11. Rest!ExceptionsAreTheirs <=> One!Rest!ExceptionsAreTheirs
  BY DEF Rest!ExceptionsAreTheirs, One!Rest!ExceptionsAreTheirs
<1> QED BY <1>1, <1>2, <1>3, <1>4, <1>5, <1>6, <1>7, <1>8, <1>9, <1>10, <1>11

Two == INSTANCE SeparationProofs WITH Objects <- Actors, MaxDepth <- 3,
  Loggers <- {"l"}, Configured <- {"app"}, MaxTime <- 3, MaxHandlers <- 3,
  Apps <- Actors, Names <- {"n"}, Dbs <- {"d1", "d2"}, Converters <- {"c"},
  class <- x1, func <- x2, lazy <- x3, cache <- x4, pc <- x5, asked <- x6, override <- x7,
  overlap <- x8, ref <- x9, stack <- x10, kin <- x11,
  file <- x1, now <- x2, env <- x3, app <- x4, config <- x5, lastLoad <- x6, stage <- x7,
  read <- x8, toInstall <- x9, root <- x10, levels <- x11, changed <- x12, outcome <- x13,
  entities <- x1, refs <- x2, origin <- x3, bound <- x4, members <- x5, failed <- x6, db <- x7,
  tables <- x8, converters <- x9, installed <- x10, got <- x11,
  routes <- x1, heap <- x2, resolved <- x3, phase <- x4, call <- x5, request <- x6,
  response <- x7, ran <- x8, end <- x9

LEMMA SameSeveral ==
  /\ Several!vars = Two!Orm!vars
  /\ Several!Init <=> Two!Orm!Init
  /\ Several!Next <=> Two!Orm!Next
  /\ Several!InstancesAreOwn <=> Two!Orm!InstancesAreOwn
  /\ Several!InstalledOnce <=> Two!Orm!InstalledOnce
  /\ Several!NoneIsNotMade <=> Two!Orm!NoneIsNotMade
<1>1. Several!vars = Two!Orm!vars
  BY DEF Several!vars, Two!Orm!vars
<1>2. Several!Init <=> Two!Orm!Init
  BY DEF Several!Init, Two!Orm!Init
<1>3. Several!Next <=> Two!Orm!Next
  BY DEF Several!Next, Several!Make, Several!Declare, Several!Instantiate, Several!DropTable,
         Several!Clone, Several!BindTo, Several!DropAllTables, Several!RegisterConverter,
         Several!Called, Several!Declared, Several!Resolved, Several!BoundPart, Several!Clash,
         Several!ToSet, Several!Of, Two!Orm!Next, Two!Orm!Make, Two!Orm!Declare,
         Two!Orm!Instantiate, Two!Orm!DropTable, Two!Orm!Clone, Two!Orm!BindTo,
         Two!Orm!DropAllTables, Two!Orm!RegisterConverter, Two!Orm!Called, Two!Orm!Declared,
         Two!Orm!Resolved, Two!Orm!BoundPart, Two!Orm!Clash, Two!Orm!ToSet, Two!Orm!Of
<1>4. Several!InstancesAreOwn <=> Two!Orm!InstancesAreOwn
  BY DEF Several!InstancesAreOwn, Several!Declared, Several!Resolved, Several!Of, Several!ToSet,
         Two!Orm!InstancesAreOwn, Two!Orm!Declared, Two!Orm!Resolved, Two!Orm!Of, Two!Orm!ToSet
<1>5. Several!InstalledOnce <=> Two!Orm!InstalledOnce
  BY DEF Several!InstalledOnce, Several!Cardinality, Several!ToSet, Two!Orm!InstalledOnce,
         Two!Orm!Cardinality, Two!Orm!ToSet
<1>6. Several!NoneIsNotMade <=> Two!Orm!NoneIsNotMade
  BY DEF Several!NoneIsNotMade, Two!Orm!NoneIsNotMade
<1> QED BY <1>1, <1>2, <1>3, <1>4, <1>5, <1>6

LEMMA AssumedOfThem ==
  /\ One!Proxy!ContextsAreNotNone /\ One!App!NoneIsNoTime
  /\ One!Orm!NoneIsNotMade /\ Two!Orm!NoneIsNotMade /\ One!RestIsSound
BY SharedAssumption, SameProxy, SameConfig, SameShared, SameSeveral, SameRest
   DEF SharedAssumption, One!RestIsSound

\* The invariants with which SeparationProofs proves its theorems.
SeparateInv ==
  /\ part = "proxy" => One!Proxy!IInv
  /\ part = "appconfig" => One!App!IInv
  /\ part = "onedb" => One!Orm!IInv
  /\ part = "twodbs" => Two!Orm!IInv
  /\ part = "rest" => One!Rest!IInv

LEMMA SeparateInit == SharedInit => SeparateInv
<1> SUFFICES ASSUME SharedInit PROVE SeparateInv
  OBVIOUS
<1>1. CASE part = "proxy"
  BY <1>1, AssumedOfThem, SameProxy, One!ProxyInit DEF SharedInit, SeparateInv
<1>2. CASE part = "appconfig"
  BY <1>2, AssumedOfThem, SameConfig, One!AppConfigInit DEF SharedInit, SeparateInv
<1>3. CASE part = "onedb"
  BY <1>3, AssumedOfThem, SameShared, One!AppsInit DEF SharedInit, SeparateInv
<1>4. CASE part = "twodbs"
  BY <1>4, AssumedOfThem, SameSeveral, Two!AppsInit DEF SharedInit, SeparateInv
<1>5. CASE part = "rest"
  BY <1>5, AssumedOfThem, SameRest, One!RestInit DEF SharedInit, SeparateInv
<1> QED BY <1>1, <1>2, <1>3, <1>4, <1>5 DEF SeparateInv

LEMMA SeparateStep == SeparateInv /\ [SharedNext]_sharedVars => SeparateInv'
<1> SUFFICES ASSUME SeparateInv, [SharedNext]_sharedVars PROVE SeparateInv'
  OBVIOUS
<1>1. part' = part
  BY DEF SharedNext, sharedVars, Keep
<1>2. CASE part = "proxy"
  <2>1. [Proxy!Next]_(Proxy!vars)
    BY <1>2 DEF SharedNext, sharedVars, pool, Proxy!vars
  <2>2. [One!Proxy!Next]_(One!Proxy!vars)
    BY <2>1, SameProxy DEF Proxy!vars, One!Proxy!vars
  <2> QED BY <1>1, <1>2, <2>2, AssumedOfThem, One!ProxyKeeps DEF SeparateInv
<1>3. CASE part = "appconfig"
  <2>1. [App!Next]_(App!vars)
    BY <1>3 DEF SharedNext, sharedVars, pool, App!vars
  <2>2. [One!App!Next]_(One!App!vars)
    BY <2>1, SameConfig DEF App!vars, One!App!vars
  <2> QED BY <1>1, <1>3, <2>2, AssumedOfThem, One!AppConfigKeeps DEF SeparateInv
<1>4. CASE part = "onedb"
  <2>1. [Shared!Next]_(Shared!vars)
    BY <1>4 DEF SharedNext, sharedVars, pool, Shared!vars
  <2>2. [One!Orm!Next]_(One!Orm!vars)
    BY <2>1, SameShared DEF Shared!vars, One!Orm!vars
  <2> QED BY <1>1, <1>4, <2>2, AssumedOfThem, One!AppsStep DEF SeparateInv
<1>5. CASE part = "twodbs"
  <2>1. [Several!Next]_(Several!vars)
    BY <1>5 DEF SharedNext, sharedVars, pool, Several!vars
  <2>2. [Two!Orm!Next]_(Two!Orm!vars)
    BY <2>1, SameSeveral DEF Several!vars, Two!Orm!vars
  <2> QED BY <1>1, <1>5, <2>2, AssumedOfThem, Two!AppsStep DEF SeparateInv
<1>6. CASE part = "rest"
  <2>1. [Rest!Next]_(Rest!vars)
    BY <1>6 DEF SharedNext, sharedVars, pool, Rest!vars
  <2>2. [One!Rest!Next]_(One!Rest!vars)
    BY <2>1, SameRest DEF Rest!vars, One!Rest!vars
  <2> QED BY <1>1, <1>6, <2>2, AssumedOfThem, One!RestStep DEF SeparateInv
<1>7. CASE part \notin {"proxy", "appconfig", "onedb", "twodbs", "rest"}
  BY <1>1, <1>7 DEF SeparateInv
<1> QED BY <1>2, <1>3, <1>4, <1>5, <1>6, <1>7

LEMMA SeparateMeans == SeparateInv => CallsAreSeparate
<1> SUFFICES ASSUME SeparateInv PROVE CallsAreSeparate
  OBVIOUS
<1>1. part = "proxy" => Proxy!OverrideIsPermanent /\ Proxy!LazyIsOne /\ Proxy!StacksAreSeparate
  BY SameProxy, One!ProxyMeans DEF SeparateInv
<1>2. part = "appconfig" => App!LoadedIsNotNewer /\ App!ChangedIsTold
  BY SameConfig, One!AppConfigMeans DEF SeparateInv
<1>3. part = "onedb" => Shared!InstancesAreOwn /\ Shared!InstalledOnce
  BY SameShared, AssumedOfThem, One!InvMeansInstancesAreOwn, One!InvMeansInstalledOnce DEF SeparateInv
<1>4. part = "twodbs" => Several!InstancesAreOwn /\ Several!InstalledOnce
  BY SameSeveral, AssumedOfThem, Two!InvMeansInstancesAreOwn, Two!InvMeansInstalledOnce DEF SeparateInv
<1>5. part = "rest" => Rest!CallIsLocal /\ Rest!ErrorsAreTold /\ Rest!ResolvedOnce /\ Rest!NamesAreKept
  BY SameRest, AssumedOfThem, One!InvMeansCallIsLocal, One!InvMeansErrorsAreTold,
     One!InvMeansResolvedOnce, One!InvMeansNamesAreKept DEF SeparateInv
<1> QED BY <1>1, <1>2, <1>3, <1>4, <1>5 DEF CallsAreSeparate

\* The object of one's own stack, the instance of one's own application's entity, the answer
\* to one's own call and the configuration that is in the file: for any number of threads, of
\* contexts, and of applications that share a database (what SeparationProofs leaves open is
\* more: entities, databases, interfaces, values).
THEOREM CallsStaySeparate == SharedSpec => []CallsAreSeparate
BY SeparateInit, SeparateStep, SeparateMeans, PTL DEF SharedSpec
===============================================================================
