----------------------------- MODULE JsonFileStore -----------------------------
(***************************************************************************)
(* nr.caching: JsonFileStore, the store of one namespace in a JSON file.   *)
(* Every call of namespace() makes a handle with a copy of the file of its *)
(* own; the process that has the handles may be killed.  One thread: a     *)
(* call is a step, but for the save, which a kill may cut in two.          *)
(***************************************************************************)
EXTENDS Naturals, Functions, FiniteSets

CONSTANTS Handles, Keys, Values,
  Lifetimes,         \* values of expires_in, None among them
  MaxTime,           \* bound on the clock
  None, Unread, Broken

VARIABLES
  file,      \* a mapping of keys to rows, None (no file) or Broken (truncated)
  values,    \* per handle: _values, Unread, or None when there is no handle
  saving,    \* the handle in _save(), after the truncation, or None
  now,
  stored,    \* history: the row of the last completed store() of each key
  shared     \* history: two handles were there at once

vars == <<file, values, saving, now, stored, shared>>

NoRows == Restrict([k \in Keys |-> 0], {})
Row(v, life) == [val |-> v, exp |-> IF life = None THEN None ELSE now + life]
Expired(row) == row.exp # None /\ row.exp < now
Fresh(rows) == Restrict(rows, {k \in DOMAIN rows : ~Expired(rows[k])})
Put(rows, k, row) == [x \in DOMAIN rows \cup {k} |-> IF x = k THEN row ELSE rows[x]]

Init ==
  /\ file = None /\ values = [h \in Handles |-> None] /\ saving = None
  /\ now = 0 /\ stored = NoRows /\ shared = FALSE

\* namespace() and the JsonFileStore that it makes.
Open(h) ==
  /\ values[h] = None /\ saving = None
  /\ values' = [values EXCEPT ![h] = Unread]
  /\ shared' = (shared \/ \E g \in Handles : values[g] # None)
  /\ UNCHANGED <<file, saving, now, stored>>

\* _get_values(); json.load() raises on a file that was truncated.
GetValues(h) ==
  IF values[h] # Unread THEN values[h] ELSE IF file = None THEN NoRows ELSE file
Ready(h) == values[h] # None /\ saving = None /\ GetValues(h) # Broken

\* load() forgets an expired row, in memory only.
Load(h, k) ==
  /\ Ready(h)
  /\ LET rows == GetValues(h) IN
     values' = [values EXCEPT ![h] =
       IF k \in DOMAIN rows /\ Expired(rows[k]) THEN Restrict(rows, DOMAIN rows \ {k}) ELSE rows]
  /\ UNCHANGED <<file, saving, now, stored, shared>>

\* store(), and __setitem__ of a MappingAdapter with no lifetime, changes the copy and
\* truncates the file, ...
Store(h, k, v, life) ==
  /\ Ready(h)
  /\ values' = [values EXCEPT ![h] = Put(GetValues(h), k, Row(v, life))]
  /\ stored' = Put(stored, k, Row(v, life))
  /\ file' = Broken /\ saving' = h
  /\ UNCHANGED <<now, shared>>

Expunge(h) ==
  /\ Ready(h)
  /\ LET rows == GetValues(h) IN
     /\ values' = [values EXCEPT ![h] = Fresh(rows)]
     /\ IF Fresh(rows) # rows THEN file' = Broken /\ saving' = h ELSE UNCHANGED <<file, saving>>
  /\ UNCHANGED <<now, stored, shared>>

\* ... then writes it.
Save ==
  /\ saving # None
  /\ file' = values[saving] /\ saving' = None
  /\ UNCHANGED <<values, now, stored, shared>>

\* JsonDirectoryStore.expunge() uses a handle of its own for each file.
ExpungeAll ==
  /\ saving = None /\ file \notin {None, Broken}
  /\ file' = Fresh(file)
  /\ UNCHANGED <<values, saving, now, stored, shared>>

Kill ==
  /\ values' = [h \in Handles |-> None] /\ saving' = None
  /\ \E h \in Handles : values[h] # None
  /\ UNCHANGED <<file, now, stored, shared>>

Tick ==
  /\ now < MaxTime /\ saving = None /\ now' = now + 1
  /\ UNCHANGED <<file, values, saving, stored, shared>>

Next ==
  \/ \E h \in Handles : Open(h) \/ Expunge(h)
  \/ \E h \in Handles, k \in Keys : Load(h, k)
  \/ \E h \in Handles, k \in Keys, v \in Values, life \in Lifetimes : Store(h, k, v, life)
  \/ Save \/ ExpungeAll \/ Kill \/ Tick

Spec == Init /\ [][Next]_vars

-------------------------------------------------------------------------------
\* A namespace that is used through one handle at a time loses nothing that was stored
\* and has not expired, over any number of restarts, unless a save was cut short
\* (jsondirectory.py:21, 46, 55).
LoneHandleLosesNothing ==
  ~shared /\ file # Broken =>
    \A k \in DOMAIN Fresh(stored) :
      /\ file # None /\ k \in DOMAIN file /\ file[k] = stored[k]
      /\ \A h \in Handles : Ready(h) =>
           k \in DOMAIN GetValues(h) /\ GetValues(h)[k] = stored[k]
-------------------------------------------------------------------------------
(* The inductive invariant.                                                 *)

Expiries == {None} \cup {t + life : t \in 0 .. MaxTime, life \in Lifetimes \ {None}}
ARow == [val : Values, exp : Expiries]
Rows == UNION {[ks -> ARow] : ks \in SUBSET Keys}

\* What is not a mapping of rows is told apart.
RowsDiffer ==
  /\ MaxTime \in Nat /\ Lifetimes \ {None} \subseteq Nat /\ None \notin Handles
  /\ None \notin Rows /\ Unread \notin Rows /\ Broken \notin Rows
  /\ None # Unread /\ None # Broken /\ Unread # Broken

TypeOK ==
  /\ file \in Rows \cup {None, Broken}
  /\ values \in [Handles -> Rows \cup {None, Unread}]
  /\ saving \in Handles \cup {None}
  /\ saving # None => values[saving] \in Rows /\ file = Broken
  /\ now \in 0 .. MaxTime
  /\ stored \in Rows
  /\ shared \in BOOLEAN

\* A file that was cut short is never read.
BrokenIsNotRead == file = Broken /\ saving = None => \A h \in Handles : values[h] \in {None, Unread}

OneHandle == \A g, h \in Handles : values[g] # None /\ values[h] # None => g = h

\* rows have what was stored last of all keys that have not expired.
Covers(rows) == \A k \in DOMAIN Fresh(stored) : k \in DOMAIN rows /\ rows[k] = stored[k]

NothingIsMissing ==
  /\ file = None => DOMAIN Fresh(stored) = {}
  /\ file \in Rows => Covers(file)
  /\ \A h \in Handles : values[h] \in Rows => Covers(values[h])

IInv == TypeOK /\ (~shared => BrokenIsNotRead /\ OneHandle /\ NothingIsMissing)
===============================================================================
