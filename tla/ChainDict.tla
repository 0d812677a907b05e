------------------------------- MODULE ChainDict -------------------------------
(***************************************************************************)
(* nr.collections: ChainDict, a mapping that is stored as a dictionary to  *)
(* write to, dictionaries to look further in, and the keys that were       *)
(* deleted.  The order of a dictionary is abstracted: popitem() may take   *)
(* any key of the dictionary it takes one from.                            *)
(***************************************************************************)
EXTENDS Naturals, Sequences, Functions, FiniteSetsExt

CONSTANTS Keys, Vals, KeyError, Nothing,
  Depth      \* how many dictionaries there are behind the first

VARIABLES
  major,     \* _major, the first dictionary
  others,    \* the rest of _dicts, never written
  deleted,   \* _deleted
  ret        \* what the last call returned or raised

vars == <<major, others, deleted, ret>>

DepthIsNumber == Depth \in Nat

Mappings == UNION {[K -> Vals] : K \in SUBSET Keys}
Dicts == <<major>> \o others

\* Keys from which a new chain starts: __init__ deletes none of them.
Init ==
  /\ major \in Mappings /\ others \in [1 .. Depth -> Mappings]
  /\ deleted = {} /\ ret = Nothing

-------------------------------------------------------------------------------
\* Reading: the first dictionary that has the key, unless it is deleted.

Having(k) == {i \in DOMAIN Dicts : k \in DOMAIN Dicts[i]}
Contains(k) == k \notin deleted /\ Having(k) # {}
Lookup(k) == Dicts[Min(Having(k))][k]
KeySet == (UNION {DOMAIN Dicts[i] : i \in DOMAIN Dicts}) \ deleted
Contents == [k \in KeySet |-> Lookup(k)]

Get(k) ==
  /\ ret' = IF Contains(k) THEN Lookup(k) ELSE KeyError
  /\ UNCHANGED <<major, others, deleted>>

Items == ret' = Contents /\ UNCHANGED <<major, others, deleted>>

-------------------------------------------------------------------------------
\* Writing: to the first dictionary and to the deleted keys.

Put(d, k, v) == [x \in DOMAIN d \cup {k} |-> IF x = k THEN v ELSE d[x]]
Drop(d, k) == Restrict(d, DOMAIN d \ {k})

\* Mutant: a key that is set again stays deleted.
SetKeepsDeleted(k, v) ==
  major' = Put(major, k, v) /\ ret' = Nothing /\ UNCHANGED <<others, deleted>>

Set(k, v) ==
  /\ major' = Put(major, k, v) /\ deleted' = deleted \ {k}
  /\ ret' = Nothing /\ UNCHANGED others

\* `del' and pop(): the two differ in what they return.
Remove(k, r) ==
  \/ /\ Contains(k)
     /\ major' = Drop(major, k) /\ deleted' = deleted \cup {k}
     /\ ret' = r /\ UNCHANGED others
  \/ ~Contains(k) /\ ret' = KeyError /\ UNCHANGED <<major, others, deleted>>

Delete(k) == Remove(k, Nothing)
Pop(k) == Remove(k, IF Contains(k) THEN Lookup(k) ELSE KeyError)

PopMajor(k) ==
  /\ k \in DOMAIN major
  /\ major' = Drop(major, k) /\ deleted' = deleted \cup {k}
  /\ ret' = <<k, major[k]>> /\ UNCHANGED others

\* _major is empty: the first dictionary with a key that is left.
PopOther(k) ==
  /\ DOMAIN major = {}
  /\ Contains(k)
  /\ \A i \in 1 .. Min(Having(k)) - 1 : DOMAIN Dicts[i] \subseteq deleted
  /\ deleted' = deleted \cup {k}
  /\ ret' = <<k, Lookup(k)>> /\ UNCHANGED <<major, others>>

PopEmpty ==
  /\ DOMAIN major = {} /\ KeySet = {}
  /\ ret' = KeyError /\ UNCHANGED <<major, others, deleted>>

SetDefault(k, v) ==
  \/ Contains(k) /\ ret' = Lookup(k) /\ UNCHANGED <<major, others, deleted>>
  \/ /\ ~Contains(k)
     /\ major' = Put(major, k, v) /\ deleted' = deleted \ {k}
     /\ ret' = v /\ UNCHANGED others

Update(e) ==
  /\ major' = [k \in DOMAIN major \cup DOMAIN e |-> IF k \in DOMAIN e THEN e[k] ELSE major[k]]
  /\ deleted' = deleted \ DOMAIN e
  /\ ret' = Nothing /\ UNCHANGED others

\* _major is emptied first, so keys() then yields those of the others.
Clear ==
  /\ major' = Restrict(major, {})
  /\ deleted' = deleted \cup UNION {DOMAIN others[i] : i \in DOMAIN others}
  /\ ret' = Nothing /\ UNCHANGED others

\* The caller goes on with a copy.  It has the same dictionaries, but no deletions.
Copy == deleted' = {} /\ ret' = Nothing /\ UNCHANGED <<major, others>>

Next ==
  \/ \E k \in Keys : Get(k) \/ Delete(k) \/ Pop(k) \/ PopMajor(k) \/ PopOther(k)
  \/ \E k \in Keys, v \in Vals : Set(k, v) \/ SetDefault(k, v)
  \/ \E e \in Mappings : Update(e)
  \/ Items \/ PopEmpty \/ Clear \/ Copy

Spec == Init /\ [][Next]_vars

-------------------------------------------------------------------------------
\* What is written is not deleted: every call that deletes a key also takes it out
\* of the dictionary that is written to.
WrittenIsNotDeleted == DOMAIN major \cap deleted = {}

\* Dictionaries from keys to values, and the keys that were deleted are keys.
TypeOK ==
  /\ major \in Mappings /\ others \in [1 .. Depth -> Mappings]
  /\ deleted \subseteq Keys
IInv == TypeOK /\ WrittenIsNotDeleted
================================================================================
