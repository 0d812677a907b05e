------------------------------- MODULE OrderedSet ------------------------------
(***************************************************************************)
(* nr.collections: OrderedSet, a deque beside a dictionary with the index  *)
(* of each key.  What takes a key from anywhere but the end leaves the     *)
(* indices of the keys behind it as they were.                             *)
(***************************************************************************)
EXTENDS Naturals, Sequences, FiniteSets, SequencesExt, Functions

CONSTANTS Keys,
  MaxLength     \* bound on the length of the content

VARIABLES
  index,     \* _index_map
  content,   \* _content
  shifted,   \* history: a key was taken that was not the last
  failed     \* history: a call raised with half of its work done

vars == <<index, content, shifted, failed>>

Init == index = Restrict([k \in Keys |-> 0], {}) /\ content = <<>> /\ shifted = FALSE /\ failed = FALSE

Known == DOMAIN index
Forget(k) == Restrict(index, Known \ {k})

\* update() is this, key by key; so are __init__ and copy().
Add(k) ==
  /\ k \notin Known /\ Len(content) < MaxLength
  /\ index' = [x \in Known \cup {k} |-> IF x = k THEN Len(content) ELSE index[x]]
  /\ content' = Append(content, k)
  /\ UNCHANGED <<shifted, failed>>

\* Mutant: the key stays in the index.
DiscardHalf(k) ==
  /\ k \in Known /\ index[k] < Len(content)
  /\ content' = RemoveAt(content, index[k] + 1)
  /\ shifted' = (shifted \/ index[k] + 1 # Len(content))
  /\ UNCHANGED <<index, failed>>

Discard(k) ==
  /\ k \in Known /\ index[k] < Len(content)
  /\ index' = Forget(k)
  /\ content' = RemoveAt(content, index[k] + 1)
  /\ shifted' = (shifted \/ index[k] + 1 # Len(content))
  /\ UNCHANGED failed

\* The index is past the end: IndexError, after the key has left the index.
DiscardFails(k) ==
  /\ k \in Known /\ index[k] >= Len(content)
  /\ index' = Forget(k) /\ failed' = TRUE
  /\ UNCHANGED <<content, shifted>>

PopLast ==
  /\ content # <<>>
  /\ content' = Front(content) /\ index' = Forget(Last(content))
  /\ failed' = (failed \/ Last(content) \notin Known)
  /\ UNCHANGED shifted

PopFirst ==
  /\ content # <<>>
  /\ content' = Tail(content) /\ index' = Forget(Head(content))
  /\ failed' = (failed \/ Head(content) \notin Known)
  /\ shifted' = (shifted \/ Len(content) > 1)

\* The copy is built from the content, where a key may stand twice by now.
Once(s, k) == IF k \in ToSet(s) THEN s ELSE Append(s, k)
Added(s) == LET c[n \in 0 .. Len(s)] == IF n = 0 THEN <<>> ELSE Once(c[n - 1], s[n]) IN c
Positions(s) == [k \in ToSet(s) |-> (CHOOSE i \in DOMAIN s : s[i] = k) - 1]

Copy ==
  /\ content' = Added(content)[Len(content)]
  /\ index' = Positions(content')
  /\ shifted' = FALSE /\ failed' = FALSE

Next ==
  \/ \E k \in Keys : Add(k) \/ Discard(k) \/ DiscardFails(k)
  \/ PopLast \/ PopFirst \/ Copy

Spec == Init /\ [][Next]_vars
-------------------------------------------------------------------------------
TypeOK ==
  /\ Known \subseteq Keys /\ \A k \in Known : index[k] \in 0 .. MaxLength - 1
  /\ content \in BoundedSeq(Keys, MaxLength)
  /\ {shifted, failed} \subseteq BOOLEAN

\* As long as keys leave at the end only, the two structures say the same.
IndexIsPosition == ~shifted /\ ~failed => index = Positions(content)

\* discard() may take another key than it was asked to (orderedset.py:82), but as long
\* as no call has raised, len() is the number of keys for which `in' is true.
SizesAgree == ~failed => Len(content) = Cardinality(Known)

\* The inductive invariant: as long as keys leave at the end only, none stands twice.
NoneTwice(s) == \A i, j \in DOMAIN s : s[i] = s[j] => i = j
IInv ==
  /\ TypeOK /\ IsFiniteSet(Known)
  /\ IndexIsPosition /\ SizesAgree
  /\ ~shifted /\ ~failed => NoneTwice(content)
================================================================================
