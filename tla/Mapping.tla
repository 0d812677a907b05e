-------------------------------- MODULE Mapping --------------------------------
(***************************************************************************)
(* What a mutable mapping promises, with no word on how it is stored: the  *)
(* mapping itself and what the last call returned.  copy() is weaker than  *)
(* one would expect: the copy may know more keys.                          *)
(***************************************************************************)
EXTENDS Functions

CONSTANTS Keys, Vals, KeyError, Nothing

VARIABLES mapping, ret

Mappings == UNION {[K -> Vals] : K \in SUBSET Keys}
Has(k) == k \in DOMAIN mapping
With(k, v) == [x \in DOMAIN mapping \cup {k} |-> IF x = k THEN v ELSE mapping[x]]
Without(k) == Restrict(mapping, DOMAIN mapping \ {k})

Init == mapping \in Mappings /\ ret = Nothing

Get(k) ==
  /\ ret' = IF Has(k) THEN mapping[k] ELSE KeyError
  /\ UNCHANGED mapping

Set(k, v) == mapping' = With(k, v) /\ ret' = Nothing

\* del and pop(): an error changes nothing.
Remove(k, r) ==
  \/ Has(k) /\ mapping' = Without(k) /\ ret' = r
  \/ ~Has(k) /\ UNCHANGED mapping /\ ret' = KeyError

Pop(k) == Remove(k, IF Has(k) THEN mapping[k] ELSE KeyError)

PopItem ==
  \/ \E k \in DOMAIN mapping : mapping' = Without(k) /\ ret' = <<k, mapping[k]>>
  \/ DOMAIN mapping = {} /\ UNCHANGED mapping /\ ret' = KeyError

SetDefault(k, v) ==
  IF Has(k) THEN UNCHANGED mapping /\ ret' = mapping[k]
            ELSE mapping' = With(k, v) /\ ret' = v

Update(e) ==
  /\ mapping' = [k \in DOMAIN mapping \cup DOMAIN e |->
                   IF k \in DOMAIN e THEN e[k] ELSE mapping[k]]
  /\ ret' = Nothing

Clear == mapping' = Restrict(mapping, {}) /\ ret' = Nothing

Items == ret' = mapping /\ UNCHANGED mapping

Copy ==
  /\ mapping' \in Mappings
  /\ Restrict(mapping', DOMAIN mapping) = mapping /\ DOMAIN mapping \subseteq DOMAIN mapping'
  /\ ret' = Nothing

Next ==
  \/ \E k \in Keys : Get(k) \/ Remove(k, Nothing) \/ Pop(k)
  \/ \E k \in Keys, v \in Vals : Set(k, v) \/ SetDefault(k, v)
  \/ \E e \in Mappings : Update(e)
  \/ PopItem \/ Clear \/ Items \/ Copy

Spec == Init /\ [][Next]_<<mapping, ret>>
================================================================================
