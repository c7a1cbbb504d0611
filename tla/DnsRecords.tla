------------------------------ MODULE DnsRecords ------------------------------
(***************************************************************************)
(* What the DNS client promises its callers: a domain is a set of records, *)
(* one call adds one record at a free name or removes the records it was   *)
(* asked to remove, in one step, and leaves every other record alone.      *)
(***************************************************************************)
CONSTANTS Names, Values

VARIABLE zone

Records == [name: Names, value: Values]

Init == zone \subseteq Records

(* A name that is taken is refused, never overwritten.                     *)
Add(r) ==
  /\ \A s \in zone : s.name # r.name
  /\ zone' = zone \cup {r}

Remove(n, V) ==
  zone' = {r \in zone : r.name # n \/ r.value \notin V}

Next ==
  \/ \E r \in Records : Add(r)
  \/ \E n \in Names, V \in SUBSET Values : Remove(n, V)

Spec == Init /\ [][Next]_zone

=============================================================================
