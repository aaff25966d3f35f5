---------------------------- MODULE ServerCache ----------------------------
(***************************************************************************)
(* What RouterDb promises to the callers that route by it: the lists of    *)
(* all services change in one step, by one list of one service that consul *)
(* held when it was fetched, and by nothing else.  The steps of            *)
(* updateServers (copy, erase, insert, store) cannot be seen.              *)
(***************************************************************************)
CONSTANTS
  Services, Names, Keys, List,
  Empty,             \* a list of no servers
  PartitionKeys(_),  \* the keys of a service that an update erases first
  NewLists(_, _)     \* the lists that a list of a service gives

VARIABLES
  node,     \* consul: the nodes of each service
  pending,  \* of each service: lists that were read and may yet be stored
  services  \* the cache

Init ==
  /\ node \in [Services -> List]
  /\ pending = [s \in Services |-> {}]
  /\ services = [k \in Keys |-> {}]

\* Servers write their nodes, or their TTL runs out.
Change == node' \in [Services -> List] /\ UNCHANGED <<pending, services>>

Fetch(s) ==
  /\ pending' = [pending EXCEPT ![s] = @ \cup {node[s]}]
  /\ UNCHANGED <<node, services>>

\* An answer without servers, or with an index already seen.
Drop(s, list) ==
  /\ pending' = [pending EXCEPT ![s] = @ \ {list}]
  /\ UNCHANGED <<node, services>>

\* The lists after an update: a key without a new list loses its old one when
\* it is a partition of the service, and keeps it otherwise.
Updated(s, list) ==
  LET new == NewLists(s, list) IN
  [k \in Keys |-> IF new[k] # {} THEN new[k] ELSE IF k \in PartitionKeys(s) THEN {} ELSE services[k]]

\* The list may have been fetched more than once.
Apply(s, list) ==
  /\ list \in pending[s] /\ list # Empty
  /\ services' = Updated(s, list)
  /\ pending' \in {pending, [pending EXCEPT ![s] = @ \ {list}]}
  /\ UNCHANGED node

Next ==
  \/ Change
  \/ \E s \in Services : Fetch(s)
  \/ \E s \in Services, list \in List : Drop(s, list) \/ Apply(s, list)

Spec == Init /\ [][Next]_<<node, pending, services>>
=============================================================================
