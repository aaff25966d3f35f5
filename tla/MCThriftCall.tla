--------------------------- MODULE MCThriftCall ---------------------------
(* Small instances of ThriftCall for TLC. *)
EXTENDS ThriftCall

CONSTANTS h1, h2

Node(h, p, w, ip, idc) == [host |-> h, port |-> p, weight |-> w, ip |-> ip, idc |-> idc]
Option(method, edge) == [method |-> method, edge |-> edge, target |-> NoAddress]

\* Two servers on one machine, their ports as far apart as the pool has
\* connections per server; the cache sees them come, change weight and go.
OneHost ==
  [edge  |-> {NoList, <<Node(h1, 10, 2, 7, "x"), Node(h1, 12, 1, 7, "x")>>},
   shard |-> {NoList, <<Node(h1, 10, 1, 7, "x"), Node(h1, 12, 3, 7, "x")>>}]

\* Servers on two machines, one of them without a usable address.
TwoHosts ==
  [edge  |-> {NoList, <<Node(h1, 10, 2, 7, "x"), Node(h1, 12, 1, 0, "y"), Node(h2, 10, 2, 9, "y")>>},
   shard |-> {NoList, <<Node(h2, 10, 1, 9, "y"), Node(h1, 10, 3, 7, "x")>>,
              <<Node(h1, 10, 2, 7, "x"), Node(h1, 12, 1, 0, "y"), Node(h2, 10, 2, 9, "y")>>}]

\* A server leaves and one of a smaller weight is left.
Shrinks ==
  [edge  |-> {NoList},
   shard |-> {<<Node(h1, 10, 2, 7, "x"), Node(h1, 12, 1, 7, "x")>>, <<Node(h1, 12, 1, 7, "x")>>}]

\* Adjacent ports on one machine.
Adjacent ==
  [edge |-> {NoList}, shard |-> {<<Node(h1, 10, 1, 7, "x"), Node(h1, 11, 1, 7, "x")>>}]

\* The weight of the last of three servers is not a multiple of the others'.
LastIsLight ==
  [edge  |-> {NoList},
   shard |-> {<<Node(h1, 10, 2, 7, "x"), Node(h1, 12, 2, 7, "x"), Node(h2, 10, 1, 9, "x")>>}]

\* The second of two servers is given no traffic.
ZeroWeight ==
  [edge |-> {NoList}, shard |-> {<<Node(h1, 10, 1, 7, "x"), Node(h1, 12, 0, 7, "x")>>}]

RandomOnly == {Option("random", FALSE)}
WeightOnly == {Option("configurable_weight", FALSE)}

SomeMethods ==
  { Option("roundrobin", FALSE), Option("configurable_weight", TRUE), Option("random", FALSE),
    [Option("random", FALSE) EXCEPT !.target = [host |-> h1, port |-> 10]] }

AllMethods ==
  SomeMethods \cup { Option(m, e) : e \in BOOLEAN,
      m \in {"local_first", "idc_first", "iprange_first", "static_weight"} }
=============================================================================
