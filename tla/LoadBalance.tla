---------------------------- MODULE LoadBalance ----------------------------
(***************************************************************************)
(* The strategies of service_router/load_balance.cc: which server of a     *)
(* list a call goes to.  A strategy without memory is the set of servers   *)
(* it may return; round robin and the configurable weights also carry a    *)
(* state from one selection to the next.                                   *)
(*                                                                         *)
(* A list is a sequence of entries as RouterDb keeps them; no list here is *)
(* empty (every select returns false at once on an empty one).  Host       *)
(* addresses are numbers less than 2^31 apart, 0 for one that could not be *)
(* parsed.                                                                 *)
(***************************************************************************)
EXTENDS Integers, Sequences, FiniteSets, FiniteSetsExt

Entries(servers) == {servers[i] : i \in DOMAIN servers}

AddressOf(s) == [host |-> s.host, port |-> s.port]

AnyOf(S, servers) == IF S = {} THEN Entries(servers) ELSE S

---------------------------------------------------------------------------
(* Strategies without memory *)

RandomSelect(servers) == Entries(servers)

IdcFirstSelect(servers, idc) ==
  AnyOf({s \in Entries(servers) : idc # "" /\ s.idc = idc}, servers)

Near(servers, local_ip, range) ==
  {s \in Entries(servers) : s.ip # 0 /\ s.ip - local_ip \in -range .. range}

IpRangeFirstSelect(servers, local_ip, range) ==
  AnyOf(Near(servers, local_ip, range), servers)

LocalFirstSelect(servers, local_ip, range) ==
  LET local == {i \in DOMAIN servers : servers[i].ip # 0 /\ servers[i].ip = local_ip}
  IN  IF local # {} THEN {servers[Min(local)]}
      ELSE IpRangeFirstSelect(servers, local_ip, range)

\* The server at which the running sum of the weights passes a random number
\* below their total.
WeightSum(servers) == MapThenSumSet(LAMBDA i : servers[i].weight, DOMAIN servers)

StaticWeightSelect(servers) ==
  IF WeightSum(servers) = 0 THEN Entries(servers)
  ELSE {s \in Entries(servers) : s.weight > 0}

---------------------------------------------------------------------------
(* Round robin: the number of selections so far, shared by all threads *)

RoundrobinSelect(servers, requests) == servers[(requests % Len(servers)) + 1]

---------------------------------------------------------------------------
(* Configurable weights: index and weight of the round a thread is in *)

Max0(S) == Max(S \cup {0})
max_weight(servers) == Max0({s.weight : s \in Entries(servers)})

\* Euclid's recursion; gcd(a, 0) does not return, the division traps.
gcd(a, b) ==
  LET g[p \in (0 .. a + b) \X (1 .. a + b)] ==
        IF p[1] % p[2] = 0 THEN p[2] ELSE g[<<p[2], p[1] % p[2]>>]
  IN  g[<<a, b>>]

\* The loop runs over all servers but the last, whose weight only counts in a
\* list of two; in a list of one it does not run.
gcd_weight(servers) ==
  LET g[i \in 1 .. Len(servers)] ==
        IF i = 1 THEN gcd(servers[1].weight, servers[2].weight)
                 ELSE gcd(g[i - 1], servers[i].weight)
  IN  IF Len(servers) = 1 THEN 0 ELSE g[Len(servers) - 1]

\* The weights some gcd call divides by are not 0.
GcdDefined(servers) ==
  /\ Len(servers) > 1 => servers[2].weight # 0
  /\ \A i \in 2 .. Len(servers) - 1 : servers[i].weight # 0

FirstState == [index |-> -1, weight |-> 0]

\* Faulty variant of NextState: the weight of a round is kept.
NextStateStays(state, servers) ==
  LET index == (state.index + 1) % Len(servers)
  IN  [index  |-> index,
       weight |-> IF index > 0 \/ state.weight > 0 THEN state.weight ELSE max_weight(servers)]

\* One turn of the while loop: the next server and, past the end of the list,
\* the next weight.
NextState(state, servers) ==
  LET index == (state.index + 1) % Len(servers)
      less  == state.weight - gcd_weight(servers)
  IN  [index  |-> index,
       weight |-> IF index > 0 THEN state.weight
                  ELSE IF less <= 0 THEN max_weight(servers) ELSE less]

\* What the turn that reached a state returns: a server, false, or nothing, in
\* which case the loop goes on.
Turn(state, servers) ==
  IF state.index = 0 /\ state.weight = 0 THEN "none"
  ELSE IF servers[state.index + 1].weight >= state.weight THEN "selected" ELSE "next"

\* How many turns the loop may take from a state before it selects a server: to
\* the end of the list, once through it for every weight that no server has,
\* and once more if the servers that are heavy enough are all behind.
TurnsLeft(state, servers) ==
  LET over == state.weight - max_weight(servers)
      ahead == {i \in state.index + 2 .. Len(servers) : servers[i].weight >= state.weight}
  IN  Len(servers) - 1 - state.index
      + (IF over > 0 THEN over * Len(servers) ELSE IF ahead # {} THEN 0 ELSE Len(servers))

\* The states of the loop in one round over all weights, from the start.
Round(servers) ==
  LET turns == IF Len(servers) = 1 THEN 1
               ELSE Len(servers) * (max_weight(servers) \div gcd_weight(servers))
      trace[k \in 0 .. turns] ==
        IF k = 0 THEN FirstState ELSE NextState(trace[k - 1], servers)
  IN  [k \in 1 .. turns |-> trace[k]]

\* How often a round selects the i-th server.
Share(servers, i) ==
  LET round == Round(servers)
  IN  Cardinality({k \in DOMAIN round :
                     round[k].index = i - 1 /\ Turn(round[k], servers) = "selected"})

\* The selections of a round are proportional to the weights, and every server
\* that has one is selected.
Proportional(servers) ==
  \A i, j \in DOMAIN servers :
    /\ Share(servers, i) * servers[j].weight = Share(servers, j) * servers[i].weight
    /\ servers[i].weight > 0 => Share(servers, i) > 0
=============================================================================
