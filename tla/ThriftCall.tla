----------------------------- MODULE ThriftCall -----------------------------
(***************************************************************************)
(* A thrift call of this process to a service: thriftServiceCall asks the  *)
(* router for a server of the service, takes a connection to it from the   *)
(* pool, sends the request and, if that fails, starts again as long as     *)
(* neither its connection nor its timeout retries are used up.             *)
(*                                                                         *)
(* The threads that call share the server lists RouterDb caches, the load  *)
(* balancers (one per method and service) and the connection pool.  The    *)
(* pool keeps a connection under the hash of host and port + index; hashes *)
(* are taken not to collide, so the key stands for it.  All keys of one    *)
(* event base are guarded by one upgradable lock, held over the look-up    *)
(* and the replacement of a connection.                                    *)
(***************************************************************************)
EXTENDS LoadBalance

CONSTANTS
  Threads,
  Lists,            \* what RouterDb may hold for each route
  Options,          \* ClientOptions of the calls
  Outcomes,         \* what a request sent on a live connection may end in
  ConnectionRetry, TimeoutRetry,  \* FLAGS_thrift_connection_retry, _timeout_retry
  MaxConn,          \* max_conn_per_server
  LocalIp, DiffRange, Idc,
  MaxCalls,         \* bound: calls of a thread
  MaxUpdates,       \* bound: updates of the cached lists
  MaxBreaks,        \* bound: connections that die
  NoList, NoAddress

Routes == {"edge", "shard"}
Methods == {"random", "idc_first", "local_first", "iprange_first", "static_weight",
            "roundrobin", "configurable_weight"}

AllLists   == (UNION {Lists[r] : r \in Routes}) \ {NoList}
AllEntries == UNION {Entries(l) : l \in AllLists}
Addresses  == {AddressOf(s) : s \in AllEntries} \cup ({o.target : o \in Options} \ {NoAddress})

\* Faulty variant of HashKey: the port is not part of the key.
HashKeyHost(address, expand_index) == <<address.host, expand_index>>

\* port + expand_index, with which the host is hashed.
HashKey(address, expand_index) == <<address.host, address.port + expand_index>>
Keys == {HashKey(a, e) : a \in Addresses, e \in 0 .. MaxConn - 1}

ASSUME ConstantsAssumption ==
  /\ ConnectionRetry \in Nat /\ TimeoutRetry \in Nat
  /\ MaxConn \in Nat \ {0}
  /\ MaxCalls \in Nat /\ MaxUpdates \in Nat /\ MaxBreaks \in Nat
  /\ \A l \in AllLists : l \in Seq(Entries(l)) /\ l # << >>
  /\ Options # {} /\ \A o \in Options : o.method \in Methods /\ o.edge \in BOOLEAN
  /\ NoAddress \notin Addresses /\ \A a \in Addresses : a.port \in Nat
  /\ Outcomes \subseteq {"ok", "timeout", "error", "std"}

VARIABLES
  lists,     \* RouterDb: the server list of each route
  requests,  \* LoadBalanceRoundrobin::requests_
  state,     \* LoadBalanceConfigurableWeight::current_state_ of each thread
  pool,      \* ConnectionThread::connections_ of all event bases
  call,      \* the call each thread is in
  calls, updates, breaks,
  turns      \* how often round robin selected each address, up to the first update

vars == <<lists, requests, state, pool, call, calls, updates, breaks, turns>>

NoConn == [to |-> NoAddress, good |-> FALSE]

Idle ==
  [pc |-> "idle", option |-> CHOOSE o \in Options : TRUE, route |-> "shard", servers |-> NoList,
   connection_retry |-> -1, timeout_retry |-> -1, address |-> NoAddress,
   key |-> CHOOSE k \in Keys : TRUE, to |-> NoAddress, alive |-> FALSE,
   attempts |-> 0, lost |-> 0, broken |-> 0]

PCs == {"idle", "client", "shard", "select", "connect", "process", "trap"}

TypeOK ==
  /\ \A r \in Routes : lists[r] \in Lists[r]
  /\ requests \in Nat
  /\ \A t \in Threads :
       /\ state[t].index = -1 \/ \E l \in AllLists : state[t].index \in 0 .. Len(l) - 1
       /\ state[t].weight = 0 \/ \E s \in AllEntries : state[t].weight \in 1 .. s.weight
  /\ \A k \in Keys : /\ pool[k].to \in Addresses \cup {NoAddress}
                     /\ pool[k].good => pool[k].to # NoAddress
  /\ \A t \in Threads :
       /\ call[t].pc \in PCs
       /\ call[t].connection_retry \in Nat \cup {-1}
       /\ call[t].timeout_retry \in Nat \cup {-1}
       /\ call[t].pc \in {"connect", "process"} => call[t].address \in Addresses
       /\ call[t].pc = "select" => call[t].servers # NoList

Init ==
  /\ lists \in {l \in [Routes -> AllLists \cup {NoList}] : \A r \in Routes : l[r] \in Lists[r]}
  /\ requests = 0
  /\ state = [t \in Threads |-> FirstState]
  /\ pool = [k \in Keys |-> NoConn]
  /\ call = [t \in Threads |-> Idle]
  /\ calls = [t \in Threads |-> 0]
  /\ updates = 0 /\ breaks = 0
  /\ turns = [a \in Addresses |-> 0]

---------------------------------------------------------------------------
(* The call's control flow *)

\* (Beyond the limit the model stops counting.)
AttemptLimit == ConnectionRetry + TimeoutRetry + 1

\* Faulty variant of Budget: either budget is enough.
BudgetEither(c) == c.connection_retry < ConnectionRetry \/ c.timeout_retry < TimeoutRetry

Budget(c) == c.connection_retry < ConnectionRetry /\ c.timeout_retry < TimeoutRetry

\* Faulty variants of NoClient: the `continue` is missing; the retry is not counted.
NoClientConnects(c) == [c EXCEPT !.pc = "connect", !.connection_retry = @ + 1]
NoClientFree(c) == [c EXCEPT !.pc = "client"]

\* thriftServiceClient found no server: `continue` with one retry less.
NoClient(c) == [c EXCEPT !.pc = "client", !.connection_retry = @ + 1]

\* No server on the edge route: the plain one is tried.
NextRoute(c) == IF c.route = "edge" THEN [c EXCEPT !.pc = "shard"] ELSE NoClient(c)

Selected(c, s) ==
  [c EXCEPT !.pc = "connect", !.route = "shard", !.servers = NoList, !.address = AddressOf(s)]

\* What the catch clauses of thriftServiceCall make of the end of a request.
Ended(c, outcome) ==
  LET e == [c EXCEPT !.pc = "client", !.address = NoAddress, !.key = Idle.key,
                     !.to = NoAddress, !.alive = FALSE, !.attempts = Min({@ + 1, AttemptLimit + 1})]
  IN  CASE outcome = "ok"            -> Idle
        [] outcome = "std"           -> e
        [] outcome = "timeout"       -> [e EXCEPT !.timeout_retry = @ + 1]
        [] outcome = "error"         -> [e EXCEPT !.connection_retry = @ + 1]
        [] outcome = "transport"     -> [e EXCEPT !.connection_retry = @ + 1, !.lost = @ + 1]

Call(t) ==
  /\ call[t].pc = "idle" /\ calls[t] < MaxCalls
  /\ \E o \in Options :
       call' = [call EXCEPT ![t] = [Idle EXCEPT !.pc = "client", !.option = o]]
  /\ calls' = [calls EXCEPT ![t] = @ + 1]
  /\ UNCHANGED <<lists, requests, state, pool, updates, breaks, turns>>

\* serviceClient with an address given by the caller, which is used as it is.
ServiceClient(t) ==
  /\ call[t].pc = "client" /\ Budget(call[t]) /\ call[t].option.target # NoAddress
  /\ call' = [call EXCEPT ![t] = [@ EXCEPT !.pc = "connect", !.address = call[t].option.target]]
  /\ UNCHANGED <<lists, requests, state, pool, calls, updates, breaks, turns>>

GiveUp(t) ==
  /\ call[t].pc = "client" /\ ~Budget(call[t])
  /\ call' = [call EXCEPT ![t] = Idle]
  /\ UNCHANGED <<lists, requests, state, pool, calls, updates, breaks, turns>>

\* The route serviceClient discovers on next: the plain one after the edge.
RouteOf(c) == IF c.pc = "client" /\ c.option.edge THEN "edge" ELSE "shard"

\* discover and edgeDiscover: the list is shared, not copied, and stays as it
\* is while this thread selects from it.
Discover(t) ==
  /\ \/ call[t].pc = "client" /\ Budget(call[t]) /\ call[t].option.target = NoAddress
     \/ call[t].pc = "shard"
  /\ LET route == RouteOf(call[t])
         c == [call[t] EXCEPT !.route = route]
     IN  call' = [call EXCEPT ![t] =
                    IF lists[route] = NoList THEN NextRoute(c)
                    ELSE [c EXCEPT !.pc = "select", !.servers = lists[route]]]
  /\ UNCHANGED <<lists, requests, state, pool, calls, updates, breaks, turns>>

Candidates(method, servers) ==
  CASE method = "random"        -> RandomSelect(servers)
    [] method = "idc_first"     -> IdcFirstSelect(servers, Idc)
    [] method = "local_first"   -> LocalFirstSelect(servers, LocalIp, DiffRange)
    [] method = "iprange_first" -> IpRangeFirstSelect(servers, LocalIp, DiffRange)
    [] method = "static_weight" -> StaticWeightSelect(servers)

Select(t) ==
  /\ call[t].pc = "select" /\ call[t].option.method \notin {"roundrobin", "configurable_weight"}
  /\ \E s \in Candidates(call[t].option.method, call[t].servers) :
       call' = [call EXCEPT ![t] = Selected(@, s)]
  /\ UNCHANGED <<lists, requests, state, pool, calls, updates, breaks, turns>>

\* Faulty variant of SelectRoundrobin: every thread has a counter of its own.
SelectRoundrobinLocal(t) ==
  /\ call[t].pc = "select" /\ call[t].option.method = "roundrobin"
  /\ LET s == RoundrobinSelect(call[t].servers, calls[t] + call[t].attempts) IN
     /\ call' = [call EXCEPT ![t] = Selected(@, s)]
     /\ turns' = IF updates = 0 THEN [turns EXCEPT ![AddressOf(s)] = @ + 1] ELSE turns
  /\ requests' = requests + 1
  /\ UNCHANGED <<lists, state, pool, calls, updates, breaks>>

SelectRoundrobin(t) ==
  /\ call[t].pc = "select" /\ call[t].option.method = "roundrobin"
  /\ LET s == RoundrobinSelect(call[t].servers, requests) IN
     /\ call' = [call EXCEPT ![t] = Selected(@, s)]
     /\ turns' = IF updates = 0 THEN [turns EXCEPT ![AddressOf(s)] = @ + 1] ELSE turns
  /\ requests' = requests + 1
  /\ UNCHANGED <<lists, state, pool, calls, updates, breaks>>

\* One turn of the loop of LoadBalanceConfigurableWeight::select.
SelectWeight(t) ==
  /\ call[t].pc = "select" /\ call[t].option.method = "configurable_weight"
  /\ LET c == call[t]
         next == NextState(state[t], c.servers)
         turn == Turn(next, c.servers)
     IN  IF ~GcdDefined(c.servers)
         THEN call' = [call EXCEPT ![t].pc = "trap"] /\ UNCHANGED state
         ELSE /\ state' = [state EXCEPT ![t] = next]
              /\ call' = [call EXCEPT ![t] =
                            CASE turn = "none"     -> NextRoute(c)
                              [] turn = "selected" -> Selected(c, c.servers[next.index + 1])
                              [] turn = "next"     -> c]
  /\ UNCHANGED <<lists, requests, pool, calls, updates, breaks, turns>>

\* Faulty variant of Connection: insert, which does not overwrite.
ConnectionInsert(key, address) ==
  IF pool[key].to # NoAddress THEN pool[key] ELSE [to |-> address, good |-> TRUE]

\* The connection getConnection returns for a key: the one it holds if that is
\* good, otherwise a new one that takes its place.
Connection(key, address) ==
  IF pool[key].good THEN pool[key] ELSE [to |-> address, good |-> TRUE]

GetConnection(t) ==
  /\ call[t].pc = "connect"
  /\ \E expand_index \in 0 .. MaxConn - 1 :
       LET key  == HashKey(call[t].address, expand_index)
           conn == Connection(key, call[t].address)
       IN  /\ pool' = [pool EXCEPT ![key] = conn]
           /\ call' = [call EXCEPT ![t] = [@ EXCEPT !.pc = "process", !.key = key,
                                                     !.to = conn.to, !.alive = conn.good]]
  /\ UNCHANGED <<lists, requests, state, calls, updates, breaks, turns>>

\* request_process returns or throws; on a dead connection it can only throw.
Process(t) ==
  /\ call[t].pc = "process"
  /\ \E outcome \in IF call[t].alive THEN Outcomes ELSE {"transport"} :
       call' = [call EXCEPT ![t] = Ended(@, outcome)]
  /\ UNCHANGED <<lists, requests, state, pool, calls, updates, breaks, turns>>

---------------------------------------------------------------------------
(* The surroundings *)

\* RouterDb stores a new list.
UpdateServers(route) ==
  /\ updates < MaxUpdates
  /\ \E l \in Lists[route] \ {lists[route]} : lists' = [lists EXCEPT ![route] = l]
  /\ updates' = updates + 1
  /\ turns' = [a \in Addresses |-> 0]
  /\ UNCHANGED <<requests, state, pool, call, calls, breaks>>

\* A server closes a connection, or it idles out: the requests on it are lost.
Break(key) ==
  /\ breaks < MaxBreaks /\ pool[key].good
  /\ pool' = [pool EXCEPT ![key].good = FALSE]
  /\ call' = [t \in Threads |->
                IF call[t].pc = "idle" THEN call[t]
                ELSE [call[t] EXCEPT !.broken = @ + 1, !.alive = @ /\ call[t].key # key]]
  /\ breaks' = breaks + 1
  /\ UNCHANGED <<lists, requests, state, calls, updates, turns>>

Step(t) ==
  \/ ServiceClient(t) \/ GiveUp(t) \/ Discover(t) \/ Select(t) \/ SelectRoundrobin(t)
  \/ SelectWeight(t) \/ GetConnection(t) \/ Process(t)

Next ==
  \/ \E t \in Threads : Call(t) \/ Step(t)
  \/ \E route \in Routes : UpdateServers(route)
  \/ \E key \in Keys : Break(key)

Spec == Init /\ [][Next]_vars

\* A thread inside a call is scheduled, and a request ends by its timeout.
FairSpec == Spec /\ \A t \in Threads : WF_vars(Step(t))

---------------------------------------------------------------------------
(* Properties *)

\* The two budgets of thriftServiceCall bound the requests of one call: a call
\* that fails has used up one budget and at most all but one of the other.
AttemptsBounded == \A t \in Threads : call[t].attempts <= AttemptLimit

\* A call loses a request to a dead connection only if a connection died while
\* it ran: the pool replaces a dead connection instead of handing it out again,
\* so one that died before the call costs nothing, and one that died during it
\* costs one attempt.
LostOnlyToBreaks == \A t \in Threads : call[t].lost <= call[t].broken

\* The server that gets the request is the one the balancer selected, which is
\* also the one the callback is told.
RoutedAsSelected ==
  \A t \in Threads : call[t].pc = "process" => call[t].to = call[t].address

\* Round robin spreads the requests of all threads, retries included, evenly
\* over a list that does not change.
RoundRobinEven ==
  (updates = 0 /\ lists["shard"] # NoList /\ lists["edge"] \in {NoList, lists["shard"]}) =>
    \A s, r \in Entries(lists["shard"]) : turns[AddressOf(s)] <= turns[AddressOf(r)] + 1

\* Every turn of the loop of LoadBalanceConfigurableWeight::select that returns
\* nothing leaves fewer turns to take, so the loop ends on whatever index and
\* weight the last list left behind: on a list of two or more servers, from the
\* second turn on.
SelectionAdvances ==
  [][\A t \in Threads : LET servers == call[t].servers IN
       ( /\ state'[t] # state[t] /\ call'[t] = call[t]
         /\ Len(servers) > 1 /\ state[t].index \in 0 .. Len(servers) - 1 )
       => TurnsLeft(state'[t], servers) \in 0 .. TurnsLeft(state[t], servers) - 1]_vars

FairLists == {l \in AllLists : Proportional(l)}

\* Over a round of selections the configurable weights give every server of a
\* cached list its share.
WeightsHonoured == \A route \in Routes : lists[route] \in FairLists \cup {NoList}

\* Every call returns: the selection loop ends on whatever list it is given and
\* whatever state the last list left behind, and the retries run out.
CallReturns == \A t \in Threads : call[t].pc # "idle" ~> call[t].pc = "idle"
=============================================================================
