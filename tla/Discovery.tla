------------------------------ MODULE Discovery ------------------------------
(***************************************************************************)
(* How the servers of other processes get into the cache this process      *)
(* routes by: ConsulRegistry::discover fetches the nodes of a service,     *)
(* processDiscover drops an answer whose index is the last one seen, and   *)
(* RouterDb::updateServers, on a thread of the callback pool, copies the   *)
(* map of all server lists, changes the copy and stores it back.           *)
(*                                                                         *)
(* A list is kept under a key: service, route and type.  The route is a    *)
(* shard of a plain server or a partition of an edge node; protocol and    *)
(* data center, constant for a service, are left out.                      *)
(***************************************************************************)
EXTENDS Integers, FiniteSets, FiniteSetsExt

CONSTANTS
  Services,
  Names,        \* the nodes of a service
  Edge,         \* names of edge nodes
  Sharded,      \* names of plain servers that have a shard list
  Shards, Partitions, DefaultShard,
  Workers,      \* threads of callback_thread_pool_
  Slots,        \* bound: fetches in flight
  MaxChanges,   \* bound: changes of the servers
  MaxFailures,  \* bound: fetches that fail
  NoEntry

Roles == {"LEADER", "FOLLOWER"}
PartitionKeys(s) == {s} \X Partitions \X {"FOLLOWER"}
ShardKeys(s) == {s} \X (Shards \cup {DefaultShard}) \X (Roles \cup {"ALL"})
Keys == UNION {ShardKeys(s) \cup PartitionKeys(s) : s \in Services}

Routes(n) ==
  IF n \in Edge THEN SUBSET Partitions
  ELSE IF n \in Sharded THEN SUBSET (Shards \X Roles) ELSE {{}}

\* What consul says of a node: whether its status is AVAILABLE and its
\* heartbeat within the TTL, and the shards or partitions it serves.
Entry == [usable : BOOLEAN, routes : UNION {Routes(n) : n \in Names}]
List == [Names -> Entry \cup {NoEntry}]
Empty == [n \in Names |-> NoEntry]

NoFetch == [phase |-> "none"]
Fetch == [phase : {"sent", "failed"}, service : Services]
           \cup [phase : {"answered"}, service : Services, index : Nat, list : List]

NoUpdate == [pc |-> "idle"]
Update == [pc : {"copy", "clean", "insert", "store"}, service : Services, list : List,
           copy : [Keys -> SUBSET Names]]

ASSUME ConstantsAssumption ==
  /\ Edge \cap Sharded = {} /\ Edge \cup Sharded \subseteq Names
  /\ DefaultShard \notin Shards /\ Partitions \cap (Shards \cup {DefaultShard}) = {}
  /\ NoEntry \notin Entry
  /\ IsFiniteSet(Slots)
  /\ MaxChanges \in Nat /\ MaxFailures \in Nat

VARIABLES
  mode, routes,    \* of each server: how it is, what it serves
  node,            \* consul: the nodes of each service
  index,           \* consul: the index of each service's path
  last_index,      \* last_indexes_ of each service's path
  fallback,        \* services with a DISCOVER entry in fallbacks_
  flight,          \* fetches in flight
  worker,          \* what each callback thread does
  services,        \* ServiceRegistry::services_, {} where there is no list
  partition_keys,  \* last_partition_keys_
  changes, failures

servers == <<mode, routes, changes>>
consul  == <<node, index>>
vars    == <<servers, consul, last_index, fallback, flight, worker, services, partition_keys, failures>>

TypeOK ==
  /\ mode \in [Services -> [Names -> {"off", "up", "paused", "crashed"}]]
  /\ routes \in [Services -> [Names -> UNION {Routes(n) : n \in Names}]]
  /\ node \in [Services -> List]
  /\ index \in [Services -> Nat] /\ last_index \in [Services -> Nat]
  /\ fallback \in SUBSET Services
  /\ flight \in [Slots -> Fetch \cup {NoFetch}]
  /\ worker \in [Workers -> Update \cup {NoUpdate}]
  /\ services \in [Keys -> SUBSET Names]
  /\ partition_keys \in [Services -> SUBSET Keys]
  /\ \A s \in Services : partition_keys[s] \subseteq PartitionKeys(s)
  /\ changes \in Nat /\ failures \in Nat

\* This process starts; the servers may be running.
Init ==
  /\ mode \in [Services -> [Names -> {"off", "up"}]]
  /\ routes \in {r \in [Services -> [Names -> UNION {Routes(n) : n \in Names}]] :
                   \A s \in Services, n \in Names : r[s][n] \in Routes(n)}
  /\ node = [s \in Services |-> [n \in Names |->
       IF mode[s][n] = "up" THEN [usable |-> TRUE, routes |-> routes[s][n]] ELSE NoEntry]]
  /\ index = [s \in Services |-> 1]
  /\ last_index = [s \in Services |-> 0]
  /\ fallback = {}
  /\ flight = [i \in Slots |-> NoFetch]
  /\ worker = [w \in Workers |-> NoUpdate]
  /\ services = [k \in Keys |-> {}]
  /\ partition_keys = [s \in Services |-> {}]
  /\ changes = 0 /\ failures = 0

-----------------------------------------------------------------------------
(* The servers, in other processes, and consul. *)

\* Indexes grow for ever, but the code only compares them for equality: a number
\* that nobody holds stands for the next one.
NextIndex(s) ==
  LET held == {0, index[s], last_index[s]}
        \cup {flight[i].index : i \in {j \in Slots : flight[j].phase = "answered" /\ flight[j].service = s}}
  IN Min((0 .. Cardinality(held)) \ held)

Write(s, n, entry) ==
  /\ node' = [node EXCEPT ![s][n] = entry]
  /\ index' = [index EXCEPT ![s] = NextIndex(s)]

\* A server starts, sets its status or its shards, or crashes; a crash leaves
\* its node in consul.
ChangeServer(s, n) ==
  /\ changes < MaxChanges
  /\ \E m \in {"up", "paused", "crashed"}, r \in Routes(n) :
       /\ <<m, r>> # <<mode[s][n], routes[s][n]>>
       /\ mode' = [mode EXCEPT ![s][n] = m]
       /\ routes' = [routes EXCEPT ![s][n] = r]
  /\ changes' = changes + 1
  /\ UNCHANGED <<consul, last_index, fallback, flight, worker, services, partition_keys, failures>>

\* The heartbeat writes the node again; a server that is not AVAILABLE says so
\* and leaves its update time as it was.
Beat(s, n) ==
  /\ mode[s][n] \in {"up", "paused"}
  /\ Write(s, n, [usable |-> mode[s][n] = "up", routes |-> routes[s][n]])
  /\ UNCHANGED <<servers, last_index, fallback, flight, worker, services, partition_keys, failures>>

\* The TTL of a crashed server runs out; nothing is written.
Expire(s, n) ==
  /\ mode[s][n] = "crashed" /\ node[s][n] # NoEntry
  /\ node[s][n].usable
  /\ node' = [node EXCEPT ![s][n].usable = FALSE]
  /\ UNCHANGED <<servers, index, last_index, fallback, flight, worker, services, partition_keys, failures>>

Unregister(s, n) ==
  /\ mode[s][n] \in {"up", "paused"}
  /\ changes < MaxChanges
  /\ mode' = [mode EXCEPT ![s][n] = "off"]
  /\ changes' = changes + 1
  /\ Write(s, n, NoEntry)
  /\ UNCHANGED <<routes, last_index, fallback, flight, worker, services, partition_keys, failures>>

-----------------------------------------------------------------------------
(* ConsulRegistry::discover *)

Discover(s) ==
  \E i \in Slots :
    /\ flight[i] = NoFetch
    /\ flight' = [flight EXCEPT ![i] = [phase |-> "sent", service |-> s]]

\* The timer of the discover puller.
Pull(s) ==
  /\ Discover(s)
  /\ UNCHANGED <<servers, consul, last_index, fallback, worker, services, partition_keys, failures>>

Fallback(s) ==
  /\ s \in fallback
  /\ fallback' = fallback \ {s}
  /\ Discover(s)
  /\ UNCHANGED <<servers, consul, last_index, worker, services, partition_keys, failures>>

\* consul answers with the nodes and the index of this moment, or not at all.
Answer(i) ==
  /\ flight[i].phase = "sent"
  /\ LET s == flight[i].service IN
     \/ /\ flight' = [flight EXCEPT ![i] = [phase |-> "answered", service |-> s,
                                            index |-> index[s], list |-> node[s]]]
        /\ UNCHANGED failures
     \/ /\ failures < MaxFailures
        /\ flight' = [flight EXCEPT ![i].phase = "failed"]
        /\ failures' = failures + 1
  /\ UNCHANGED <<servers, consul, last_index, fallback, worker, services, partition_keys>>

\* checkUpdate: any other index is an update.
IsUpdate(s, i) == i # last_index[s]

\* processDiscover, on a callback thread: an empty list or an index already seen
\* changes nothing but last_indexes_.
ProcessDiscover(w, i) ==
  LET f == flight[i] IN
  /\ f.phase = "answered"
  /\ worker[w] = NoUpdate
  /\ last_index' = [last_index EXCEPT ![f.service] = f.index]
  /\ worker' = IF f.list # Empty /\ IsUpdate(f.service, f.index)
       THEN [worker EXCEPT ![w] = [pc |-> "copy", service |-> f.service, list |-> f.list,
                                   copy |-> [k \in Keys |-> {}]]]
       ELSE worker
  /\ flight' = [flight EXCEPT ![i] = NoFetch]
  /\ UNCHANGED <<servers, consul, fallback, services, partition_keys, failures>>

DiscoverFailed(i) ==
  /\ flight[i].phase = "failed"
  /\ fallback' = fallback \cup {flight[i].service}
  /\ flight' = [flight EXCEPT ![i] = NoFetch]
  /\ UNCHANGED <<servers, consul, last_index, worker, services, partition_keys, failures>>

-----------------------------------------------------------------------------
(* RouterDb::updateServers *)

\* Faulty: every server of the list is picked.
PickAll(list) == {n \in Names : list[n] # NoEntry}

\* The servers that beat and are AVAILABLE; all of them when there is none.
PickServers(list) ==
  LET listed == {n \in Names : list[n] # NoEntry}
      usable == {n \in listed : list[n].usable}
  IN IF usable = {} THEN listed ELSE usable

\* The keys a server is found under.  A plain server without a shard list has
\* the default shard, as leader.
KeysOf(s, n, r) ==
  IF n \in Edge THEN {<<s, p, "FOLLOWER">> : p \in r}
  ELSE LET roles == IF n \in Sharded THEN r ELSE {<<DefaultShard, "LEADER">>}
       IN UNION {{<<s, x[1], x[2]>>, <<s, x[1], "ALL">>} : x \in roles}

\* The lists that a fetched list gives.
NewLists(s, list) ==
  [k \in Keys |-> {n \in PickServers(list) : k \in KeysOf(s, n, list[n].routes)}]

\* The copy of the whole map, under the read lock.
CopyServices(w) ==
  /\ worker[w].pc = "copy"
  /\ worker' = [worker EXCEPT ![w].copy = services, ![w].pc = "clean"]
  /\ UNCHANGED <<servers, consul, last_index, fallback, flight, services, partition_keys, failures>>

\* Faulty: the partitions of the last list are forgotten, not erased.
CleanKeysOnly(w) ==
  /\ worker[w].pc = "clean"
  /\ worker' = [worker EXCEPT ![w].pc = "insert"]
  /\ partition_keys' = [partition_keys EXCEPT ![worker[w].service] = {}]
  /\ UNCHANGED <<servers, consul, last_index, fallback, flight, services, failures>>

\* Faulty: every list of the service is erased.
CleanService(w) ==
  LET s == worker[w].service IN
  /\ worker[w].pc = "clean"
  /\ worker' = [worker EXCEPT ![w].copy = [k \in Keys |-> IF k[1] = s THEN {} ELSE @[k]],
                              ![w].pc = "insert"]
  /\ partition_keys' = [partition_keys EXCEPT ![s] = {}]
  /\ UNCHANGED <<servers, consul, last_index, fallback, flight, services, failures>>

\* Faulty: the partitions are erased from the map and from the copy.
CleanInPlace(w) ==
  LET s == worker[w].service
      kept == [k \in Keys |-> IF k \in partition_keys[s] THEN {} ELSE services[k]]
  IN
  /\ worker[w].pc = "clean"
  /\ services' = kept
  /\ worker' = [worker EXCEPT ![w].copy = kept, ![w].pc = "insert"]
  /\ partition_keys' = [partition_keys EXCEPT ![s] = {}]
  /\ UNCHANGED <<servers, consul, last_index, fallback, flight, failures>>

\* The partition keys of the last list are erased from the copy.
CleanPartitions(w) ==
  LET s == worker[w].service IN
  /\ worker[w].pc = "clean"
  /\ worker' = [worker EXCEPT ![w].copy = [k \in Keys |-> IF k \in partition_keys[s] THEN {} ELSE @[k]],
                              ![w].pc = "insert"]
  /\ partition_keys' = [partition_keys EXCEPT ![s] = {}]
  /\ UNCHANGED <<servers, consul, last_index, fallback, flight, services, failures>>

\* Faulty: the keys of shards are remembered with those of partitions.
InsertListsAllKeys(w) ==
  LET s == worker[w].service
      new == NewLists(s, worker[w].list)
      found == {k \in Keys : new[k] # {}}
  IN
  /\ worker[w].pc = "insert"
  /\ worker' = [worker EXCEPT ![w].copy = [k \in Keys |-> IF k \in found THEN new[k] ELSE @[k]],
                              ![w].pc = "store"]
  /\ partition_keys' = [partition_keys EXCEPT ![s] = @ \cup found]
  /\ UNCHANGED <<servers, consul, last_index, fallback, flight, services, failures>>

\* The new lists replace those of the copy; the keys of partitions are remembered.
InsertLists(w) ==
  LET s == worker[w].service
      new == NewLists(s, worker[w].list)
      found == {k \in Keys : new[k] # {}}
  IN
  /\ worker[w].pc = "insert"
  /\ worker' = [worker EXCEPT ![w].copy = [k \in Keys |-> IF k \in found THEN new[k] ELSE @[k]],
                              ![w].pc = "store"]
  /\ partition_keys' = [partition_keys EXCEPT ![s] = @ \cup (found \cap PartitionKeys(s))]
  /\ UNCHANGED <<servers, consul, last_index, fallback, flight, services, failures>>

\* The copy becomes the map, under the write lock.
StoreServices(w) ==
  /\ worker[w].pc = "store"
  /\ services' = worker[w].copy
  /\ worker' = [worker EXCEPT ![w] = NoUpdate]
  /\ UNCHANGED <<servers, consul, last_index, fallback, flight, partition_keys, failures>>

-----------------------------------------------------------------------------
ServerStep(s, n) == ChangeServer(s, n) \/ Beat(s, n) \/ Expire(s, n) \/ Unregister(s, n)
UpdateStep(w) == CopyServices(w) \/ CleanPartitions(w) \/ InsertLists(w) \/ StoreServices(w)

Next ==
  \/ \E s \in Services, n \in Names : ServerStep(s, n)
  \/ \E s \in Services : Pull(s) \/ Fallback(s)
  \/ \E i \in Slots : Answer(i) \/ DiscoverFailed(i)
  \/ \E i \in Slots, w \in Workers : ProcessDiscover(w, i)
  \/ \E w \in Workers : UpdateStep(w)

Spec == Init /\ [][Next]_vars

\* Servers that run beat, and time passes; the timers fire and find a free slot
\* in the end; a request is answered or times out; the callback threads work.
Fairness ==
  /\ \A s \in Services, n \in Names : WF_vars(Beat(s, n)) /\ WF_vars(Expire(s, n))
  /\ \A s \in Services : SF_vars(Pull(s)) /\ SF_vars(Fallback(s))
  /\ \A i \in Slots : WF_vars(Answer(i) \/ DiscoverFailed(i)) /\ SF_vars(\E w \in Workers : ProcessDiscover(w, i))
  /\ \A w \in Workers : WF_vars(UpdateStep(w))

FairSpec == Spec /\ Fairness

-----------------------------------------------------------------------------
(* Properties *)

\* Between two updates, the partition keys that the next update will erase are
\* exactly those that have a list: no list of a partition outlives the update
\* after it.
PartitionsTracked ==
  (\A w \in Workers : worker[w] = NoUpdate) =>
    \A s \in Services : partition_keys[s] = {k \in PartitionKeys(s) : services[k] # {}}

\* A shard that has servers has servers after every update: when all of them
\* are gone the last list stays.
ShardsStayRoutable ==
  [][\A s \in Services : \A k \in ShardKeys(s) : services[k] # {} => services'[k] # {}]_vars

\* The lists that were read from consul and may yet be stored.
Pending == [s \in Services |->
  {flight[i].list : i \in {j \in Slots : flight[j].phase = "answered" /\ flight[j].service = s}}
    \cup {worker[w].list : w \in {v \in Workers : worker[v] # NoUpdate /\ worker[v].service = s}}]

Cache == INSTANCE ServerCache WITH pending <- Pending

\* updateServers, which reads the map under one lock, changes a copy of it under
\* none and stores the copy under another, acts like one step: every change of
\* the cache is the whole update of one service by one list that consul held
\* when it was fetched, and never by an empty one.
CacheSpec == Cache!Spec

Live(s, n, k) == mode[s][n] = "up" /\ k \in KeysOf(s, n, routes[s][n])

\* A key that a live server has ends with exactly its live servers: a server
\* that crashed or paused leaves the list, though no write marks the end of a
\* TTL.  A partition that no live edge node serves ends without a list, as long
\* as the service has a live server; a shard keeps its last list.
CacheFollowsServers ==
  <>[](\A s \in Services :
         LET live(k) == {n \in Names : Live(s, n, k)} IN
         /\ \A k \in ShardKeys(s) : live(k) # {} => services[k] = live(k)
         /\ \A k \in PartitionKeys(s) : (\E n \in Names : mode[s][n] = "up") => services[k] = live(k))

-----------------------------------------------------------------------------
(* What the repository says and the code does not do *)

\* RouterDb gives "thread safe queries and updates" (router.h:112): the lists of
\* a service change only when an update of that service is stored.
UpdatesIndependent ==
  [][\A s \in Services : \A k \in ShardKeys(s) : services'[k] # services[k] =>
       \E w \in Workers : worker[w].pc = "store" /\ worker[w].service = s /\ worker'[w] = NoUpdate]_vars
=============================================================================
