-------------------------- MODULE DiscoveryProofs --------------------------
(***************************************************************************)
(* The cache of server lists, for any services, servers, shards and        *)
(* fetches: types for any number of callback threads, and what an update   *)
(* keeps when one thread runs the callbacks.                               *)
(***************************************************************************)
EXTENDS Discovery, FiniteSetTheorems, WellFoundedInduction, TLAPS

\* A set of naturals has a least element.
LEMMA LeastNatural ==
  ASSUME NEW S \in SUBSET Nat, S # {}
  PROVE  Min(S) \in S
<1>1. PICK x \in S : \A y \in S : ~(<<y, x>> \in OpToRel(<, Nat))
  BY NatLessThanWellFounded, WFMin
<1>2. ASSUME NEW y \in S, y < x PROVE <<y, x>> \in OpToRel(<, Nat)
  BY <1>2, Zenon DEF OpToRel
<1>3. ASSUME NEW y \in S PROVE ~(y < x)
  BY <1>1, <1>2, <1>3, Zenon
<1>4. \A y \in S : x <= y
  BY <1>3
<1> QED
  BY <1>4 DEF Min

Held(s) == {j \in Slots : flight[j].phase = "answered" /\ flight[j].service = s}

\* There is an index that nobody holds, and it is a new one.
LEMMA NextIndexNew ==
  ASSUME NEW s \in Services
  PROVE  /\ NextIndex(s) \in Nat
         /\ NextIndex(s) \notin {0, index[s], last_index[s]}
         /\ \A i \in Held(s) : NextIndex(s) # flight[i].index
<1> DEFINE image == {flight[i].index : i \in Held(s)}
           held == {0, index[s], last_index[s]} \cup image
           free == (0 .. Cardinality(held)) \ held
<1>1. IsFiniteSet(Held(s))
  BY ConstantsAssumption, FS_Subset DEF Held
<1>2. IsFiniteSet(image)
  <2> DEFINE f == [i \in Held(s) |-> flight[i].index]
  <2>1. f \in Surjection(Held(s), image)
    BY DEF Surjection
  <2> QED
    BY <1>1, <2>1, FS_Surjection
<1>3. IsFiniteSet({0, index[s], last_index[s]})
  <2>1. IsFiniteSet({0}) /\ IsFiniteSet({index[s]}) /\ IsFiniteSet({last_index[s]})
    BY FS_Singleton
  <2>2. IsFiniteSet({0} \cup {index[s]})
    BY <2>1, FS_Union
  <2>3. IsFiniteSet(({0} \cup {index[s]}) \cup {last_index[s]})
    BY <2>1, <2>2, FS_Union
  <2>4. ({0} \cup {index[s]}) \cup {last_index[s]} = {0, index[s], last_index[s]}
    OBVIOUS
  <2> QED
    BY <2>3, <2>4
<1>4. IsFiniteSet(held)
  BY <1>2, <1>3, FS_Union
<1> HIDE DEF held, image
<1>5. Cardinality(held) \in Nat
  BY <1>4, FS_CardinalityType
<1>6. free # {}
  <2>1. SUFFICES ASSUME 0 .. Cardinality(held) \subseteq held PROVE FALSE
    OBVIOUS
  <2>2. Cardinality(0 .. Cardinality(held)) <= Cardinality(held)
    BY <1>4, <2>1, FS_Subset
  <2>3. Cardinality(0 .. Cardinality(held)) = Cardinality(held) + 1
    BY <1>5, FS_Interval
  <2> QED
    BY <1>5, <2>2, <2>3
<1>7. free \in SUBSET Nat
  BY <1>5
<1>8. Min(free) \in free
  BY <1>6, <1>7, LeastNatural
<1>9. NextIndex(s) = Min(free)
  BY DEF NextIndex, held, image, Held
<1> QED
  BY <1>7, <1>8, <1>9 DEF held, image

-----------------------------------------------------------------------------
(* Types *)

AllRoutes == UNION {Routes(n) : n \in Names}

LEMMA InitTypeOK == Init => TypeOK
<1> SUFFICES ASSUME Init PROVE TypeOK
  OBVIOUS
<1>1. /\ mode \in [Services -> [Names -> {"off", "up", "paused", "crashed"}]]
      /\ routes \in [Services -> [Names -> UNION {Routes(n) : n \in Names}]]
  BY DEF Init
<1>2. node \in [Services -> List]
  <2>1. ASSUME NEW s \in Services, NEW n \in Names
        PROVE  [usable |-> TRUE, routes |-> routes[s][n]] \in Entry
    BY <1>1 DEF Entry
  <2> QED
    BY <2>1 DEF Init, List
<1>3. /\ index \in [Services -> Nat] /\ last_index \in [Services -> Nat]
      /\ fallback \in SUBSET Services
      /\ changes \in Nat /\ failures \in Nat
      /\ services \in [Keys -> SUBSET Names]
      /\ partition_keys \in [Services -> SUBSET Keys]
      /\ \A s \in Services : partition_keys[s] \subseteq PartitionKeys(s)
  BY DEF Init
<1>4. flight \in [Slots -> Fetch \cup {NoFetch}] /\ worker \in [Workers -> Update \cup {NoUpdate}]
  BY DEF Init
<1> QED
  BY <1>1, <1>2, <1>3, <1>4 DEF TypeOK

LEMMA WriteTypes ==
  ASSUME TypeOK, NEW s \in Services, NEW n \in Names, NEW entry \in Entry \cup {NoEntry},
         Write(s, n, entry)
  PROVE  node' \in [Services -> List] /\ index' \in [Services -> Nat]
<1>1. NextIndex(s) \in Nat
  BY NextIndexNew
<1>2. index' \in [Services -> Nat]
  BY <1>1 DEF Write, TypeOK
<1>3. node' \in [Services -> List]
  BY DEF Write, TypeOK, List
<1> QED
  BY <1>2, <1>3

LEMMA ServerTypes ==
  ASSUME TypeOK, NEW s \in Services, NEW n \in Names, ServerStep(s, n)
  PROVE  TypeOK'
<1>0. /\ mode \in [Services -> [Names -> {"off", "up", "paused", "crashed"}]]
      /\ routes \in [Services -> [Names -> AllRoutes]] /\ Routes(n) \subseteq AllRoutes
  BY DEF TypeOK, AllRoutes
<1>1. CASE ChangeServer(s, n)
  <2>1. PICK m \in {"up", "paused", "crashed"}, r \in Routes(n) :
          /\ mode' = [mode EXCEPT ![s][n] = m]
          /\ routes' = [routes EXCEPT ![s][n] = r]
    BY <1>1 DEF ChangeServer
  <2>2. mode' \in [Services -> [Names -> {"off", "up", "paused", "crashed"}]]
    BY <1>0, <2>1
  <2>3. routes' \in [Services -> [Names -> AllRoutes]]
    BY <1>0, <2>1
  <2> QED
    BY <1>1, <2>2, <2>3 DEF ChangeServer, TypeOK, AllRoutes, consul
<1>2. CASE Beat(s, n)
  <2>1. [usable |-> mode[s][n] = "up", routes |-> routes[s][n]] \in Entry
    BY <1>0 DEF Entry, AllRoutes
  <2>2. node' \in [Services -> List] /\ index' \in [Services -> Nat]
    BY <1>2, <2>1, WriteTypes DEF Beat
  <2> QED
    BY <1>2, <2>2 DEF Beat, TypeOK, servers
<1>3. CASE Expire(s, n)
  <2>1. node[s] \in List /\ node[s][n] \in Entry
    BY <1>3 DEF Expire, TypeOK, List
  <2>2. node' \in [Services -> List]
    <3>1. [node[s][n] EXCEPT !.usable = FALSE] \in Entry
      BY <2>1 DEF Entry
    <3> QED
      BY <1>3, <2>1, <3>1 DEF Expire, TypeOK, List
  <2> QED
    BY <1>3, <2>2 DEF Expire, TypeOK, servers
<1>4. CASE Unregister(s, n)
  <2>1. node' \in [Services -> List] /\ index' \in [Services -> Nat]
    BY <1>4, WriteTypes DEF Unregister
  <2>2. mode' \in [Services -> [Names -> {"off", "up", "paused", "crashed"}]]
    BY <1>0, <1>4 DEF Unregister
  <2> QED
    BY <1>4, <2>1, <2>2 DEF Unregister, TypeOK
<1> QED
  BY <1>1, <1>2, <1>3, <1>4 DEF ServerStep

LEMMA FetchTypes ==
  ASSUME TypeOK,
         \/ \E s \in Services : Pull(s) \/ Fallback(s)
         \/ \E i \in Slots : Answer(i) \/ DiscoverFailed(i)
  PROVE  TypeOK'
<1>1. ASSUME NEW s \in Services, Discover(s) PROVE flight' \in [Slots -> Fetch \cup {NoFetch}]
  <2>1. [phase |-> "sent", service |-> s] \in Fetch
    BY DEF Fetch
  <2> QED
    BY <1>1, <2>1 DEF Discover, TypeOK
<1>2. ASSUME NEW s \in Services, Pull(s) PROVE TypeOK'
  BY <1>1, <1>2 DEF Pull, TypeOK, servers, consul
<1>3. ASSUME NEW s \in Services, Fallback(s) PROVE TypeOK'
  BY <1>1, <1>3 DEF Fallback, TypeOK, servers, consul
<1>4. ASSUME NEW i \in Slots, flight[i].phase \in {"sent", "answered", "failed"}
      PROVE  flight[i] \in Fetch /\ flight[i].service \in Services
  <2>1. flight[i] # NoFetch
    BY <1>4 DEF NoFetch
  <2> QED
    BY <2>1 DEF TypeOK, Fetch
<1>5. ASSUME NEW i \in Slots, Answer(i) PROVE TypeOK'
  <2> DEFINE s == flight[i].service
  <2>1. flight[i].phase = "sent" /\ s \in Services
    BY <1>4, <1>5 DEF Answer
  <2>2. flight[i] \in [phase : {"sent", "failed"}, service : Services]
    BY <1>4, <2>1 DEF Fetch
  <2>3. /\ [phase |-> "answered", service |-> s, index |-> index[s], list |-> node[s]] \in Fetch
        /\ [flight[i] EXCEPT !.phase = "failed"] \in Fetch
    BY <2>1, <2>2 DEF TypeOK, Fetch
  <2>4. \/ flight' = [flight EXCEPT ![i] = [phase |-> "answered", service |-> s,
                                            index |-> index[s], list |-> node[s]]]
        \/ flight' = [flight EXCEPT ![i] = [flight[i] EXCEPT !.phase = "failed"]]
    BY <1>5 DEF Answer
  <2>5. flight' \in [Slots -> Fetch \cup {NoFetch}]
    BY <2>3, <2>4 DEF TypeOK
  <2>6. failures' \in Nat
    BY <1>5 DEF Answer, TypeOK
  <2> QED
    BY <1>5, <2>5, <2>6 DEF Answer, TypeOK, servers, consul
<1>6. ASSUME NEW i \in Slots, DiscoverFailed(i) PROVE TypeOK'
  <2>1. flight[i].service \in Services
    BY <1>4, <1>6 DEF DiscoverFailed
  <2>2. flight' \in [Slots -> Fetch \cup {NoFetch}] /\ fallback' \in SUBSET Services
    BY <1>6, <2>1 DEF DiscoverFailed, TypeOK
  <2> QED
    BY <1>6, <2>2 DEF DiscoverFailed, TypeOK, servers, consul
<1> QED
  BY <1>2, <1>3, <1>5, <1>6

LEMMA ProcessTypes ==
  ASSUME TypeOK, NEW w \in Workers, NEW i \in Slots, ProcessDiscover(w, i)
  PROVE  /\ TypeOK'
         /\ flight[i].service \in Services
<1> DEFINE f == flight[i]
           new == [pc |-> "copy", service |-> f.service, list |-> f.list, copy |-> [k \in Keys |-> {}]]
<1>1. f \in [phase : {"answered"}, service : Services, index : Nat, list : List]
  <2>1. f # NoFetch /\ f.phase = "answered"
    BY DEF ProcessDiscover, NoFetch
  <2> QED
    BY <2>1 DEF TypeOK, Fetch
<1>2. new \in Update
  BY <1>1 DEF Update
<1>3. /\ flight' \in [Slots -> Fetch \cup {NoFetch}]
      /\ last_index' \in [Services -> Nat]
  BY <1>1 DEF ProcessDiscover, TypeOK
<1>4. worker' \in [Workers -> Update \cup {NoUpdate}]
  <2> HIDE DEF new
  <2>1. worker' = worker \/ worker' = [worker EXCEPT ![w] = new]
    BY DEF ProcessDiscover, new
  <2> QED
    BY <1>2, <2>1 DEF TypeOK
<1> QED
  BY <1>1, <1>3, <1>4 DEF ProcessDiscover, TypeOK, servers, consul

\* A thread in an update has one.
LEMMA UpdateOf ==
  ASSUME TypeOK, NEW w \in Workers, worker[w].pc # "idle"
  PROVE  worker[w] \in Update
BY DEF TypeOK, NoUpdate

LEMMA NewListsType ==
  ASSUME NEW s \in Services, NEW list \in List
  PROVE  NewLists(s, list) \in [Keys -> SUBSET Names]
BY DEF NewLists, PickServers

LEMMA UpdateTypes ==
  ASSUME TypeOK, NEW w \in Workers, UpdateStep(w)
  PROVE  TypeOK'
<1> DEFINE u == worker[w]
<1>1. u \in Update /\ u.service \in Services /\ u.list \in List /\ u.copy \in [Keys -> SUBSET Names]
  <2>1. u.pc # "idle"
    BY DEF UpdateStep, CopyServices, CleanPartitions, InsertLists, StoreServices
  <2> QED
    BY <2>1, UpdateOf DEF Update
<1>2. CASE CopyServices(w)
  <2>1. worker'[w] \in Update
    BY <1>1, <1>2 DEF CopyServices, TypeOK, Update
  <2>2. worker' \in [Workers -> Update \cup {NoUpdate}]
    BY <1>2, <2>1 DEF CopyServices, TypeOK
  <2> QED
    BY <1>2, <2>2 DEF CopyServices, TypeOK, servers, consul
<1>3. CASE CleanPartitions(w)
  <2> DEFINE copy == [k \in Keys |-> IF k \in partition_keys[u.service] THEN {} ELSE u.copy[k]]
  <2>1. copy \in [Keys -> SUBSET Names]
    BY <1>1
  <2>2. worker' = [worker EXCEPT ![w] = [u EXCEPT !.copy = copy, !.pc = "insert"]]
    BY <1>1, <1>3 DEF CleanPartitions
  <2>3. [u EXCEPT !.copy = copy, !.pc = "insert"] \in Update
    <3> HIDE DEF copy
    <3> QED
      BY <1>1, <2>1 DEF Update
  <2>4. worker' \in [Workers -> Update \cup {NoUpdate}]
    <3> HIDE DEF copy
    <3> QED
      BY <2>2, <2>3 DEF TypeOK
  <2>5. /\ partition_keys' \in [Services -> SUBSET Keys]
        /\ \A s \in Services : partition_keys'[s] \subseteq PartitionKeys(s)
    BY <1>1, <1>3 DEF CleanPartitions, TypeOK
  <2> QED
    BY <1>3, <2>4, <2>5 DEF CleanPartitions, TypeOK, servers, consul
<1>4. CASE InsertLists(w)
  <2> DEFINE new == NewLists(u.service, u.list)
             found == {k \in Keys : new[k] # {}}
             copy == [k \in Keys |-> IF k \in found THEN new[k] ELSE u.copy[k]]
  <2>1. copy \in [Keys -> SUBSET Names]
    BY <1>1, NewListsType
  <2>2. worker' = [worker EXCEPT ![w] = [u EXCEPT !.copy = copy, !.pc = "store"]]
    BY <1>1, <1>4 DEF InsertLists
  <2>3. [u EXCEPT !.copy = copy, !.pc = "store"] \in Update
    <3> HIDE DEF copy
    <3> QED
      BY <1>1, <2>1 DEF Update
  <2>4. worker' \in [Workers -> Update \cup {NoUpdate}]
    <3> HIDE DEF copy
    <3> QED
      BY <2>2, <2>3 DEF TypeOK
  <2>5. /\ partition_keys' \in [Services -> SUBSET Keys]
        /\ \A s \in Services : partition_keys'[s] \subseteq PartitionKeys(s)
    BY <1>1, <1>4 DEF InsertLists, TypeOK
  <2> QED
    BY <1>4, <2>4, <2>5 DEF InsertLists, TypeOK, servers, consul
<1>5. CASE StoreServices(w)
  BY <1>1, <1>5 DEF StoreServices, TypeOK, servers, consul
<1> QED
  BY <1>2, <1>3, <1>4, <1>5 DEF UpdateStep

LEMMA NextTypes == TypeOK /\ [Next]_vars => TypeOK'
<1> SUFFICES ASSUME TypeOK, [Next]_vars PROVE TypeOK'
  OBVIOUS
<1>1. CASE UNCHANGED vars
  BY <1>1 DEF vars, servers, consul, TypeOK
<1> QED
  BY <1>1, ServerTypes, FetchTypes, ProcessTypes, UpdateTypes DEF Next

\* The keys to erase are keys of partitions, never of shards, and the lists
\* contain known servers, for any number of callback threads.
THEOREM DiscoveryTypes == Spec => []TypeOK
BY InitTypeOK, NextTypes, PTL DEF Spec

-----------------------------------------------------------------------------
(* One callback thread *)

OneWorker == \E w : Workers = {w}

Tracked(lists) ==
  \A s \in Services : partition_keys[s] = {k \in PartitionKeys(s) : lists[k] # {}}

\* The partition keys belong to the map as it is until the update erases them,
\* and from then on to the copy that will replace it.
TrackInv ==
  \A w \in Workers : LET u == worker[w] IN
    /\ u.pc \in {"idle", "copy", "clean"} => Tracked(services)
    /\ u.pc = "clean" => u.copy = services
    /\ u.pc = "insert" => Tracked(u.copy) /\ partition_keys[u.service] = {}
    /\ u.pc = "store" => Tracked(u.copy)

\* The copy has a list wherever the map has one for a shard, and differs from
\* the map in lists of its own service only.
CopyInv ==
  \A w \in Workers : LET u == worker[w] IN
    u.pc \in {"clean", "insert", "store"} =>
      /\ \A s \in Services : \A k \in ShardKeys(s) : services[k] # {} => u.copy[k] # {}
      /\ \A s \in Services : \A k \in ShardKeys(s) : s # u.service => u.copy[k] = services[k]

IInv == TypeOK /\ TrackInv /\ CopyInv

\* Keys of partitions and shards, and those of two services, are different.
LEMMA KeysDisjoint ==
  ASSUME NEW s \in Services, NEW q \in Services
  PROVE  /\ PartitionKeys(s) \cap ShardKeys(q) = {}
         /\ s # q => PartitionKeys(s) \cap PartitionKeys(q) = {} /\ ShardKeys(s) \cap ShardKeys(q) = {}
         /\ PartitionKeys(s) \subseteq Keys /\ ShardKeys(s) \subseteq Keys
BY ConstantsAssumption DEF PartitionKeys, ShardKeys, Keys

\* A fetched list gives lists of its own service only.
LEMMA NewListsOwn ==
  ASSUME NEW s \in Services, NEW q \in Services, s # q, NEW list,
         NEW k \in PartitionKeys(q) \cup ShardKeys(q)
  PROVE  NewLists(s, list)[k] = {}
<1>1. k \in Keys /\ k[1] = q
  BY KeysDisjoint DEF PartitionKeys, ShardKeys
<1>2. ASSUME NEW n, NEW r PROVE k \notin KeysOf(s, n, r)
  BY <1>1 DEF KeysOf
<1> QED
  BY <1>1, <1>2 DEF NewLists

LEMMA InitIInv == Init => IInv
<1> SUFFICES ASSUME Init PROVE IInv
  OBVIOUS
<1>1. TypeOK
  BY InitTypeOK
<1>2. Tracked(services)
  BY KeysDisjoint DEF Init, Tracked
<1> QED
  BY <1>1, <1>2 DEF Init, IInv, TrackInv, CopyInv, NoUpdate

\* A step that leaves the map, the keys and the thread alone.
LEMMA OtherStep ==
  ASSUME IInv, TypeOK', UNCHANGED <<worker, services, partition_keys>>
  PROVE  IInv'
BY DEF IInv, TrackInv, CopyInv, Tracked

LEMMA ProcessIInv ==
  ASSUME IInv, NEW w \in Workers, NEW i \in Slots, ProcessDiscover(w, i)
  PROVE  IInv'
<1>1. TypeOK'
  BY ProcessTypes DEF IInv
<1>2. CASE UNCHANGED worker
  BY <1>1, <1>2, OtherStep DEF ProcessDiscover
<1>3. CASE ~UNCHANGED worker
  <2>1. /\ worker[w] = NoUpdate /\ UNCHANGED <<services, partition_keys>>
        /\ worker'[w].pc = "copy"
        /\ \A v \in Workers : v # w => worker'[v] = worker[v]
    BY <1>3 DEF ProcessDiscover, IInv, TypeOK
  <2>2. Tracked(services) /\ (Tracked(services) => Tracked(services)')
    BY <2>1 DEF IInv, TrackInv, NoUpdate, Tracked
  <2>3. TrackInv'
    BY <2>1, <2>2 DEF IInv, TrackInv, Tracked
  <2>4. CopyInv'
    BY <2>1 DEF IInv, CopyInv
  <2> QED
    BY <1>1, <2>3, <2>4 DEF IInv
<1> QED
  BY <1>2, <1>3

\* What holds of the only thread holds of all.
LEMMA TheWorker ==
  ASSUME OneWorker, NEW w \in Workers
  PROVE  \A v \in Workers : v = w
BY DEF OneWorker

LEMMA UpdateIInv ==
  ASSUME OneWorker, IInv, NEW w \in Workers, UpdateStep(w)
  PROVE  IInv'
<1> DEFINE u == worker[w]
<1>0. TypeOK' /\ TypeOK
  BY UpdateTypes DEF IInv
<1>1. u \in Update /\ u.service \in Services /\ u.copy \in [Keys -> SUBSET Names]
  <2>1. u.pc # "idle"
    BY DEF UpdateStep, CopyServices, CleanPartitions, InsertLists, StoreServices
  <2> QED
    BY <1>0, <2>1, UpdateOf DEF Update
<1>2. \A v \in Workers : v = w
  BY TheWorker
<1>3. CASE CopyServices(w)
  <2>1. /\ worker'[w].pc = "clean" /\ worker'[w].copy = services
        /\ UNCHANGED <<services, partition_keys>> /\ u.pc = "copy"
    BY <1>0, <1>1, <1>3 DEF CopyServices, TypeOK, Update
  <2>2. Tracked(services)'
    BY <2>1 DEF IInv, TrackInv, Tracked
  <2>3. TrackInv'
    BY <1>2, <2>1, <2>2 DEF TrackInv
  <2>4. CopyInv'
    BY <1>2, <2>1 DEF CopyInv
  <2> QED
    BY <1>0, <2>3, <2>4 DEF IInv
<1>4. CASE CleanPartitions(w)
  <2> DEFINE s == u.service
             copy == [k \in Keys |-> IF k \in partition_keys[s] THEN {} ELSE u.copy[k]]
  <2>1. worker' = [worker EXCEPT ![w] = [u EXCEPT !.copy = copy, !.pc = "insert"]]
    BY <1>1, <1>4 DEF CleanPartitions
  <2>2. /\ u.pc = "clean" /\ UNCHANGED services /\ u.copy = services /\ Tracked(services)
        /\ partition_keys' = [partition_keys EXCEPT ![s] = {}]
    BY <1>4 DEF CleanPartitions, IInv, TrackInv
  <2>3. /\ worker'[w].pc = "insert" /\ worker'[w].copy = copy /\ worker'[w].service = s
    <3> HIDE DEF copy
    <3> QED
      BY <1>0, <1>1, <2>1 DEF TypeOK, Update
  <2>4. \A k \in Keys : copy[k] = IF k \in partition_keys[s] THEN {} ELSE services[k]
    BY <2>2
  <2>5. partition_keys[s] \subseteq PartitionKeys(s)
    BY <1>0, <1>1 DEF TypeOK
  <2>6. /\ partition_keys'[s] = {}
        /\ \A q \in Services : q # s => partition_keys'[q] = partition_keys[q]
    BY <1>0, <1>1, <2>2 DEF TypeOK
  <2> HIDE DEF copy
  <2>7. ASSUME NEW q \in Services
        PROVE  partition_keys'[q] = {k \in PartitionKeys(q) : copy[k] # {}}
    <3>1. partition_keys[q] = {k \in PartitionKeys(q) : services[k] # {}}
      BY <2>2 DEF Tracked
    <3>2. CASE q = s
      BY <2>4, <2>6, <3>1, <3>2, KeysDisjoint
    <3>3. CASE q # s
      <4>1. \A k \in PartitionKeys(q) : copy[k] = services[k]
        BY <1>1, <2>4, <2>5, <3>3, KeysDisjoint
      <4> QED
        BY <2>6, <3>1, <3>3, <4>1
    <3> QED
      BY <3>2, <3>3
  <2>8. TrackInv'
    BY <1>2, <2>3, <2>6, <2>7 DEF TrackInv, Tracked
  <2>9. ASSUME NEW q \in Services, NEW k \in ShardKeys(q) PROVE copy[k] = services[k]
    BY <1>1, <2>4, <2>5, KeysDisjoint
  <2>10. CopyInv'
    BY <1>2, <2>2, <2>3, <2>9 DEF CopyInv
  <2> QED
    BY <1>0, <2>8, <2>10 DEF IInv
<1>5. CASE InsertLists(w)
  <2> DEFINE s == u.service
             new == NewLists(s, u.list)
             found == {k \in Keys : new[k] # {}}
             copy == [k \in Keys |-> IF k \in found THEN new[k] ELSE u.copy[k]]
  <2>1. worker' = [worker EXCEPT ![w] = [u EXCEPT !.copy = copy, !.pc = "store"]]
    BY <1>1, <1>5 DEF InsertLists
  <2>2. /\ u.pc = "insert" /\ UNCHANGED services /\ Tracked(u.copy) /\ partition_keys[s] = {}
        /\ partition_keys' = [partition_keys EXCEPT ![s] = @ \cup (found \cap PartitionKeys(s))]
    BY <1>5 DEF InsertLists, IInv, TrackInv
  <2>3. /\ worker'[w].pc = "store" /\ worker'[w].copy = copy /\ worker'[w].service = s
    <3> HIDE DEF copy
    <3> QED
      BY <1>0, <1>1, <2>1 DEF TypeOK, Update
  <2>4. \A k \in Keys : copy[k] = IF new[k] # {} THEN new[k] ELSE u.copy[k]
    OBVIOUS
  <2>5. /\ partition_keys'[s] = found \cap PartitionKeys(s)
        /\ \A q \in Services : q # s => partition_keys'[q] = partition_keys[q]
    BY <1>0, <1>1, <2>2 DEF TypeOK
  <2>6. ASSUME NEW q \in Services, q # s, NEW k \in PartitionKeys(q) \cup ShardKeys(q)
        PROVE  copy[k] = u.copy[k]
    <3>1. new[k] = {}
      BY <1>1, <2>6, NewListsOwn
    <3>2. k \in Keys
      BY KeysDisjoint
    <3> HIDE DEF copy, new
    <3> QED
      BY <2>4, <3>1, <3>2
  <2>7. ASSUME NEW q \in Services
        PROVE  partition_keys'[q] = {k \in PartitionKeys(q) : copy[k] # {}}
    <3>1. partition_keys[q] = {k \in PartitionKeys(q) : u.copy[k] # {}}
      BY <2>2 DEF Tracked
    <3>2. CASE q = s
      <4>1. \A k \in PartitionKeys(s) : k \in Keys /\ u.copy[k] = {}
        BY <1>1, <2>2, <3>1, <3>2, KeysDisjoint
      <4>2. \A k \in PartitionKeys(s) : k \in found <=> copy[k] # {}
        <5> HIDE DEF copy, new
        <5> QED
          BY <2>4, <4>1
      <4> HIDE DEF copy, new, found
      <4> QED
        BY <2>5, <3>2, <4>2
    <3>3. CASE q # s
      <4> HIDE DEF copy, new, found
      <4> QED
        BY <2>5, <2>6, <3>1, <3>3
    <3> QED
      BY <3>2, <3>3
  <2>8. ASSUME NEW q \in Services, NEW k \in ShardKeys(q)
        PROVE  /\ services[k] # {} => copy[k] # {}
               /\ q # s => copy[k] = services[k]
    <3>1. /\ services[k] # {} => u.copy[k] # {}
          /\ q # s => u.copy[k] = services[k]
      BY <2>2 DEF IInv, CopyInv
    <3>2. k \in Keys
      BY KeysDisjoint
    <3> HIDE DEF copy, new, found
    <3> QED
      BY <2>4, <2>6, <3>1, <3>2
  <2> HIDE DEF copy, new, found
  <2>9. TrackInv'
    BY <1>2, <2>3, <2>7 DEF TrackInv, Tracked
  <2>10. CopyInv'
    BY <1>2, <2>2, <2>3, <2>8 DEF CopyInv
  <2> QED
    BY <1>0, <2>9, <2>10 DEF IInv
<1>6. CASE StoreServices(w)
  <2>1. /\ worker'[w] = NoUpdate /\ services' = u.copy /\ UNCHANGED partition_keys /\ Tracked(u.copy)
    BY <1>0, <1>6 DEF StoreServices, TypeOK, IInv, TrackInv
  <2>2. Tracked(services)'
    BY <2>1 DEF Tracked
  <2>3. TrackInv' /\ CopyInv'
    BY <1>2, <2>1, <2>2 DEF TrackInv, CopyInv, NoUpdate
  <2> QED
    BY <1>0, <2>3 DEF IInv
<1> QED
  BY <1>3, <1>4, <1>5, <1>6 DEF UpdateStep

LEMMA NextIInv ==
  ASSUME OneWorker PROVE IInv /\ [Next]_vars => IInv'
<1> SUFFICES ASSUME IInv, [Next]_vars PROVE IInv'
  OBVIOUS
<1>0. TypeOK'
  BY NextTypes DEF IInv
<1>1. CASE UNCHANGED <<worker, services, partition_keys>>
  BY <1>0, <1>1, OtherStep
<1>2. CASE \E i \in Slots, w \in Workers : ProcessDiscover(w, i)
  BY <1>2, ProcessIInv
<1>3. CASE \E w \in Workers : UpdateStep(w)
  BY <1>3, UpdateIInv
<1> QED
  BY <1>1, <1>2, <1>3 DEF Next, vars, ServerStep, ChangeServer, Beat, Expire, Unregister,
     Pull, Fallback, Answer, DiscoverFailed

LEMMA SpecIInv == ASSUME OneWorker PROVE Spec => []IInv
BY InitIInv, NextIInv, PTL DEF Spec

\* With one callback thread, no list of a partition outlives the update after
\* it: the keys that updateServers will erase are those that have a list.
THEOREM DiscoveryTracks == ASSUME OneWorker PROVE Spec => []PartitionsTracked
<1>1. IInv => PartitionsTracked
  <2> SUFFICES ASSUME IInv, \A w \in Workers : worker[w] = NoUpdate PROVE Tracked(services)
    BY DEF PartitionsTracked, Tracked
  <2>1. PICK w : w \in Workers
    BY DEF OneWorker
  <2> QED
    BY <2>1 DEF IInv, TrackInv, NoUpdate
<1> QED
  BY <1>1, SpecIInv, PTL

\* A step that changes the map is the end of an update.
LEMMA MapStep ==
  ASSUME [Next]_vars PROVE UNCHANGED services \/ \E w \in Workers : StoreServices(w)
BY DEF Next, vars, servers, consul, ServerStep, ChangeServer, Beat, Expire, Unregister, Pull, Fallback,
   Answer, DiscoverFailed, ProcessDiscover, UpdateStep, CopyServices, CleanPartitions, InsertLists

\* With one callback thread, a shard that has servers keeps a list.
THEOREM DiscoveryRoutable == ASSUME OneWorker PROVE Spec => ShardsStayRoutable
<1>1. IInv /\ [Next]_vars =>
        [\A s \in Services : \A k \in ShardKeys(s) : services[k] # {} => services'[k] # {}]_vars
  <2> SUFFICES ASSUME IInv, [Next]_vars, NEW s \in Services, NEW k \in ShardKeys(s), services[k] # {}
               PROVE  services'[k] # {}
    OBVIOUS
  <2>1. ASSUME NEW w \in Workers, StoreServices(w) PROVE services'[k] # {}
    BY <2>1 DEF StoreServices, IInv, CopyInv
  <2> QED
    BY <2>1, MapStep
<1> QED
  BY <1>1, SpecIInv, PTL DEF Spec, ShardsStayRoutable

\* With one callback thread, "thread safe queries and updates" (router.h:112)
\* holds: storing an update of one service leaves the lists of the others.
THEOREM UpdatesAlone == ASSUME OneWorker PROVE Spec => UpdatesIndependent
<1> DEFINE Ends(s) == \E w \in Workers : worker[w].pc = "store" /\ worker[w].service = s /\ worker'[w] = NoUpdate
<1>1. IInv /\ [Next]_vars =>
        [\A s \in Services : \A k \in ShardKeys(s) : services'[k] # services[k] => Ends(s)]_vars
  <2> SUFFICES ASSUME IInv, [Next]_vars, NEW s \in Services, NEW k \in ShardKeys(s), services'[k] # services[k]
               PROVE  Ends(s)
    OBVIOUS
  <2>1. PICK w \in Workers : StoreServices(w)
    BY MapStep
  <2>2. worker[w].pc = "store" /\ services' = worker[w].copy /\ worker'[w] = NoUpdate
    BY <2>1 DEF StoreServices, IInv, TypeOK
  <2>3. worker[w].service = s
    BY <2>2 DEF IInv, CopyInv
  <2> QED
    BY <2>2, <2>3
<1> QED
  BY <1>1, SpecIInv, PTL DEF Spec, UpdatesIndependent

-----------------------------------------------------------------------------
(* An update looks like one step *)

Erased(s) == [k \in Keys |-> IF k \in PartitionKeys(s) THEN {} ELSE services[k]]

Updated(s, list, lists) ==
  [k \in Keys |-> IF NewLists(s, list)[k] # {} THEN NewLists(s, list)[k]
                  ELSE IF k \in PartitionKeys(s) THEN {} ELSE lists[k]]

\* What the copy of an update is, in terms of the map as it is: the map without
\* the partitions of the service, and then the map as the list updates it.
AtomicInv ==
  \A w \in Workers : LET u == worker[w] IN
    /\ u.pc # "idle" => u.list # Empty
    /\ u.pc = "insert" => u.copy = Erased(u.service)
    /\ u.pc = "store" => u.copy = Updated(u.service, u.list, services)

LEMMA OtherAtomic ==
  ASSUME AtomicInv, UNCHANGED <<worker, services>>
  PROVE  AtomicInv'
BY DEF AtomicInv, Erased, Updated

LEMMA ProcessAtomic ==
  ASSUME IInv, AtomicInv, NEW w \in Workers, NEW i \in Slots, ProcessDiscover(w, i)
  PROVE  AtomicInv'
<1>1. CASE UNCHANGED worker
  BY <1>1, OtherAtomic DEF ProcessDiscover
<1>2. CASE ~UNCHANGED worker
  <2>1. /\ UNCHANGED services
        /\ worker'[w].pc = "copy" /\ worker'[w].list # Empty
        /\ \A v \in Workers : v # w => worker'[v] = worker[v]
    BY <1>2 DEF ProcessDiscover, IInv, TypeOK
  <2> QED
    BY <2>1 DEF AtomicInv, Erased, Updated
<1> QED
  BY <1>1, <1>2

LEMMA UpdateAtomic ==
  ASSUME OneWorker, IInv, AtomicInv, NEW w \in Workers, UpdateStep(w)
  PROVE  AtomicInv'
<1> DEFINE u == worker[w]
           s == u.service
<1>0. TypeOK
  BY DEF IInv
<1>1. u \in Update /\ s \in Services /\ u.copy \in [Keys -> SUBSET Names] /\ u.pc # "idle"
  <2>1. u.pc # "idle"
    BY DEF UpdateStep, CopyServices, CleanPartitions, InsertLists, StoreServices
  <2> QED
    BY <1>0, <2>1, UpdateOf DEF Update
<1>2. \A v \in Workers : v = w
  BY TheWorker
<1>3. u.list # Empty
  BY <1>1 DEF AtomicInv
<1>4. CASE CopyServices(w)
  <2>1. worker'[w].pc = "clean" /\ worker'[w].list = u.list
    BY <1>0, <1>1, <1>4 DEF CopyServices, TypeOK, Update
  <2> QED
    BY <1>2, <1>3, <2>1 DEF AtomicInv
<1>5. CASE CleanPartitions(w)
  <2> DEFINE copy == [k \in Keys |-> IF k \in partition_keys[s] THEN {} ELSE u.copy[k]]
  <2>1. worker' = [worker EXCEPT ![w] = [u EXCEPT !.copy = copy, !.pc = "insert"]]
    BY <1>1, <1>5 DEF CleanPartitions
  <2>2. /\ UNCHANGED services /\ u.copy = services
        /\ partition_keys[s] = {k \in PartitionKeys(s) : services[k] # {}}
    BY <1>1, <1>5 DEF CleanPartitions, IInv, TrackInv, Tracked
  <2>3. copy = Erased(s)
    BY <2>2 DEF Erased
  <2>4. worker'[w].pc = "insert" /\ worker'[w].copy = copy /\ worker'[w].service = s /\ worker'[w].list = u.list
    <3> HIDE DEF copy
    <3> QED
      BY <1>0, <1>1, <2>1 DEF TypeOK, Update
  <2> HIDE DEF copy
  <2>5. worker'[w].copy = [k \in Keys |-> IF k \in PartitionKeys(worker'[w].service) THEN {} ELSE services'[k]]
    BY <2>2, <2>3, <2>4 DEF Erased
  <2> QED
    BY <1>2, <1>3, <2>4, <2>5, Zenon DEF AtomicInv, Erased
<1>6. CASE InsertLists(w)
  <2> DEFINE new == NewLists(s, u.list)
             found == {k \in Keys : new[k] # {}}
             copy == [k \in Keys |-> IF k \in found THEN new[k] ELSE u.copy[k]]
  <2>1. worker' = [worker EXCEPT ![w] = [u EXCEPT !.copy = copy, !.pc = "store"]]
    BY <1>1, <1>6 DEF InsertLists
  <2>2. UNCHANGED services /\ u.copy = Erased(s)
    BY <1>6 DEF InsertLists, AtomicInv
  <2>3. copy = Updated(s, u.list, services)
    <3> HIDE DEF new
    <3>1. copy = [k \in Keys |-> IF new[k] # {} THEN new[k] ELSE IF k \in PartitionKeys(s) THEN {} ELSE services[k]]
      BY <2>2 DEF Erased
    <3> QED
      BY <3>1 DEF new, Updated
  <2>4. worker'[w].pc = "store" /\ worker'[w].copy = copy /\ worker'[w].service = s /\ worker'[w].list = u.list
    <3> HIDE DEF copy
    <3> QED
      BY <1>0, <1>1, <2>1 DEF TypeOK, Update
  <2> HIDE DEF copy, new, found, s
  <2>5. worker'[w].copy = Updated(worker'[w].service, worker'[w].list, services')
    BY <2>2, <2>3, <2>4
  <2> QED
    BY <1>2, <1>3, <2>4, <2>5, Zenon DEF AtomicInv
<1>7. CASE StoreServices(w)
  <2>1. worker'[w] = NoUpdate
    BY <1>0, <1>7 DEF StoreServices, TypeOK
  <2> QED
    BY <1>2, <2>1 DEF AtomicInv, NoUpdate
<1> QED
  BY <1>4, <1>5, <1>6, <1>7 DEF UpdateStep

LEMMA NextAtomic ==
  ASSUME OneWorker PROVE IInv /\ AtomicInv /\ [Next]_vars => AtomicInv'
<1> SUFFICES ASSUME IInv, AtomicInv, [Next]_vars PROVE AtomicInv'
  OBVIOUS
<1>1. CASE UNCHANGED <<worker, services>>
  BY <1>1, OtherAtomic
<1>2. CASE \E i \in Slots, w \in Workers : ProcessDiscover(w, i)
  BY <1>2, ProcessAtomic
<1>3. CASE \E w \in Workers : UpdateStep(w)
  BY <1>3, UpdateAtomic
<1> QED
  BY <1>1, <1>2, <1>3 DEF Next, vars, ServerStep, ChangeServer, Beat, Expire, Unregister,
     Pull, Fallback, Answer, DiscoverFailed

LEMMA SpecAtomic == ASSUME OneWorker PROVE Spec => [](IInv /\ AtomicInv)
<1>1. Init => AtomicInv
  BY DEF Init, AtomicInv, NoUpdate
<1> QED
  BY <1>1, InitIInv, NextIInv, NextAtomic, PTL DEF Spec

\* The mapping: a list is pending as long as an answer or an update holds it.
Flies(i, s, list) == flight[i].phase = "answered" /\ flight[i].service = s /\ flight[i].list = list
Updates(w, s, list) == worker[w] # NoUpdate /\ worker[w].service = s /\ worker[w].list = list
IsPending(s, list) ==
  (\E i \in Slots : Flies(i, s, list)) \/ (\E w \in Workers : Updates(w, s, list))

LEMMA PendingElement ==
  ASSUME NEW s \in Services, NEW list
  PROVE  /\ list \in Pending[s] <=> IsPending(s, list)
         /\ list \in Pending'[s] <=> IsPending(s, list)'
BY DEF Pending, IsPending, Flies, Updates

LEMMA PendingFunction ==
  /\ Pending = [s \in Services |-> Pending[s]]
  /\ Pending' = [s \in Services |-> Pending'[s]]
BY DEF Pending

LEMMA PendingSame ==
  ASSUME \A s \in Services : \A list : IsPending(s, list)' <=> IsPending(s, list)
  PROVE  UNCHANGED Pending
<1>1. ASSUME NEW s \in Services PROVE Pending'[s] = Pending[s]
  BY PendingElement
<1> QED
  BY <1>1, PendingFunction, Zenon

\* A list that an answer or an update gives up: it is pending until nothing
\* else holds it.
LEMMA PendingLoses ==
  ASSUME NEW s \in Services, NEW list,
         \A q \in Services : \A l : <<q, l>> # <<s, list>> => (IsPending(q, l)' <=> IsPending(q, l)),
         IsPending(s, list)
  PROVE  Pending' \in {Pending, [Pending EXCEPT ![s] = @ \ {list}]}
<1>1. ASSUME NEW q \in Services, q # s PROVE Pending'[q] = Pending[q]
  BY <1>1, PendingElement
<1>2. Pending'[s] \in {Pending[s], Pending[s] \ {list}}
  BY PendingElement
<1>3. Pending' = [q \in Services |-> IF q = s THEN Pending'[s] ELSE Pending[q]]
  BY <1>1, PendingFunction
<1>4. CASE Pending'[s] = Pending[s]
  BY <1>3, <1>4, PendingFunction
<1>5. CASE Pending'[s] = Pending[s] \ {list}
  <2> DEFINE P == Pending
             Q == Pending'
  <2> HIDE DEF P, Q
  <2>1. Q = [q \in Services |-> IF q = s THEN P[s] \ {list} ELSE P[q]] /\ P = [q \in Services |-> P[q]]
    BY <1>3, <1>5, PendingFunction DEF P, Q
  <2>2. Q = [P EXCEPT ![s] = @ \ {list}]
    BY <2>1
  <2> QED
    BY <2>2 DEF P, Q
<1> QED
  BY <1>2, <1>4, <1>5

LEMMA PendingGains ==
  ASSUME NEW s \in Services, NEW list,
         \A q \in Services : \A l : IsPending(q, l)' <=> IsPending(q, l) \/ <<q, l>> = <<s, list>>
  PROVE  Pending' = [Pending EXCEPT ![s] = @ \cup {list}]
<1> DEFINE P == Pending
           Q == Pending'
<1>1. ASSUME NEW q \in Services PROVE Q[q] = IF q = s THEN P[s] \cup {list} ELSE P[q]
  BY PendingElement
<1>2. P = [q \in Services |-> P[q]] /\ Q = [q \in Services |-> Q[q]]
  BY PendingFunction
<1> HIDE DEF P, Q
<1>3. Q = [P EXCEPT ![s] = @ \cup {list}]
  BY <1>1, <1>2
<1> QED
  BY <1>3 DEF P, Q

CacheVars == <<node, Pending, services>>

LEMMA InitCache == Init => Cache!Init
<1> SUFFICES ASSUME Init PROVE Cache!Init
  OBVIOUS
<1>1. node \in [Services -> List]
  BY InitTypeOK DEF TypeOK
<1>2. ASSUME NEW s \in Services PROVE Pending[s] = {}
  BY DEF Init, Pending, NoFetch
<1>3. Pending = [s \in Services |-> {}]
  BY <1>2, PendingFunction
<1> QED
  BY <1>1, <1>3 DEF Init, Cache!Init

LEMMA ServerRefines ==
  ASSUME TypeOK, TypeOK', NEW s \in Services, NEW n \in Names, ServerStep(s, n)
  PROVE  [Cache!Next]_CacheVars
<1>1. UNCHANGED <<flight, worker, services>> /\ node' \in [Services -> List]
  BY DEF ServerStep, ChangeServer, Beat, Expire, Unregister, TypeOK
<1>2. UNCHANGED Pending
  BY <1>1 DEF Pending
<1>3. Cache!Change
  BY <1>1, <1>2 DEF Cache!Change
<1> QED
  BY <1>3 DEF Cache!Next

LEMMA FetchRefines ==
  ASSUME TypeOK,
         \/ \E s \in Services : Pull(s) \/ Fallback(s)
         \/ \E i \in Slots : Answer(i) \/ DiscoverFailed(i)
  PROVE  [Cache!Next]_CacheVars
<1>1. ASSUME NEW i \in Slots, NEW f, flight' = [flight EXCEPT ![i] = f],
             flight[i].phase # "answered", f.phase # "answered", UNCHANGED <<node, worker, services>>
      PROVE  UNCHANGED CacheVars
  <2>1. \A j \in Slots : flight'[j] = IF j = i THEN f ELSE flight[j]
    BY <1>1 DEF TypeOK
  <2>2. ASSUME NEW q \in Services, NEW l, NEW j \in Slots PROVE Flies(j, q, l)' <=> Flies(j, q, l)
    BY <1>1, <2>1 DEF Flies
  <2>3. ASSUME NEW q \in Services, NEW l, NEW w \in Workers PROVE Updates(w, q, l)' <=> Updates(w, q, l)
    BY <1>1 DEF Updates
  <2>4. UNCHANGED Pending
    BY <2>2, <2>3, PendingSame DEF IsPending
  <2> QED
    BY <1>1, <2>4 DEF CacheVars
<1>2. ASSUME NEW s \in Services, Discover(s), UNCHANGED <<node, worker, services>>
      PROVE  UNCHANGED CacheVars
  <2>1. PICK i \in Slots : flight[i] = NoFetch /\ flight' = [flight EXCEPT ![i] = [phase |-> "sent", service |-> s]]
    BY <1>2 DEF Discover
  <2>2. flight[i].phase # "answered" /\ [phase |-> "sent", service |-> s].phase # "answered"
    BY <2>1 DEF NoFetch
  <2> QED
    BY <1>1, <1>2, <2>1, <2>2
<1>3. ASSUME NEW s \in Services, Pull(s) \/ Fallback(s) PROVE UNCHANGED CacheVars
  BY <1>2, <1>3 DEF Pull, Fallback, consul
<1>4. ASSUME NEW i \in Slots, DiscoverFailed(i) PROVE UNCHANGED CacheVars
  <2>1. flight[i].phase = "failed" /\ flight' = [flight EXCEPT ![i] = NoFetch] /\ NoFetch.phase = "none"
        /\ UNCHANGED <<node, worker, services>>
    BY <1>4 DEF DiscoverFailed, NoFetch, consul
  <2> QED
    BY <1>1, <2>1
<1>5. ASSUME NEW i \in Slots, Answer(i) PROVE [Cache!Next]_CacheVars
  <2> DEFINE s == flight[i].service
             f == [phase |-> "answered", service |-> s, index |-> index[s], list |-> node[s]]
  <2>1. flight[i].phase = "sent" /\ UNCHANGED <<node, worker, services>>
    BY <1>5 DEF Answer, consul
  <2>2. flight[i] \in [phase : {"sent", "failed"}, service : Services] /\ s \in Services
    <3>1. flight[i] # NoFetch
      BY <2>1 DEF NoFetch
    <3> QED
      BY <2>1, <3>1 DEF TypeOK, Fetch
  <2>3. CASE flight' = [flight EXCEPT ![i] = [flight[i] EXCEPT !.phase = "failed"]]
    <3>1. [flight[i] EXCEPT !.phase = "failed"].phase # "answered"
      BY <2>2
    <3> QED
      BY <1>1, <2>1, <2>3, <3>1
  <2>4. CASE flight' = [flight EXCEPT ![i] = f]
    <3>1. f.phase = "answered" /\ f.service = s /\ f.list = node[s]
      OBVIOUS
    <3> HIDE DEF f, s
    <3>2. \A j \in Slots : flight'[j] = IF j = i THEN f ELSE flight[j]
      BY <2>4 DEF TypeOK
    <3>3. ASSUME NEW q \in Services, NEW l, NEW j \in Slots
          PROVE  Flies(j, q, l)' <=> Flies(j, q, l) \/ (j = i /\ q = s /\ l = node[s])
      BY <2>1, <3>1, <3>2 DEF Flies
    <3>4. ASSUME NEW q \in Services, NEW l, NEW w \in Workers PROVE Updates(w, q, l)' <=> Updates(w, q, l)
      BY <2>1 DEF Updates
    <3>5. ASSUME NEW q \in Services, NEW l
          PROVE  IsPending(q, l)' <=> IsPending(q, l) \/ <<q, l>> = <<s, node[s]>>
      BY <3>3, <3>4 DEF IsPending
    <3>6. Pending' = [Pending EXCEPT ![s] = @ \cup {node[s]}]
      BY <2>2, <3>5, PendingGains DEF s
    <3>7. Cache!Fetch(s)
      BY <2>1, <3>6 DEF Cache!Fetch
    <3> QED
      BY <2>2, <3>7 DEF Cache!Next, s
  <2> QED
    BY <1>5, <2>3, <2>4 DEF Answer
<1> QED
  BY <1>3, <1>4, <1>5

LEMMA ProcessRefines ==
  ASSUME TypeOK, NEW w \in Workers, NEW i \in Slots, ProcessDiscover(w, i)
  PROVE  [Cache!Next]_CacheVars
<1> DEFINE s == flight[i].service
           list == flight[i].list
<1>1. flight[i].phase = "answered" /\ s \in Services /\ list \in List
  <2>1. flight[i] # NoFetch /\ flight[i].phase = "answered"
    BY DEF ProcessDiscover, NoFetch
  <2> QED
    BY <2>1 DEF TypeOK, Fetch
<1>2. /\ UNCHANGED <<node, services>> /\ worker[w] = NoUpdate
      /\ \A j \in Slots : flight'[j] = IF j = i THEN NoFetch ELSE flight[j]
  BY DEF ProcessDiscover, consul, TypeOK
<1>3. IsPending(s, list)
  BY <1>1 DEF IsPending, Flies
<1>4. ASSUME NEW q \in Services, NEW l, NEW j \in Slots
      PROVE  Flies(j, q, l)' <=> Flies(j, q, l) /\ j # i
  BY <1>2 DEF Flies, NoFetch
<1>5. ASSUME NEW q \in Services, NEW l PROVE Flies(i, q, l) <=> <<q, l>> = <<s, list>>
  BY <1>1 DEF Flies
<1>6. CASE UNCHANGED worker
  <2>1. ASSUME NEW q \in Services, NEW l, NEW v \in Workers PROVE Updates(v, q, l)' <=> Updates(v, q, l)
    BY <1>6 DEF Updates
  <2>2. ASSUME NEW q \in Services, NEW l, <<q, l>> # <<s, list>> PROVE IsPending(q, l)' <=> IsPending(q, l)
    BY <1>4, <1>5, <2>1, <2>2 DEF IsPending
  <2>3. Pending' \in {Pending, [Pending EXCEPT ![s] = @ \ {list}]}
    BY <1>1, <1>3, <2>2, PendingLoses
  <2>4. UNCHANGED CacheVars \/ Cache!Drop(s, list)
    BY <1>2, <2>3 DEF CacheVars, Cache!Drop
  <2> QED
    BY <1>1, <2>4 DEF Cache!Next
<1>7. CASE ~UNCHANGED worker
  <2>1. \A v \in Workers : v # w => worker'[v] = worker[v]
    BY <1>7 DEF ProcessDiscover, TypeOK
  <2>2. worker'[w] = [pc |-> "copy", service |-> s, list |-> list, copy |-> [k \in Keys |-> {}]]
    BY <1>7 DEF ProcessDiscover, TypeOK
  <2>3. worker'[w] # NoUpdate /\ worker'[w].service = s /\ worker'[w].list = list
    BY <2>2 DEF NoUpdate
  <2>4. ASSUME NEW q \in Services, NEW l, NEW v \in Workers
        PROVE  Updates(v, q, l)' <=> Updates(v, q, l) \/ (v = w /\ <<q, l>> = <<s, list>>)
    BY <1>2, <2>1, <2>3 DEF Updates
  <2>5. ASSUME NEW q \in Services, NEW l PROVE IsPending(q, l)' <=> IsPending(q, l)
    BY <1>4, <1>5, <2>4 DEF IsPending
  <2> QED
    BY <1>2, <2>5, PendingSame DEF CacheVars
<1> QED
  BY <1>6, <1>7

LEMMA UpdateRefines ==
  ASSUME OneWorker, IInv, AtomicInv, NEW w \in Workers, UpdateStep(w)
  PROVE  [Cache!Next]_CacheVars
<1> DEFINE u == worker[w]
           s == u.service
           list == u.list
<1>0. TypeOK
  BY DEF IInv
<1>1. u \in Update /\ u.pc # "idle" /\ s \in Services /\ list \in List /\ list # Empty
  <2>1. u.pc # "idle"
    BY DEF UpdateStep, CopyServices, CleanPartitions, InsertLists, StoreServices
  <2> QED
    BY <1>0, <2>1, UpdateOf DEF Update, AtomicInv
<1>2. UNCHANGED <<node, flight>> /\ \A v \in Workers : v # w => worker'[v] = worker[v]
  BY <1>0 DEF UpdateStep, CopyServices, CleanPartitions, InsertLists, StoreServices, consul, TypeOK
<1>3. u # NoUpdate
  BY <1>1 DEF NoUpdate
<1>4. ASSUME NEW q \in Services, NEW l, NEW j \in Slots PROVE Flies(j, q, l)' <=> Flies(j, q, l)
  BY <1>2 DEF Flies
<1>5. CASE StoreServices(w)
  <2>1. worker'[w] = NoUpdate /\ u.pc = "store" /\ services' = u.copy
    BY <1>0, <1>5 DEF StoreServices, TypeOK
  <2>2. ASSUME NEW q \in Services, NEW l, NEW v \in Workers
        PROVE  Updates(v, q, l)' <=> Updates(v, q, l) /\ v # w
    BY <1>2, <2>1 DEF Updates
  <2>3. ASSUME NEW q \in Services, NEW l PROVE Updates(w, q, l) <=> <<q, l>> = <<s, list>>
    BY <1>3 DEF Updates
  <2>4. ASSUME NEW q \in Services, NEW l, <<q, l>> # <<s, list>> PROVE IsPending(q, l)' <=> IsPending(q, l)
    BY <1>4, <2>2, <2>3, <2>4 DEF IsPending
  <2>5. IsPending(s, list)
    BY <1>1, <2>3 DEF IsPending
  <2>6. Pending' \in {Pending, [Pending EXCEPT ![s] = @ \ {list}]} /\ list \in Pending[s]
    BY <1>1, <2>4, <2>5, PendingLoses, PendingElement
  <2>7. services' = Cache!Updated(s, list)
    BY <2>1 DEF AtomicInv, Updated, Cache!Updated
  <2>8. Cache!Apply(s, list)
    BY <1>1, <1>2, <2>6, <2>7 DEF Cache!Apply
  <2> QED
    BY <1>1, <2>8 DEF Cache!Next
<1>6. CASE ~StoreServices(w)
  <2>1. UNCHANGED services
    BY <1>6 DEF UpdateStep, CopyServices, CleanPartitions, InsertLists
  <2>2. worker'[w].pc # "idle" /\ worker'[w].service = s /\ worker'[w].list = list
    BY <1>0, <1>1, <1>6 DEF UpdateStep, CopyServices, CleanPartitions, InsertLists, TypeOK, Update
  <2>3. worker'[w] # NoUpdate
    BY <2>2 DEF NoUpdate
  <2>4. ASSUME NEW q \in Services, NEW l, NEW v \in Workers PROVE Updates(v, q, l)' <=> Updates(v, q, l)
    BY <1>2, <1>3, <2>2, <2>3 DEF Updates
  <2>5. UNCHANGED Pending
    BY <1>4, <2>4, PendingSame DEF IsPending
  <2> QED
    BY <1>2, <2>1, <2>5 DEF CacheVars
<1> QED
  BY <1>5, <1>6

\* With one callback thread updateServers is atomic: the cache only ever goes
\* from one state to the next by the whole update of one service by one list
\* that consul held when it was fetched, and never by an empty one.
THEOREM DiscoveryImplements == ASSUME OneWorker PROVE Spec => CacheSpec
<1>1. IInv /\ AtomicInv /\ [Next]_vars => [Cache!Next]_CacheVars
  <2> SUFFICES ASSUME IInv, AtomicInv, [Next]_vars PROVE [Cache!Next]_CacheVars
    OBVIOUS
  <2>1. CASE UNCHANGED vars
    BY <2>1 DEF vars, consul, CacheVars, Pending
  <2>2. TypeOK /\ TypeOK'
    BY NextTypes DEF IInv
  <2> QED
    BY <2>1, <2>2, ServerRefines, FetchRefines, ProcessRefines, UpdateRefines DEF Next
<1> QED
  BY <1>1, InitCache, SpecAtomic, PTL DEF Spec, CacheSpec, Cache!Spec, CacheVars
=============================================================================
