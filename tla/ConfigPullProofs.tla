-------------------------- MODULE ConfigPullProofs --------------------------
(***************************************************************************)
(* The config of a service on its way into RouterDb, for any number of     *)
(* creations and failures: types for any number of fetches in flight, and  *)
(* that nothing is forgotten when fetches do not overlap.                  *)
(***************************************************************************)
EXTENDS ConfigPull, TLAPS

\* The version key is at most one creation behind the values, and what the
\* pullers and the answers carry was in consul once.
WritesInv ==
  /\ values = version \/ values = version + 1
  /\ \A p \in Pullers : read[p] <= version
  /\ \A i \in Slots : LET f == flight[i] IN
       f.phase = "answered" => /\ f.values <= values /\ f.index <= values + version
                               /\ f.index = 2 * f.values \/ f.index = 2 * f.values - 1

TypeInv == TypeOK /\ WritesInv

LEMMA InitTypeInv == Init => TypeInv
<1> SUFFICES ASSUME Init PROVE TypeInv
  OBVIOUS
<1>1. TypeOK
  <2>1. NoFetch \in Fetch
    BY DEF Fetch, NoFetch
  <2>2. ready \in BOOLEAN /\ fallback \in BOOLEAN /\ lost \in BOOLEAN
    BY Zenon DEF Init
  <2>3. flight \in [Slots -> Fetch]
    BY <2>1 DEF Init
  <2>4. /\ pc \in [Pullers -> {"start", "idle", "read", "fetch", "wait", "done"}]
        /\ read \in [Pullers -> Nat]
    BY DEF Init
  <2> QED
    BY <2>2, <2>3, <2>4 DEF Init, TypeOK
<1>2. WritesInv
  BY DEF Init, WritesInv, NoFetch
<1> QED
  BY <1>1, <1>2 DEF TypeInv

LEMMA CreateTypeInv ==
  ASSUME TypeInv, CreateValues \/ CreateVersion PROVE TypeInv'
<1> USE DEF TypeInv, TypeOK
<1>1. CASE CreateValues
  BY <1>1 DEF CreateValues, WritesInv, Fetch
<1>2. CASE CreateVersion
  BY <1>2 DEF CreateVersion, WritesInv, Fetch
<1> QED
  BY <1>1, <1>2

\* The steps that only move a puller.
LEMMA MoveTypeInv ==
  ASSUME TypeInv, TimerPull \/ Fallback \/ StartWait \/ EndWait PROVE TypeInv'
BY DEF TypeInv, TypeOK, WritesInv, TimerPull, Fallback, StartWait, EndWait, Pullers

LEMMA PullTypeInv ==
  ASSUME TypeInv, NEW p \in Pullers, Pull(p) PROVE TypeInv'
<1> USE DEF TypeInv, TypeOK
<1>0. After(p) \in {"idle", "wait"}
  BY DEF After
<1>1. CASE ReadVersion(p)
  BY <1>1 DEF ReadVersion, WritesInv
<1>2. CASE RecordVersion(p)
  BY <1>0, <1>2 DEF RecordVersion, WritesInv
<1>3. CASE FetchValues(p)
  <2>1. PICK i \in Slots : flight[i] = NoFetch /\ flight' = [flight EXCEPT ![i].phase = "sent"]
    BY <1>3 DEF FetchValues
  <2>2. flight' \in [Slots -> Fetch]
    BY <2>1 DEF Fetch
  <2>3. TypeOK'
    BY <1>0, <1>3, <2>2 DEF FetchValues
  <2>4. WritesInv'
    BY <1>3, <2>1 DEF FetchValues, WritesInv, Fetch
  <2> QED
    BY <2>3, <2>4
<1> QED
  BY <1>1, <1>2, <1>3 DEF Pull

LEMMA DeliverTypeInv ==
  ASSUME TypeInv, NEW i \in Slots, Deliver(i) PROVE TypeInv'
<1> USE DEF TypeInv, TypeOK
<1>1. CASE Answer(i)
  <2>1. flight' \in [Slots -> Fetch]
    BY <1>1 DEF Answer, Fetch, Index
  <2>2. TypeOK'
    BY <1>1, <2>1 DEF Answer
  <2>3. WritesInv'
    BY <1>1 DEF Answer, WritesInv, Fetch, Index
  <2> QED
    BY <2>2, <2>3
<1>2. CASE ProcessConfig(i)
  <2>1. flight' \in [Slots -> Fetch] /\ flight[i] \in Fetch
    BY <1>2 DEF ProcessConfig, Fetch, NoFetch
  <2>2. /\ last_index' \in Nat /\ last_index' <= values' + version'
        /\ config' \in Nat /\ config' <= values'
    BY <1>2, <2>1 DEF ProcessConfig, WritesInv, Fetch
  <2>3. ready' \in BOOLEAN /\ fallback' \in BOOLEAN /\ lost' \in BOOLEAN
    BY <1>2 DEF ProcessConfig
  <2>4. WritesInv'
    BY <1>2 DEF ProcessConfig, WritesInv, Fetch, NoFetch
  <2> QED
    BY <1>2, <2>1, <2>2, <2>3, <2>4 DEF ProcessConfig
<1>3. CASE FetchFailed(i)
  <2>1. flight' \in [Slots -> Fetch]
    BY <1>3 DEF FetchFailed, Fetch, NoFetch
  <2> QED
    BY <1>3, <2>1 DEF FetchFailed, WritesInv, Fetch, NoFetch
<1> QED
  BY <1>1, <1>2, <1>3 DEF Deliver

LEMMA NextTypeInv == TypeInv /\ [Next]_vars => TypeInv'
<1> SUFFICES ASSUME TypeInv, [Next]_vars PROVE TypeInv'
  OBVIOUS
<1>1. CASE UNCHANGED vars
  BY <1>1 DEF vars, TypeInv, TypeOK, WritesInv
<1> QED
  BY <1>1, CreateTypeInv, MoveTypeInv, PullTypeInv, DeliverTypeInv DEF Next

\* RouterDb never holds a config nobody created, nor records a version that is
\* not there yet, however many fetches overlap.
THEOREM ConfigPullTypes == Spec => []TypeOK
<1>1. TypeInv => TypeOK
  BY DEF TypeInv
<1> QED
  BY InitTypeInv, NextTypeInv, <1>1, PTL DEF Spec

-----------------------------------------------------------------------------
(* Fetches that do not overlap *)

OneFetch == \A i, j \in Slots : i = j

Fetching == \E p \in Pullers : pc[p] = "fetch"

\* The index last seen is the one of the config in RouterDb, and no answer is
\* older than that.
OrderInv ==
  /\ last_index = 2 * config \/ last_index = 2 * config - 1
  /\ \A i \in Slots : flight[i].phase = "answered" =>
       config <= flight[i].values /\ last_index <= flight[i].index

\* A recorded version that RouterDb does not have yet is on its way: a puller is
\* about to fetch it, or a fetch that began after it was recorded is not done.
\* Only a fetch that fails ends this.
PromiseInv ==
  /\ (config < recorded /\ \A i \in Slots : flight[i].phase = "none") => lost \/ Fetching
  /\ \A i \in Slots : flight[i].phase = "answered" => recorded <= flight[i].values \/ Fetching

IInv == TypeInv /\ OrderInv /\ PromiseInv

LEMMA InitIInv == Init => IInv
BY InitTypeInv DEF Init, IInv, OrderInv, PromiseInv, NoFetch

LEMMA CreateIInv ==
  ASSUME IInv, CreateValues \/ CreateVersion PROVE IInv'
<1>1. TypeInv'
  BY CreateTypeInv DEF IInv
<1> QED
  BY <1>1 DEF IInv, OrderInv, PromiseInv, Fetching, CreateValues, CreateVersion

LEMMA MoveIInv ==
  ASSUME IInv, TimerPull \/ Fallback \/ StartWait \/ EndWait PROVE IInv'
<1>1. TypeInv'
  BY MoveTypeInv DEF IInv
<1>2. UNCHANGED <<config, recorded, last_index, flight, lost>>
  BY DEF TimerPull, Fallback, StartWait, EndWait
<1>3. Fetching => Fetching'
  BY DEF IInv, TypeInv, TypeOK, Fetching, TimerPull, Fallback, StartWait, EndWait
<1> QED
  BY <1>1, <1>2, <1>3 DEF IInv, OrderInv, PromiseInv

LEMMA PullIInv ==
  ASSUME OneFetch, IInv, NEW p \in Pullers, Pull(p) PROVE IInv'
<1>0. TypeInv'
  BY PullTypeInv DEF IInv
<1>1. CASE ReadVersion(p)
  <2>1. Fetching => Fetching'
    BY <1>1 DEF IInv, TypeInv, TypeOK, Fetching, ReadVersion
  <2> QED
    BY <1>0, <1>1, <2>1 DEF IInv, OrderInv, PromiseInv, ReadVersion
<1>2. CASE RecordVersion(p)
  <2>1. CASE recorded = read[p]
    <3>1. UNCHANGED <<recorded, config, last_index, flight, lost>>
      BY <1>2, <2>1 DEF RecordVersion
    <3>2. Fetching => Fetching'
      BY <1>2, <2>1 DEF IInv, TypeInv, TypeOK, Fetching, RecordVersion
    <3> QED
      BY <1>0, <3>1, <3>2 DEF IInv, OrderInv, PromiseInv
  <2>2. CASE recorded # read[p]
    <3>1. Fetching'
      BY <1>2, <2>2 DEF IInv, TypeInv, TypeOK, Fetching, RecordVersion
    <3>2. UNCHANGED <<config, last_index, flight>>
      BY <1>2 DEF RecordVersion
    <3> QED
      BY <1>0, <3>1, <3>2 DEF IInv, OrderInv, PromiseInv
  <2> QED
    BY <2>1, <2>2
<1>3. CASE FetchValues(p)
  <2>1. PICK i \in Slots : flight[i] = NoFetch /\ flight' = [flight EXCEPT ![i].phase = "sent"]
    BY <1>3 DEF FetchValues
  <2>2. \A j \in Slots : flight'[j].phase = "sent"
    BY <2>1 DEF OneFetch, IInv, TypeInv, TypeOK, Fetch
  <2>3. UNCHANGED <<config, last_index>>
    BY <1>3 DEF FetchValues
  <2> QED
    BY <1>0, <2>1, <2>2, <2>3 DEF IInv, OrderInv, PromiseInv
<1> QED
  BY <1>1, <1>2, <1>3 DEF Pull

LEMMA DeliverIInv ==
  ASSUME OneFetch, IInv, NEW i \in Slots, Deliver(i) PROVE IInv'
<1>0. TypeInv'
  BY DeliverTypeInv DEF IInv
<1>1. \A j \in Slots : j = i
  BY DEF OneFetch
<1>2. flight[i] \in Fetch /\ flight \in [Slots -> Fetch]
  BY DEF IInv, TypeInv, TypeOK
<1>3. CASE Answer(i)
  <2>1. UNCHANGED <<config, last_index, recorded, pc, lost>> /\ (Fetching' <=> Fetching)
    BY <1>3 DEF Answer, Fetching
  <2>2. CASE flight' = [flight EXCEPT ![i] = [phase |-> "answered", values |-> values, index |-> Index]]
    <3>1. flight'[i] = [phase |-> "answered", values |-> values, index |-> Index]
      BY <1>2, <2>2
    <3>2. /\ config <= values /\ recorded <= values /\ last_index <= Index
      BY DEF IInv, TypeInv, TypeOK, Index
    <3>3. OrderInv'
      BY <1>1, <2>1, <3>1, <3>2 DEF IInv, OrderInv
    <3>4. PromiseInv'
      BY <1>1, <2>1, <3>1, <3>2 DEF PromiseInv
    <3> QED
      BY <1>0, <3>3, <3>4 DEF IInv
  <2>3. CASE flight' = [flight EXCEPT ![i].phase = "failed"]
    <3>1. flight'[i].phase = "failed"
      BY <1>2, <2>3
    <3> QED
      BY <1>0, <1>1, <2>1, <3>1 DEF IInv, OrderInv, PromiseInv
  <2> QED
    BY <1>3, <2>2, <2>3 DEF Answer
<1>4. CASE ProcessConfig(i)
  <2> DEFINE f == flight[i]
  <2>1. f.phase = "answered" /\ f.values \in Nat /\ f.index \in Nat /\ last_index' = f.index
    BY <1>2, <1>4 DEF ProcessConfig, Fetch
  <2>2. \A j \in Slots : flight'[j].phase = "none"
    BY <1>1, <1>2, <1>4 DEF ProcessConfig, NoFetch
  <2>3. UNCHANGED <<recorded, pc>> /\ (Fetching' <=> Fetching)
    BY <1>4 DEF ProcessConfig, Fetching
  <2>4. /\ config \in Nat /\ recorded \in Nat /\ config <= f.values
        /\ last_index = 2 * config \/ last_index = 2 * config - 1
        /\ f.index = 2 * f.values \/ f.index = 2 * f.values - 1
        /\ recorded <= f.values \/ Fetching
    BY <2>1 DEF IInv, TypeInv, TypeOK, WritesInv, OrderInv, PromiseInv
  <2>5. config' = IF f.values # 0 /\ f.index # last_index THEN f.values ELSE config
    BY <1>4 DEF ProcessConfig, IsUpdate
  <2>6. config' = f.values
    BY <2>1, <2>4, <2>5
  <2> QED
    BY <1>0, <2>1, <2>2, <2>3, <2>4, <2>6 DEF IInv, OrderInv, PromiseInv
<1>5. CASE FetchFailed(i)
  <2>1. \A j \in Slots : flight'[j].phase = "none"
    BY <1>1, <1>2, <1>5 DEF FetchFailed, NoFetch
  <2>2. lost' /\ UNCHANGED <<config, last_index>>
    BY <1>5 DEF FetchFailed
  <2> QED
    BY <1>0, <2>1, <2>2 DEF IInv, OrderInv, PromiseInv
<1> QED
  BY <1>3, <1>4, <1>5 DEF Deliver

LEMMA NextIInv ==
  ASSUME OneFetch PROVE IInv /\ [Next]_vars => IInv'
<1> SUFFICES ASSUME IInv, [Next]_vars PROVE IInv'
  OBVIOUS
<1>1. CASE UNCHANGED vars
  <2>1. TypeInv'
    BY NextTypeInv DEF IInv
  <2> QED
    BY <1>1, <2>1 DEF vars, IInv, OrderInv, PromiseInv, Fetching
<1> QED
  BY <1>1, CreateIInv, MoveIInv, PullIInv, DeliverIInv DEF Next

\* If fetches of the values do not overlap, a config that getConfig recorded as
\* fetched is in RouterDb once nothing is under way, unless its fetch failed:
\* for any number of creations, and whoever pulls in between.
THEOREM ForgetsNothing == ASSUME OneFetch PROVE Spec => []NothingForgotten
<1>1. IInv => NothingForgotten
  <2>1. ASSUME NEW i \in Slots, flight[i] = NoFetch PROVE flight[i].phase = "none"
    BY <2>1 DEF NoFetch
  <2> QED
    BY <2>1 DEF NothingForgotten, IInv, PromiseInv, Fetching, TypeInv, TypeOK
<1> QED
  BY InitIInv, NextIInv, <1>1, PTL DEF Spec

\* Under the same condition the index RouterDb is at never goes back, as
\* doc/LLD.md:202 has it: that answers overtake each other is the only way.
THEOREM IndexNeverBack == ASSUME OneFetch PROVE Spec => IndexGrows
<1>1. IInv /\ [Next]_vars => [last_index' >= last_index]_vars
  <2> SUFFICES ASSUME IInv, Next PROVE last_index' >= last_index
    BY DEF vars
  <2>1. last_index \in Nat /\ flight \in [Slots -> Fetch]
    BY DEF IInv, TypeInv, TypeOK
  <2>2. CASE \E i \in Slots : ProcessConfig(i)
    BY <2>1, <2>2 DEF IInv, OrderInv, ProcessConfig, Fetch
  <2>3. CASE UNCHANGED last_index
    BY <2>1, <2>3
  <2> QED
    BY <2>2, <2>3 DEF Next, CreateValues, CreateVersion, TimerPull, Fallback, StartWait, EndWait,
       Pull, ReadVersion, RecordVersion, FetchValues, Deliver, Answer, FetchFailed
<1> QED
  BY InitIInv, NextIInv, <1>1, PTL DEF Spec, IndexGrows
=============================================================================
