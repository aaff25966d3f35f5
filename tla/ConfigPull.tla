----------------------------- MODULE ConfigPull -----------------------------
(***************************************************************************)
(* How the config of one service gets from consul into RouterDb:           *)
(* service_manager writes the values and then a version key;               *)
(* ConsulRegistry::getConfig, called by the puller's timer, by the         *)
(* fallback timer and by a thread in waitForConfig, reads the version key, *)
(* and fetches the values when the version is not the recorded one.        *)
(*                                                                         *)
(* The values and the version of the k-th creation are both the number k.  *)
(* Both keys lie under the path the values are fetched from, so the consul *)
(* index of that path is the number of writes so far.                      *)
(***************************************************************************)
EXTENDS Integers

CONSTANTS
  Slots,        \* bound: fetches in flight
  FailKinds,    \* requests that may fail: "version", "values"
  MaxCreates,   \* bound: runs of service_manager create
  MaxFailures   \* bound: requests that fail

Pullers == {"evb", "waiter"}   \* the event base thread, a thread in waitForConfig
Fetch == [phase : {"none", "sent", "answered", "failed"}, values : Nat, index : Nat]
NoFetch == [phase |-> "none", values |-> 0, index |-> 0]

ASSUME ConstantsAssumption ==
  /\ FailKinds \subseteq {"version", "values"}
  /\ MaxCreates \in Nat /\ MaxFailures \in Nat

VARIABLES
  values, version,  \* consul: the last values and version written, 0 when absent
  recorded,         \* config_versions_, 0 when absent
  last_index,       \* last_indexes_ of the config path
  config,           \* configs_ of RouterDb, 0 when absent
  ready,            \* the semaphore of the ServiceInfoPuller has been posted
  fallback,         \* a GET_CONFIG entry is in fallbacks_
  flight,           \* fetches of the values
  pc,               \* of each puller
  read,             \* of each puller: the version key it has read, 0 for none
  failures,
  lost              \* history: the last fetch that came to an end has failed

vars == <<values, version, recorded, last_index, config, ready, fallback, flight, pc, read, failures, lost>>

TypeOK ==
  /\ values \in Nat /\ version \in Nat /\ version <= values
  /\ recorded \in Nat /\ recorded <= version
  /\ last_index \in Nat /\ last_index <= values + version
  /\ config \in Nat /\ config <= values
  /\ ready \in BOOLEAN /\ fallback \in BOOLEAN
  /\ flight \in [Slots -> Fetch]
  /\ pc \in [Pullers -> {"start", "idle", "read", "fetch", "wait", "done"}]
  /\ read \in [Pullers -> Nat]
  /\ failures \in Nat /\ lost \in BOOLEAN

Init ==
  /\ values \in {0, 1} /\ version = values
  /\ recorded = 0 /\ last_index = 0 /\ config = 0
  /\ ready = FALSE /\ fallback = FALSE
  /\ flight = [i \in Slots |-> NoFetch]
  /\ pc = [p \in Pullers |-> IF p = "evb" THEN "idle" ELSE "start"]
  /\ read = [p \in Pullers |-> 0]
  /\ failures = 0 /\ lost = FALSE

Index == values + version
MayFail(kind) == kind \in FailKinds /\ failures < MaxFailures

-----------------------------------------------------------------------------
(* service_manager create: router config and configs first, version last. *)

\* Faulty: the version is announced before the values are there.
CreateVersionFirst ==
  /\ values = version /\ values < MaxCreates
  /\ version' = version + 1
  /\ UNCHANGED <<values, recorded, last_index, config, ready, fallback, flight, pc, read, failures, lost>>

CreateValues ==
  /\ values = version /\ values < MaxCreates
  /\ values' = values + 1
  /\ UNCHANGED <<version, recorded, last_index, config, ready, fallback, flight, pc, read, failures, lost>>

CreateVersion ==
  /\ version < values
  /\ version' = values
  /\ UNCHANGED <<values, recorded, last_index, config, ready, fallback, flight, pc, read, failures, lost>>

-----------------------------------------------------------------------------
(* getConfig *)

\* The timer of the puller fires, or the fallback timer finds an entry.
TimerPull ==
  /\ pc["evb"] = "idle"
  /\ pc' = [pc EXCEPT !["evb"] = "read"]
  /\ UNCHANGED <<values, version, recorded, last_index, config, ready, fallback, flight, read, failures, lost>>

Fallback ==
  /\ pc["evb"] = "idle"
  /\ fallback
  /\ fallback' = FALSE
  /\ pc' = [pc EXCEPT !["evb"] = "read"]
  /\ UNCHANGED <<values, version, recorded, last_index, config, ready, flight, read, failures, lost>>

\* ServiceInfoPuller::wait pulls only while the semaphore has not been posted.
StartWait ==
  /\ pc["waiter"] = "start"
  /\ pc' = [pc EXCEPT !["waiter"] = IF ready THEN "wait" ELSE "read"]
  /\ UNCHANGED <<values, version, recorded, last_index, config, ready, fallback, flight, read, failures, lost>>

After(p) == IF p = "evb" THEN "idle" ELSE "wait"

\* The synchronous read of the version key.  When it fails, or there is no
\* such key, the values are fetched in any case.
ReadVersion(p) ==
  /\ pc[p] = "read" /\ read[p] = 0
  /\ \/ /\ version # 0
        /\ read' = [read EXCEPT ![p] = version]
        /\ UNCHANGED <<pc, failures>>
     \/ /\ version = 0 \/ MayFail("version")
        /\ pc' = [pc EXCEPT ![p] = "fetch"]
        /\ failures' = IF version = 0 THEN failures ELSE failures + 1
        /\ UNCHANGED read
  /\ UNCHANGED <<values, version, recorded, last_index, config, ready, fallback, flight, lost>>

\* config_versions_: nothing to do, or record the version and go on.
RecordVersion(p) ==
  /\ pc[p] = "read" /\ read[p] # 0
  /\ \/ /\ recorded = read[p]
        /\ pc' = [pc EXCEPT ![p] = After(p)]
        /\ UNCHANGED recorded
     \/ /\ recorded # read[p]
        /\ recorded' = read[p]
        /\ pc' = [pc EXCEPT ![p] = "fetch"]
  /\ read' = [read EXCEPT ![p] = 0]
  /\ UNCHANGED <<values, version, last_index, config, ready, fallback, flight, failures, lost>>

\* Faulty: no fetch while one is in flight.
FetchValuesUnlessBusy(p) ==
  /\ pc[p] = "fetch"
  /\ flight' = [i \in Slots |-> IF flight[i] = NoFetch THEN [NoFetch EXCEPT !.phase = "sent"] ELSE flight[i]]
  /\ pc' = [pc EXCEPT ![p] = After(p)]
  /\ UNCHANGED <<values, version, recorded, last_index, config, ready, fallback, read, failures, lost>>

\* getValues is asynchronous.
FetchValues(p) ==
  /\ pc[p] = "fetch"
  /\ \E i \in Slots :
       /\ flight[i] = NoFetch
       /\ flight' = [flight EXCEPT ![i].phase = "sent"]
  /\ pc' = [pc EXCEPT ![p] = After(p)]
  /\ UNCHANGED <<values, version, recorded, last_index, config, ready, fallback, read, failures, lost>>

\* consul answers with the values and the index of this moment, or not at all.
Answer(i) ==
  /\ flight[i].phase = "sent"
  /\ \/ /\ flight' = [flight EXCEPT ![i] = [phase |-> "answered", values |-> values, index |-> Index]]
        /\ UNCHANGED failures
     \/ /\ MayFail("values")
        /\ flight' = [flight EXCEPT ![i].phase = "failed"]
        /\ failures' = failures + 1
  /\ UNCHANGED <<values, version, recorded, last_index, config, ready, fallback, pc, read, lost>>

\* Faulty: the entry that is found keeps its first value.
IsUpdateFirst(index) == last_index = 0

\* checkUpdate: any other index is an update.
IsUpdate(index) == index # last_index

\* Faulty: the config is stored, the semaphore is not posted.
ProcessConfigUnposted(i) ==
  LET f == flight[i] IN
  /\ f.phase = "answered"
  /\ last_index' = f.index
  /\ fallback' = (fallback \/ f.values = 0)
  /\ config' = IF f.values # 0 /\ IsUpdate(f.index) THEN f.values ELSE config
  /\ flight' = [flight EXCEPT ![i] = NoFetch]
  /\ lost' = FALSE
  /\ UNCHANGED <<values, version, recorded, ready, pc, read, failures>>

\* processConfig, on a callback thread: no values, try again; an index already
\* seen, nothing; otherwise store the config and post the semaphore.
ProcessConfig(i) ==
  LET f == flight[i] IN
  /\ f.phase = "answered"
  /\ last_index' = f.index
  /\ fallback' = (fallback \/ f.values = 0)
  /\ IF f.values # 0 /\ IsUpdate(f.index)
       THEN config' = f.values /\ ready' = TRUE
       ELSE UNCHANGED <<config, ready>>
  /\ flight' = [flight EXCEPT ![i] = NoFetch]
  /\ lost' = FALSE
  /\ UNCHANGED <<values, version, recorded, pc, read, failures>>

FetchFailed(i) ==
  /\ flight[i].phase = "failed"
  /\ fallback' = TRUE
  /\ lost' = TRUE
  /\ flight' = [flight EXCEPT ![i] = NoFetch]
  /\ UNCHANGED <<values, version, recorded, last_index, config, ready, pc, read, failures>>

\* The semaphore lets the waiting thread go.
EndWait ==
  /\ pc["waiter"] = "wait"
  /\ ready
  /\ pc' = [pc EXCEPT !["waiter"] = "done"]
  /\ UNCHANGED <<values, version, recorded, last_index, config, ready, fallback, flight, read, failures, lost>>

-----------------------------------------------------------------------------
Pull(p) == ReadVersion(p) \/ RecordVersion(p) \/ FetchValues(p)
Deliver(i) == Answer(i) \/ ProcessConfig(i) \/ FetchFailed(i)

Next ==
  \/ CreateValues \/ CreateVersion
  \/ TimerPull \/ Fallback
  \/ StartWait \/ EndWait
  \/ \E p \in Pullers : Pull(p)
  \/ \E i \in Slots : Deliver(i)

Spec == Init /\ [][Next]_vars

\* The service is created in the end and a creation that has begun is finished;
\* the timer goes on firing; a thread that waits for a free slot gets it, every
\* request is answered or times out.
Fairness ==
  /\ WF_vars(CreateValues) /\ WF_vars(CreateVersion)
  /\ SF_vars(TimerPull) /\ SF_vars(Fallback)
  /\ WF_vars(StartWait) /\ WF_vars(EndWait)
  /\ \A p \in Pullers : SF_vars(Pull(p))
  /\ \A i \in Slots : WF_vars(Deliver(i))

FairSpec == Spec /\ Fairness

-----------------------------------------------------------------------------
(* Properties *)

\* When nobody is pulling and no retry is due, the config that RouterDb holds
\* is no older than the version getConfig has recorded as fetched, unless the
\* last fetch failed: a failed fetch is the only way to forget a config.  (Both
\* the order of the writes of service_manager and the order of the requests of
\* getConfig matter.)
NothingForgotten ==
  (\A p \in Pullers : pc[p] \notin {"read", "fetch"}) /\ ~fallback /\ ~lost
    /\ (\A i \in Slots : flight[i] = NoFetch) => config >= recorded

\* The last config that service_manager creates is the one RouterDb ends with,
\* unless the last fetch of all failed.
ConfigCurrent == <>[](config = MaxCreates) \/ <>[]lost

\* A thread in waitForConfig comes back and finds a config then, unless the last
\* fetch of all failed.
WaitEnds == <>(pc["waiter"] = "done" /\ config # 0) \/ <>[]lost

-----------------------------------------------------------------------------
(* What comments and docs of the repository say and the code does not do *)

\* "if a request fails, it is retried" (registry.h:81): a failed fetch does not
\* keep the config from arriving.
RetryDelivers == <>(config # 0)

\* "only when the index returned is greater than the current one is the cache
\* updated" (doc/LLD.md:202).
IndexGrows == [][last_index' >= last_index]_vars
=============================================================================
