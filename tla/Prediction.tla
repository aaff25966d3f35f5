----------------------------- MODULE Prediction -----------------------------
(***************************************************************************)
(* A server of models at work.  A thrift thread takes a request for some   *)
(* models (predict and multiPredict of ModelManager), leaves out the ones  *)
(* that are downgraded and gives one job per model to the request pool.  A *)
(* thread of that pool looks its model up, cuts the items into slices for  *)
(* the heavy pool and waits for them; the thrift thread waits for the      *)
(* jobs.  Meanwhile models are reloaded, downgrades set and both pools     *)
(* resized over http.                                                      *)
(*                                                                         *)
(* A model has the number of its last load, 0 if there was none.  A pool   *)
(* (folly's CPUThreadPoolExecutor, external) runs the tasks of its queue   *)
(* first in, first out, on as many threads as it was last given; a heavy   *)
(* task waits for nothing and is one step.  Snapshots for Kafka, which the *)
(* service also gives to the heavy pool, change nothing here.              *)
(***************************************************************************)
EXTENDS Slices, FiniteSets

CONSTANTS
  Requests,
  ModelsOf,      \* the models each request names, a sequence
  Models,
  Loaded,        \* models loaded at the start
  Tensorflow,    \* the models whose features are extracted in parallel
  Total,         \* items of a request
  BadItems,      \* items whose features cannot be used
  MinItems,      \* FLAGS_min_items_per_thread
  TaskNums,      \* values of FLAGS_feature_extract_tasks_num
  Sizes,         \* values of the thread numbers of both pools
  Percents,      \* downgrade percent of each model, as set over http
  MaxThrows,     \* bound: slices that throw
  MaxLoads, MaxResets, MaxUpdates  \* bounds: loads, resets, downgrade updates

Pools == {"request", "heavy"}
Items == 0 .. Total - 1
Jobs  == UNION {{r} \X DOMAIN ModelsOf[r] : r \in Requests}
ModelOf(j) == ModelsOf[j[1]][j[2]]

ASSUME ConstantsAssumption ==
  /\ \A r \in Requests : ModelsOf[r] \in Seq(Models)
  /\ Loaded \subseteq Models /\ Tensorflow \subseteq Models
  /\ \A r \in Requests : ModelsOf[r] # << >>
  /\ Total \in Nat /\ MinItems \in Nat /\ BadItems \subseteq Items
  /\ TaskNums \subseteq Nat /\ Sizes \subseteq Nat
  /\ Percents \subseteq [Models -> 0 .. 100]
  /\ MaxThrows \in Nat /\ MaxLoads \in Nat /\ MaxResets \in Nat /\ MaxUpdates \in Nat

VARIABLES
  models,     \* models_ of the frameworks
  downgrade,  \* what model_downgrade_percent_map_ptr_ points to, and which map that is
  threads,    \* threads of the pools
  tasks_num,  \* FLAGS_feature_extract_tasks_num
  queue,      \* waiting tasks of the pools: <<job, 0>>, or <<job, slice>>
  job, req,
  throws, loads, resets

vars == <<models, downgrade, threads, tasks_num, queue, job, req, throws, loads, resets>>

NewJob == [state |-> "none", version |-> 0, slices |-> << >>, left |-> {}, items |-> {},
           used |-> {}, threw |-> FALSE, failed |-> FALSE]

NewReq == [pc |-> "idle", next |-> 1, map |-> 0, found |-> 0, seen |-> [m \in Models |-> 0]]

TypeOK ==
  /\ models \in [Models -> 0 .. MaxLoads + 1]
  /\ threads \in [Pools -> Sizes] /\ tasks_num \in TaskNums
  /\ \A p \in Pools : queue[p] \in Seq(Jobs \X (0 .. Total))
  /\ \A j \in Jobs :
       /\ job[j].state \in {"none", "downgraded", "queued", "running", "done"}
       /\ job[j].left \subseteq DOMAIN job[j].slices
       /\ job[j].items \subseteq Items
       /\ job[j].left # {} => job[j].state = "running"
  /\ \A r \in Requests :
       /\ req[r].pc \in {"idle", "find", "decide", "wait", "answered", "failed"}
       /\ req[r].next \in 1 .. Len(ModelsOf[r]) + 1

Init ==
  /\ models = [m \in Models |-> IF m \in Loaded THEN 1 ELSE 0]
  /\ downgrade = [map |-> 0, percent |-> [m \in Models |-> 0]]
  /\ \E n \in Sizes : threads = [p \in Pools |-> n]
  /\ tasks_num \in TaskNums
  /\ queue = [p \in Pools |-> << >>]
  /\ job = [j \in Jobs |-> NewJob]
  /\ req = [r \in Requests |-> NewReq]
  /\ throws = 0 /\ loads = 0 /\ resets = 0

---------------------------------------------------------------------------
(* The thrift thread of a request *)

Receive(r) ==
  /\ req[r].pc = "idle"
  /\ req' = [req EXCEPT ![r] = [@ EXCEPT !.pc = "find", !.seen = models]]
  /\ UNCHANGED <<models, downgrade, threads, tasks_num, queue, job, throws, loads, resets>>

\* The first half of shouldDowngradeModel: find in the map the pointer holds.
Find(r) ==
  /\ req[r].pc = "find"
  /\ req' = [req EXCEPT ![r] =
               [@ EXCEPT !.pc = "decide", !.map = downgrade.map,
                         !.found = downgrade.percent[ModelsOf[r][req[r].next]]]]
  /\ UNCHANGED <<models, downgrade, threads, tasks_num, queue, job, throws, loads, resets>>

\* The second half.  If the pointer was set in between, the map found in is
\* gone, and what is read of it is anything.
Downgraded(c) ==
  IF c.map # downgrade.map THEN BOOLEAN
  ELSE CASE c.found = 0            -> {FALSE}
         [] c.found \in {99, 100}  -> {TRUE}
         [] c.found \in 1 .. 98     -> BOOLEAN

Decide(r) ==
  /\ req[r].pc = "decide"
  /\ LET j == <<r, req[r].next>> IN
     \E down \in Downgraded(req[r]) :
       /\ job' = [job EXCEPT ![j].state = IF down THEN "downgraded" ELSE "queued"]
       /\ queue' = IF down THEN queue ELSE [queue EXCEPT !["request"] = Append(@, <<j, 0>>)]
  /\ req' = [req EXCEPT ![r] = [@ EXCEPT !.pc = IF req[r].next < Len(ModelsOf[r]) THEN "find" ELSE "wait",
                                         !.next = req[r].next + 1, !.map = 0, !.found = 0]]
  /\ UNCHANGED <<models, downgrade, threads, tasks_num, throws, loads, resets>>

JobsOf(r) == {j \in Jobs : j[1] = r}

\* collectAll().then().get(): value() of a job that threw throws again.
Collect(r) ==
  /\ req[r].pc = "wait"
  /\ \A j \in JobsOf(r) : job[j].state \in {"downgraded", "done"}
  /\ req' = [req EXCEPT ![r].pc = IF \E j \in JobsOf(r) : job[j].threw THEN "failed" ELSE "answered"]
  /\ UNCHANGED <<models, downgrade, threads, tasks_num, queue, job, throws, loads, resets>>

---------------------------------------------------------------------------
(* The pools *)

Waiting == {j \in Jobs : job[j].state = "running"}

\* A thread of the pool is free.
Free(p) == IF p = "heavy" THEN threads[p] > 0 ELSE Cardinality(Waiting) < threads[p]

\* Faulty variant of SlicePool: the pool the job itself runs on.
SlicePoolRequest == "request"

SlicePool == "heavy"

\* singlePredict up to the wait for the slices: with no items or no model there
\* are none.
StartJob ==
  /\ queue["request"] # << >> /\ Head(queue["request"])[2] = 0 /\ Free("request")
  /\ LET j == Head(queue["request"])[1]
         version == models[ModelOf(j)]
         slices  == IF version = 0 THEN << >> ELSE split_slice(Total, MinItems, tasks_num)
         popped  == [queue EXCEPT !["request"] = Tail(@)]
     IN  /\ job' = [job EXCEPT ![j] = [@ EXCEPT !.state = "running", !.version = version,
                                                !.slices = slices, !.left = DOMAIN slices]]
         /\ queue' = [popped EXCEPT ![SlicePool] = @ \o [k \in DOMAIN slices |-> <<j, k>>]]
  /\ UNCHANGED <<models, downgrade, threads, tasks_num, req, throws, loads, resets>>

\* Faulty variant of SliceVersion: every slice looks the model up again.
SliceVersionLookup(j) == models[ModelOf(j)]

\* The slices of a job share the model the job looked up.
SliceVersion(j) == job[j].version

RunSlice ==
  /\ queue[SlicePool] # << >> /\ Head(queue[SlicePool])[2] > 0 /\ Free(SlicePool)
  /\ \E throw \in BOOLEAN :
       LET j == Head(queue[SlicePool])[1]
           k == Head(queue[SlicePool])[2]
           done == [job[j] EXCEPT !.left = @ \ {k}, !.used = @ \cup {SliceVersion(j)}]
       IN  /\ throw => throws < MaxThrows
           /\ throws' = IF throw THEN throws + 1 ELSE throws
           /\ job' = [job EXCEPT ![j] =
                        IF throw THEN [done EXCEPT !.threw = @ \/ ModelOf(j) \in Tensorflow, !.failed = TRUE]
                        ELSE [done EXCEPT !.items = @ \cup (ItemsOf(done.slices[k]) \ BadItems)]]
  /\ queue' = [queue EXCEPT ![SlicePool] = Tail(@)]
  /\ UNCHANGED <<models, downgrade, threads, tasks_num, req, loads, resets>>

\* collectAll in the model's predict; the tensorflow session may then fail.
EndJob(j) ==
  /\ job[j].state = "running" /\ job[j].left = {}
  /\ \E ok \in IF ModelOf(j) \in Tensorflow /\ job[j].version > 0 THEN BOOLEAN ELSE {TRUE} :
       job' = [job EXCEPT ![j] = IF ok THEN [@ EXCEPT !.state = "done"]
                                 ELSE [@ EXCEPT !.state = "done", !.items = {}, !.failed = TRUE]]
  /\ UNCHANGED <<models, downgrade, threads, tasks_num, queue, req, throws, loads, resets>>

---------------------------------------------------------------------------
(* Over http *)

\* ModelFramework::load replaces the model once the new one is complete.
Load(m) ==
  /\ loads < MaxLoads
  /\ models' = [models EXCEPT ![m] = loads + 2]
  /\ loads' = loads + 1
  /\ UNCHANGED <<downgrade, threads, tasks_num, queue, job, req, throws, resets>>

\* updateDowngradePercent and resetDowngradePercent.
SetDowngrade ==
  /\ downgrade.map < MaxUpdates
  /\ \E p \in Percents : downgrade' = [map |-> downgrade.map + 1, percent |-> p]
  /\ UNCHANGED <<models, threads, tasks_num, queue, job, req, throws, loads, resets>>

\* reset_service_config, any of its three numbers.
ResetThreads(p) ==
  /\ resets < MaxResets
  /\ \E n \in Sizes \ {threads[p]} : threads' = [threads EXCEPT ![p] = n]
  /\ resets' = resets + 1
  /\ UNCHANGED <<models, downgrade, tasks_num, queue, job, req, throws, loads>>

ResetTasks ==
  /\ resets < MaxResets
  /\ \E n \in TaskNums \ {tasks_num} : tasks_num' = n
  /\ resets' = resets + 1
  /\ UNCHANGED <<models, downgrade, threads, queue, job, req, throws, loads>>

---------------------------------------------------------------------------
Thrift(r) == Find(r) \/ Decide(r) \/ Collect(r)

Next ==
  \/ \E r \in Requests : Receive(r) \/ Thrift(r)
  \/ StartJob \/ RunSlice
  \/ \E j \in Jobs : EndJob(j)
  \/ \E m \in Models : Load(m)
  \/ SetDowngrade \/ ResetTasks
  \/ \E p \in Pools : ResetThreads(p)

Spec == Init /\ [][Next]_vars

\* The threads that are there are scheduled.
FairSpec ==
  /\ Spec
  /\ \A r \in Requests : WF_vars(Thrift(r))
  /\ WF_vars(StartJob) /\ WF_vars(RunSlice)
  /\ \A j \in Jobs : WF_vars(EndJob(j))

---------------------------------------------------------------------------
(* Properties *)

\* All slices of an answer are computed by one model, which is not older than
\* the one that was loaded when the request came in, whatever is reloaded in
\* between.
OneFreshModel ==
  \A j \in Jobs : job[j].state \in {"running", "done"} =>
    /\ job[j].used \subseteq {job[j].version}
    /\ job[j].version >= req[j[1]].seen[ModelOf(j)]

\* An answered request has a result for every usable item of every model that
\* was loaded and not downgraded, unless the model failed: the slices cover the
\* items, however tasks_num is set while it runs.
EveryItemAnswered ==
  \A r \in Requests : req[r].pc = "answered" =>
    \A j \in JobsOf(r) : (job[j].state = "done" /\ job[j].version > 0 /\ ~job[j].failed) =>
      job[j].items = Items \ BadItems

\* Every request is answered or fails: no thread of a pool waits for one of its
\* own pool, and resizing a pool loses no task.
RequestsReturn == \A r \in Requests : req[r].pc = "find" ~> req[r].pc \in {"answered", "failed"}

\* One job that throws does not take the answers of the others with it.
OthersAnswered ==
  \A r \in Requests : req[r].pc = "failed" => \A j \in JobsOf(r) : job[j].threw

\* A model is only downgraded if some map gave it a percentage.
DowngradedAsSet ==
  \A j \in Jobs : job[j].state = "downgraded" => \E p \in Percents : p[ModelOf(j)] > 0
=============================================================================
