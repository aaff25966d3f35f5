-------------------------- MODULE PredictionProofs --------------------------
(***************************************************************************)
(* An answer is computed by one model that is fresh enough and, if the     *)
(* flags are not zero, for every usable item, for any number of requests,  *)
(* models, items, threads, tasks, loads and resets.                        *)
(***************************************************************************)
EXTENDS Prediction, SlicesProofs

JobStates == {"none", "downgraded", "queued", "running", "done"}
PCs == {"idle", "find", "decide", "wait", "answered", "failed"}

\* What singlePredict may cut the items into.
AllSlices == {<< >>} \cup {split_slice(Total, MinItems, n) : n \in TaskNums}

JobRecord == [state : JobStates, version : Nat, slices : AllSlices, left : SUBSET Nat,
              items : SUBSET Items, used : SUBSET Nat, threw : BOOLEAN, failed : BOOLEAN]
ReqRecord == [pc : PCs, next : Nat, map : Nat, found : Nat, seen : [Models -> Nat]]

Types ==
  /\ models \in [Models -> Nat] /\ loads \in Nat
  /\ downgrade \in [map : Nat, percent : [Models -> Nat]]
  /\ threads \in [Pools -> Sizes] /\ tasks_num \in TaskNums
  /\ queue \in [Pools -> Seq(Jobs \X Nat)]
  /\ job \in [Jobs -> JobRecord]
  /\ req \in [Requests -> ReqRecord]

\* Versions are numbered in the order of the loads.
LoadsInv == loads <= MaxLoads /\ \A m \in Models : models[m] <= loads + 1

\* States of a job before a thread of the request pool takes it.
Fresh == {"none", "downgraded", "queued"}

\* A job has one version, looked up after its request came in, and unless it
\* failed the items of exactly those of its slices that have run.
JobOK(b, seen) ==
  /\ b.state \in Fresh => b.slices = << >> /\ b.left = {} /\ b.items = {} /\ b.used = {}
  /\ b.left \subseteq DOMAIN b.slices
  /\ b.left # {} => b.state = "running"
  /\ b.state \notin Fresh =>
       /\ b.used \subseteq {b.version} /\ b.version >= seen
       /\ b.version > 0 => \E n \in TaskNums : b.slices = split_slice(Total, MinItems, n)
  /\ ~b.failed => \A x : x \in b.items <=>
       /\ x \notin BadItems
       /\ \E k \in DOMAIN b.slices : k \notin b.left /\ x \in ItemsOf(b.slices[k])

JobInv == \A j \in Jobs : JobOK(job[j], req[j[1]].seen[ModelOf(j)])

\* A request decides on its models one after the other, and nothing that was
\* loaded when it came in gets older.
PhaseInv ==
  \A r \in Requests :
    /\ \A i \in DOMAIN ModelsOf[r] : i >= req[r].next => job[<<r, i>>].state = "none"
    /\ req[r].next \in 1 .. Len(ModelsOf[r]) + 1
    /\ req[r].pc = "idle" => req[r].next = 1
    /\ req[r].pc \in {"find", "decide"} => req[r].next <= Len(ModelsOf[r])
    /\ \A m \in Models : req[r].seen[m] <= models[m]

\* A job waits once for a thread of the request pool, and only while it is queued.
RequestQueueInv ==
  \A i \in 1 .. Len(queue["request"]) :
    /\ queue["request"][i][2] = 0 /\ job[queue["request"][i][1]].state = "queued"
    /\ \A l \in 1 .. Len(queue["request"]) : queue["request"][i] = queue["request"][l] => i = l

\* A task of the heavy pool is a slice of its job.
HeavyQueueInv ==
  \A i \in 1 .. Len(queue["heavy"]) :
    queue["heavy"][i][2] \in DOMAIN job[queue["heavy"][i][1]].slices

IInv == Types /\ LoadsInv /\ JobInv /\ PhaseInv /\ RequestQueueInv /\ HeavyQueueInv

---------------------------------------------------------------------------
(* The operators *)

LEMMA JobType ==
  /\ \A r \in Requests : \A i \in DOMAIN ModelsOf[r] : <<r, i>> \in Jobs
  /\ \A j \in Jobs : /\ j = <<j[1], j[2]>> /\ j[1] \in Requests
                     /\ j[2] \in DOMAIN ModelsOf[j[1]] /\ ModelOf(j) \in Models
<1>1. \A r \in Requests : \A i \in DOMAIN ModelsOf[r] : <<r, i>> \in Jobs
  BY DEF Jobs
<1>2. ASSUME NEW j \in Jobs
      PROVE  j = <<j[1], j[2]>> /\ j[1] \in Requests /\ j[2] \in DOMAIN ModelsOf[j[1]] /\ ModelOf(j) \in Models
  <2>1. PICK r \in Requests : j \in {r} \X DOMAIN ModelsOf[r]
    BY DEF Jobs
  <2>2. ModelsOf[r] \in Seq(Models)
    BY ConstantsAssumption
  <2> QED
    BY <2>1, <2>2 DEF ModelOf
<1> QED
  BY <1>1, <1>2

\* A request has as many jobs as it names models.
LEMMA ModelsShape ==
  ASSUME NEW r \in Requests
  PROVE  /\ Len(ModelsOf[r]) \in Nat \ {0} /\ DOMAIN ModelsOf[r] = 1 .. Len(ModelsOf[r])
         /\ \A i \in DOMAIN ModelsOf[r] : ModelsOf[r][i] \in Models
<1>1. ModelsOf[r] \in Seq(Models) /\ ModelsOf[r] # << >>
  BY ConstantsAssumption
<1> QED
  BY <1>1

\* There are at most as many slices as items, and they hold items only.
LEMMA SlicesShape ==
  ASSUME NEW s \in AllSlices
  PROVE  /\ Len(s) \in 0 .. Total /\ DOMAIN s = 1 .. Len(s)
         /\ \A k \in DOMAIN s : ItemsOf(s[k]) \subseteq Items
<1> USE ConstantsAssumption
<1>1. CASE s = << >>
  BY <1>1
<1>2. CASE s # << >>
  <2>1. PICK n \in TaskNums : s = split_slice(Total, MinItems, n)
    BY <1>2 DEF AllSlices
  <2>2. n \in Nat \ {0} /\ MinItems \in Nat \ {0}
    BY <1>2, <2>1 DEF split_slice
  <2> DEFINE avg == Average(Total, MinItems, n)
  <2>3. s = Cut(Total, avg) /\ avg \in Nat \ {0}
    BY <2>1, <2>2, AveragePositive DEF split_slice
  <2> HIDE DEF avg
  <2> DEFINE c == Count(Total, avg)
             q == Total \div avg
  <2>4. c \in Nat /\ DOMAIN s = 1 .. c
    BY <2>3, CutDomain
  <2>5. Len(s) = c
    <3>1. s = [i \in 1 .. c |-> s[i]]
      BY <2>3, <2>4 DEF Cut, Count
    <3> HIDE DEF c
    <3> QED
      BY <2>4, <3>1
  <2>6. c <= Total
    <3>1. q \in Nat /\ q * avg <= Total
      BY <2>3, DivBounds
    <3>2. q * 1 <= q * avg
      BY <2>3, <3>1, Z3
    <3> HIDE DEF q
    <3>3. q * avg \in Nat /\ (avg = 1 => q * avg = q) /\ (avg >= 2 /\ q >= 1 => q + 1 <= q * avg)
      BY <2>3, <3>1, Z3
    <3>4. c = IF q * avg < Total THEN q + 1 ELSE q
      BY DEF Count, q
    <3> HIDE DEF c
    <3> QED
      BY <3>1, <3>2, <3>3, <3>4
  <2>7. UNION {ItemsOf(s[k]) : k \in DOMAIN s} = Items
    BY <2>3, SlicesCover DEF Items
  <2> HIDE DEF c
  <2> QED
    BY <2>4, <2>5, <2>6, <2>7
<1> QED
  BY <1>1, <1>2

\* With neither flag zero the slices of a job are all its items.
LEMMA SlicesComplete ==
  ASSUME NEW n \in TaskNums, 0 \notin TaskNums, MinItems # 0
  PROVE  UNION {ItemsOf(split_slice(Total, MinItems, n)[k]) : k \in DOMAIN split_slice(Total, MinItems, n)} = Items
<1> USE ConstantsAssumption
<1>1. n \in Nat \ {0} /\ MinItems \in Nat \ {0}
  OBVIOUS
<1> DEFINE avg == Average(Total, MinItems, n)
<1>2. split_slice(Total, MinItems, n) = Cut(Total, avg) /\ avg \in Nat \ {0}
  BY <1>1, AveragePositive DEF split_slice
<1> HIDE DEF avg
<1> QED
  BY <1>2, SlicesCover DEF Items

---------------------------------------------------------------------------
(* The actions *)

LEMMA InitIInv == Init => IInv
<1> SUFFICES ASSUME Init PROVE IInv
  OBVIOUS
<1> USE ConstantsAssumption
<1>1. NewJob \in JobRecord
  BY DEF NewJob, JobRecord, JobStates, AllSlices
<1>2. NewReq \in ReqRecord
  BY DEF NewReq, ReqRecord, PCs
<1>3. Types
  <2>1. << >> \in Seq(Jobs \X Nat)
    OBVIOUS
  <2>2. downgrade \in [map : Nat, percent : [Models -> Nat]]
    BY DEF Init
  <2>3. threads \in [Pools -> Sizes] /\ tasks_num \in TaskNums /\ loads \in Nat
    BY DEF Init
  <2>4. job \in [Jobs -> JobRecord] /\ req \in [Requests -> ReqRecord]
    BY <1>1, <1>2 DEF Init
  <2>5. queue \in [Pools -> Seq(Jobs \X Nat)] /\ models \in [Models -> Nat]
    BY <2>1 DEF Init
  <2> QED
    BY <2>2, <2>3, <2>4, <2>5 DEF Types
<1>4. LoadsInv
  BY DEF Init, LoadsInv
<1>5. JobInv
  <2> SUFFICES ASSUME NEW j \in Jobs PROVE JobOK(job[j], req[j[1]].seen[ModelOf(j)])
    BY DEF JobInv
  <2>1. job[j] = NewJob
    BY DEF Init
  <2> QED
    BY <2>1 DEF JobOK, NewJob, Fresh
<1>6. PhaseInv
  <2> SUFFICES ASSUME NEW r \in Requests
               PROVE  /\ \A i \in DOMAIN ModelsOf[r] : i >= req[r].next => job[<<r, i>>].state = "none"
                      /\ req[r].next \in 1 .. Len(ModelsOf[r]) + 1
                      /\ req[r].pc = "idle" => req[r].next = 1
                      /\ req[r].pc \in {"find", "decide"} => req[r].next <= Len(ModelsOf[r])
                      /\ \A m \in Models : req[r].seen[m] <= models[m]
    BY DEF PhaseInv
  <2>1. \A i \in DOMAIN ModelsOf[r] : job[<<r, i>>] = NewJob
    BY JobType DEF Init
  <2>2. req[r].next = 1 /\ req[r].pc = "idle" /\ \A m \in Models : req[r].seen[m] = 0 /\ models[m] \in {0, 1}
    BY DEF Init, NewReq
  <2> QED
    BY <2>1, <2>2, ModelsShape DEF NewJob
<1>7. RequestQueueInv /\ HeavyQueueInv
  BY DEF Init, RequestQueueInv, HeavyQueueInv, Pools
<1> QED
  BY <1>3, <1>4, <1>5, <1>6, <1>7 DEF IInv

\* The queues are as they were, and so are the jobs that wait and all slices.
LEMMA QueuesKept ==
  ASSUME IInv, UNCHANGED queue,
         \A j \in Jobs : /\ job[j].state = "queued" => job'[j].state = "queued"
                         /\ job'[j].slices = job[j].slices
  PROVE  RequestQueueInv' /\ HeavyQueueInv'
<1>1. /\ \A i \in 1 .. Len(queue["request"]) : queue["request"][i] \in Jobs \X Nat
      /\ \A i \in 1 .. Len(queue["heavy"]) : queue["heavy"][i] \in Jobs \X Nat
  BY DEF IInv, Types, Pools
<1>2. RequestQueueInv'
  <2> SUFFICES ASSUME NEW i \in 1 .. Len(queue["request"])
               PROVE  /\ queue["request"][i][2] = 0 /\ job'[queue["request"][i][1]].state = "queued"
                      /\ \A l \in 1 .. Len(queue["request"]) : queue["request"][i] = queue["request"][l] => i = l
    BY DEF RequestQueueInv
  <2> QED
    BY <1>1 DEF IInv, RequestQueueInv
<1>3. HeavyQueueInv'
  <2> SUFFICES ASSUME NEW i \in 1 .. Len(queue["heavy"])
               PROVE  queue["heavy"][i][2] \in DOMAIN job'[queue["heavy"][i][1]].slices
    BY DEF HeavyQueueInv
  <2>1. queue["heavy"][i][2] \in DOMAIN job[queue["heavy"][i][1]].slices
    BY DEF IInv, HeavyQueueInv
  <2> QED
    BY <1>1, <2>1
<1> QED
  BY <1>2, <1>3

\* A request takes a step that leaves its jobs alone.
LEMMA RequestStep ==
  ASSUME IInv, NEW r \in Requests, NEW c \in ReqRecord, req' = [req EXCEPT ![r] = c],
         UNCHANGED <<models, downgrade, threads, tasks_num, queue, job, loads>>,
         c.next = req[r].next, c.pc # "idle",
         c.pc \in {"find", "decide"} => req[r].next <= Len(ModelsOf[r]),
         c.seen = req[r].seen \/ (c.seen = models /\ req[r].pc = "idle")
  PROVE  IInv'
<1>1. /\ req' \in [Requests -> ReqRecord] /\ req'[r] = c
      /\ \A q \in Requests : q # r => req'[q] = req[q]
  BY DEF IInv, Types
<1>2. Types' /\ LoadsInv'
  BY <1>1 DEF IInv, Types, LoadsInv
<1>3. PhaseInv'
  <2> SUFFICES ASSUME NEW q \in Requests
               PROVE  /\ \A i \in DOMAIN ModelsOf[q] : i >= req'[q].next => job[<<q, i>>].state = "none"
                      /\ req'[q].next \in 1 .. Len(ModelsOf[q]) + 1
                      /\ req'[q].pc = "idle" => req'[q].next = 1
                      /\ req'[q].pc \in {"find", "decide"} => req'[q].next <= Len(ModelsOf[q])
                      /\ \A m \in Models : req'[q].seen[m] <= models[m]
    BY DEF PhaseInv
  <2>1. /\ \A i \in DOMAIN ModelsOf[q] : i >= req[q].next => job[<<q, i>>].state = "none"
        /\ req[q].next \in 1 .. Len(ModelsOf[q]) + 1
        /\ req[q].pc = "idle" => req[q].next = 1
        /\ req[q].pc \in {"find", "decide"} => req[q].next <= Len(ModelsOf[q])
        /\ \A m \in Models : req[q].seen[m] <= models[m]
    BY DEF IInv, PhaseInv
  <2>2. \A m \in Models : models[m] <= models[m]
    BY DEF IInv, Types
  <2> QED
    BY <1>1, <2>1, <2>2
<1>4. JobInv'
  <2> SUFFICES ASSUME NEW j \in Jobs PROVE JobOK(job[j], req'[j[1]].seen[ModelOf(j)])
    BY DEF JobInv, JobOK
  <2>0. JobOK(job[j], req[j[1]].seen[ModelOf(j)]) /\ j[1] \in Requests
    BY JobType DEF IInv, JobInv
  <2>1. CASE j[1] # r \/ c.seen = req[r].seen
    BY <1>1, <2>0, <2>1
  <2>2. CASE j[1] = r /\ req[r].pc = "idle"
    <3>1. job[<<r, j[2]>>].state = "none"
      <4>1. req[r].next = 1 /\ j[2] \in DOMAIN ModelsOf[r] /\ j[2] >= 1
        BY <2>2, JobType, ModelsShape DEF IInv, PhaseInv
      <4> QED
        BY <4>1 DEF IInv, PhaseInv
    <3>2. job[j].state = "none"
      BY <2>2, <3>1, JobType
    <3> QED
      BY <2>0, <3>2 DEF JobOK, Fresh
  <2> QED
    BY <2>1, <2>2
<1> QED
  BY <1>2, <1>3, <1>4, QueuesKept DEF IInv

LEMMA ReceiveIInv ==
  ASSUME IInv, NEW r \in Requests, Receive(r) PROVE IInv'
<1> DEFINE c == [req[r] EXCEPT !.pc = "find", !.seen = models]
<1>1. req' = [req EXCEPT ![r] = c] /\ req[r] \in ReqRecord /\ models \in [Models -> Nat] /\ req[r].pc = "idle"
  BY DEF Receive, IInv, Types
<1>2. c \in ReqRecord /\ c.next = req[r].next /\ c.pc = "find" /\ c.seen = models
  BY <1>1 DEF ReqRecord, PCs
<1>3. req[r].next <= Len(ModelsOf[r])
  BY <1>1, ModelsShape DEF IInv, PhaseInv
<1> HIDE DEF c
<1> QED
  BY <1>1, <1>2, <1>3, RequestStep DEF Receive

LEMMA FindIInv ==
  ASSUME IInv, NEW r \in Requests, Find(r) PROVE IInv'
<1> DEFINE p == downgrade.percent[ModelsOf[r][req[r].next]]
           c == [req[r] EXCEPT !.pc = "decide", !.map = downgrade.map, !.found = p]
<1>1. req' = [req EXCEPT ![r] = c] /\ req[r] \in ReqRecord /\ req[r].pc = "find"
  BY DEF Find, IInv, Types
<1>2. req[r].next \in DOMAIN ModelsOf[r]
  BY <1>1, ModelsShape DEF IInv, PhaseInv
<1>3. p \in Nat /\ downgrade.map \in Nat
  BY <1>2, ModelsShape DEF IInv, Types
<1> HIDE DEF p
<1>4. c \in ReqRecord /\ c.next = req[r].next /\ c.pc = "decide" /\ c.seen = req[r].seen
  BY <1>1, <1>3 DEF ReqRecord, PCs
<1>5. req[r].next <= Len(ModelsOf[r])
  BY <1>1 DEF IInv, PhaseInv
<1> HIDE DEF c
<1> QED
  BY <1>1, <1>4, <1>5, RequestStep DEF Find

LEMMA CollectIInv ==
  ASSUME IInv, NEW r \in Requests, Collect(r) PROVE IInv'
<1> DEFINE pc == IF \E j \in JobsOf(r) : job[j].threw THEN "failed" ELSE "answered"
           c == [req[r] EXCEPT !.pc = pc]
<1>1. req' = [req EXCEPT ![r] = c] /\ req[r] \in ReqRecord /\ pc \in {"failed", "answered"}
  <2>1. req' = [req EXCEPT ![r] = c]
    BY Zenon DEF Collect
  <2> QED
    BY <2>1 DEF IInv, Types
<1> HIDE DEF pc
<1>2. c \in ReqRecord /\ c.next = req[r].next /\ c.pc = pc /\ c.seen = req[r].seen
  BY <1>1 DEF ReqRecord, PCs
<1> HIDE DEF c
<1> QED
  BY <1>1, <1>2, RequestStep DEF Collect

\* A job that was decided on takes a step.
LEMMA JobStep ==
  ASSUME IInv, NEW j \in Jobs, NEW b \in JobRecord, job' = [job EXCEPT ![j] = b],
         UNCHANGED <<models, req>>, JobOK(b, req[j[1]].seen[ModelOf(j)]), job[j].state # "none"
  PROVE  /\ job' \in [Jobs -> JobRecord] /\ job'[j] = b
         /\ \A i \in Jobs : i # j => job'[i] = job[i]
         /\ JobInv' /\ PhaseInv'
<1>1. /\ job' \in [Jobs -> JobRecord] /\ job'[j] = b
      /\ \A i \in Jobs : i # j => job'[i] = job[i]
  BY DEF IInv, Types
<1>2. JobInv'
  <2> SUFFICES ASSUME NEW i \in Jobs PROVE JobOK(job'[i], req[i[1]].seen[ModelOf(i)])
    BY DEF JobInv, JobOK
  <2>1. JobOK(job[i], req[i[1]].seen[ModelOf(i)])
    BY DEF IInv, JobInv
  <2>2. CASE i = j
    BY <1>1, <2>2
  <2>3. CASE i # j
    BY <1>1, <2>1, <2>3
  <2> QED
    BY <2>2, <2>3
<1>3. PhaseInv'
  <2> SUFFICES ASSUME NEW q \in Requests, NEW i \in DOMAIN ModelsOf[q], i >= req[q].next
               PROVE  job'[<<q, i>>].state = "none"
    BY DEF IInv, PhaseInv
  <2>1. <<q, i>> \in Jobs /\ job[<<q, i>>].state = "none"
    BY JobType DEF IInv, PhaseInv
  <2> QED
    BY <1>1, <2>1
<1> QED
  BY <1>1, <1>2, <1>3

LEMMA EndJobIInv ==
  ASSUME IInv, NEW j \in Jobs, EndJob(j) PROVE IInv'
<1> DEFINE yes == [job[j] EXCEPT !.state = "done"]
           no  == [job[j] EXCEPT !.state = "done", !.items = {}, !.failed = TRUE]
<1>1. PICK b \in {yes, no} : job' = [job EXCEPT ![j] = b]
  BY DEF EndJob
<1>2. job[j] \in JobRecord /\ job[j].state = "running" /\ job[j].left = {}
  BY DEF EndJob, IInv, Types
<1>3. JobOK(job[j], req[j[1]].seen[ModelOf(j)])
  BY DEF IInv, JobInv
<1>4. /\ b \in JobRecord /\ b.state = "done" /\ b.slices = job[j].slices /\ b.left = {}
      /\ b.version = job[j].version /\ b.used = job[j].used
      /\ b = yes \/ b.failed = TRUE
  <2>1. CASE b = yes
    BY <1>2, <2>1 DEF JobRecord, JobStates
  <2>2. CASE b = no
    BY <1>2, <2>2 DEF JobRecord, JobStates
  <2> QED
    BY <1>1, <2>1, <2>2
<1>5. b = yes => b.items = job[j].items /\ b.failed = job[j].failed
  BY <1>2 DEF JobRecord
<1> HIDE DEF yes, no
<1>6. JobOK(b, req[j[1]].seen[ModelOf(j)])
  BY <1>2, <1>3, <1>4, <1>5 DEF JobOK, Fresh
<1>7. /\ job' \in [Jobs -> JobRecord] /\ job'[j] = b
      /\ \A i \in Jobs : i # j => job'[i] = job[i]
      /\ JobInv' /\ PhaseInv'
  BY <1>1, <1>2, <1>4, <1>6, JobStep DEF EndJob
<1>8. RequestQueueInv' /\ HeavyQueueInv'
  BY <1>2, <1>4, <1>7, QueuesKept DEF EndJob
<1> QED
  BY <1>7, <1>8 DEF IInv, Types, LoadsInv, EndJob

\* The head of a queue of tasks is taken.
LEMMA Popped ==
  ASSUME NEW q \in Seq(Jobs \X Nat), q # << >>
  PROVE  /\ Head(q) = q[1] /\ 1 \in 1 .. Len(q) /\ Len(q) \in Nat /\ Head(q) \in Jobs \X Nat
         /\ Head(q) = <<Head(q)[1], Head(q)[2]>>
         /\ Tail(q) \in Seq(Jobs \X Nat) /\ Len(Tail(q)) = Len(q) - 1
         /\ \A i \in 1 .. Len(Tail(q)) : /\ i + 1 \in 1 .. Len(q) /\ i + 1 # 1
                                         /\ Tail(q)[i] = q[i + 1] /\ q[i + 1] \in Jobs \X Nat
<1>1. /\ Head(q) = q[1] /\ 1 \in 1 .. Len(q) /\ Len(q) \in Nat /\ Head(q) \in Jobs \X Nat
  OBVIOUS
<1>2. /\ Tail(q) \in Seq(Jobs \X Nat) /\ Len(Tail(q)) = Len(q) - 1
      /\ \A i \in 1 .. Len(Tail(q)) : /\ i + 1 \in 1 .. Len(q) /\ i + 1 # 1
                                      /\ Tail(q)[i] = q[i + 1] /\ q[i + 1] \in Jobs \X Nat
  OBVIOUS
<1>3. Head(q) = <<Head(q)[1], Head(q)[2]>>
  BY <1>1
<1> QED
  BY <1>1, <1>2, <1>3

LEMMA RunSliceIInv ==
  ASSUME IInv, RunSlice PROVE IInv'
<1> DEFINE q == queue["heavy"]
           j == Head(q)[1]
           k == Head(q)[2]
           old == job[j]
           done == [old EXCEPT !.left = @ \ {k}, !.used = @ \cup {old.version}]
           bad  == [done EXCEPT !.threw = @ \/ ModelOf(j) \in Tensorflow, !.failed = TRUE]
           good == [done EXCEPT !.items = @ \cup (ItemsOf(done.slices[k]) \ BadItems)]
<1>1. PICK b \in {bad, good} : job' = [job EXCEPT ![j] = b]
  BY Zenon DEF RunSlice, SlicePool, SliceVersion
<1>2. q \in Seq(Jobs \X Nat) /\ q # << >> /\ queue' = [queue EXCEPT !["heavy"] = Tail(q)]
  BY DEF RunSlice, SlicePool, IInv, Types, Pools
<1> HIDE DEF q
<1>3. /\ Head(q) = q[1] /\ 1 \in 1 .. Len(q) /\ j \in Jobs /\ k \in Nat
      /\ Tail(q) \in Seq(Jobs \X Nat) /\ Len(Tail(q)) = Len(q) - 1
      /\ \A i \in 1 .. Len(Tail(q)) : /\ i + 1 \in 1 .. Len(q)
                                      /\ Tail(q)[i] = q[i + 1] /\ q[i + 1] \in Jobs \X Nat
  BY <1>2, Popped
<1>4. k \in DOMAIN old.slices
  BY <1>3 DEF IInv, HeavyQueueInv, q
<1> HIDE DEF j, k
<1>5. old \in JobRecord /\ JobOK(old, req[j[1]].seen[ModelOf(j)]) /\ old.slices \in AllSlices
  BY <1>3 DEF IInv, Types, JobInv, JobRecord
<1> HIDE DEF old
<1>6. ItemsOf(old.slices[k]) \subseteq Items
  BY <1>4, <1>5, SlicesShape
<1>7. /\ done \in JobRecord /\ done.left = old.left \ {k} /\ done.used = old.used \cup {old.version}
      /\ done.state = old.state /\ done.version = old.version /\ done.slices = old.slices
      /\ done.items = old.items /\ done.failed = old.failed
  BY <1>5 DEF JobRecord
<1> HIDE DEF done
<1>8. /\ b \in JobRecord /\ b.left = done.left /\ b.used = done.used
      /\ b.state = done.state /\ b.version = done.version /\ b.slices = done.slices
      /\ \/ b.failed = TRUE
         \/ /\ b.failed = done.failed
            /\ b.items = done.items \cup (ItemsOf(done.slices[k]) \ BadItems)
  <2>1. CASE b = bad
    <3>1. (done.threw \/ ModelOf(j) \in Tensorflow) \in BOOLEAN
      BY Zenon
    <3> DEFINE t == done.threw \/ ModelOf(j) \in Tensorflow
    <3>2. b = [done EXCEPT !.threw = t, !.failed = TRUE]
      BY <2>1, Zenon
    <3> HIDE DEF t
    <3>3. t \in BOOLEAN
      BY <3>1, Zenon DEF t
    <3> HIDE DEF bad, good
    <3> QED
      BY <1>7, <3>2, <3>3 DEF JobRecord
  <2>2. CASE b = good
    BY <1>6, <1>7, <2>2 DEF JobRecord
  <2> QED
    BY <1>1, <2>1, <2>2
<1> HIDE DEF bad, good
<1>9. old.state \notin Fresh /\ old.state # "none"
  BY <1>4, <1>5 DEF JobOK, Fresh
<1>10. JobOK(b, req[j[1]].seen[ModelOf(j)])
  <2>1. b.left \subseteq DOMAIN b.slices /\ (b.left # {} => b.state = "running")
    BY <1>5, <1>7, <1>8 DEF JobOK
  <2>2. /\ b.used \subseteq {b.version} /\ b.version >= req[j[1]].seen[ModelOf(j)]
        /\ b.version > 0 => \E n \in TaskNums : b.slices = split_slice(Total, MinItems, n)
    BY <1>5, <1>7, <1>8, <1>9 DEF JobOK
  <2>3. ASSUME ~b.failed, NEW x
        PROVE  x \in b.items <=>
                 /\ x \notin BadItems
                 /\ \E l \in DOMAIN b.slices : l \notin b.left /\ x \in ItemsOf(b.slices[l])
    <3>1. ~old.failed /\ b.items = old.items \cup (ItemsOf(old.slices[k]) \ BadItems)
      BY <1>7, <1>8, <2>3
    <3>2. x \in old.items <=>
            /\ x \notin BadItems
            /\ \E l \in DOMAIN old.slices : l \notin old.left /\ x \in ItemsOf(old.slices[l])
      BY <1>5, <3>1 DEF JobOK
    <3> QED
      BY <1>4, <1>7, <1>8, <3>1, <3>2
  <2>4. b.state \notin Fresh
    BY <1>7, <1>8, <1>9
  <2> QED
    BY <2>1, <2>2, <2>3, <2>4 DEF JobOK
<1>11. /\ job' \in [Jobs -> JobRecord] /\ job'[j] = b
       /\ \A i \in Jobs : i # j => job'[i] = job[i]
       /\ JobInv' /\ PhaseInv'
  BY <1>1, <1>3, <1>8, <1>9, <1>10, JobStep DEF RunSlice, old
<1>12. /\ queue' \in [Pools -> Seq(Jobs \X Nat)] /\ queue'["heavy"] = Tail(q)
       /\ queue'["request"] = queue["request"]
  BY <1>2, <1>3 DEF IInv, Types, Pools
<1>13. RequestQueueInv'
  <2> SUFFICES ASSUME NEW i \in 1 .. Len(queue["request"])
               PROVE  /\ queue["request"][i][2] = 0 /\ job'[queue["request"][i][1]].state = "queued"
                      /\ \A l \in 1 .. Len(queue["request"]) : queue["request"][i] = queue["request"][l] => i = l
    BY <1>12 DEF RequestQueueInv
  <2>1. queue["request"][i] \in Jobs \X Nat
    BY DEF IInv, Types, Pools
  <2>2. job[queue["request"][i][1]].state = "queued"
    BY DEF IInv, RequestQueueInv
  <2>3. queue["request"][i][1] # j
    BY <1>9, <2>2 DEF Fresh, old
  <2> QED
    BY <1>11, <2>1, <2>2, <2>3 DEF IInv, RequestQueueInv
<1>14. HeavyQueueInv'
  <2> SUFFICES ASSUME NEW i \in 1 .. Len(Tail(q))
               PROVE  Tail(q)[i][2] \in DOMAIN job'[Tail(q)[i][1]].slices
    BY <1>12 DEF HeavyQueueInv
  <2>1. i + 1 \in 1 .. Len(q) /\ Tail(q)[i] = q[i + 1] /\ q[i + 1] \in Jobs \X Nat
    BY <1>3
  <2>2. q[i + 1][2] \in DOMAIN job[q[i + 1][1]].slices
    BY <2>1 DEF IInv, HeavyQueueInv, q
  <2>3. job'[q[i + 1][1]].slices = job[q[i + 1][1]].slices
    BY <1>7, <1>8, <1>11, <2>1 DEF old
  <2> QED
    BY <2>1, <2>2, <2>3
<1> QED
  BY <1>11, <1>12, <1>13, <1>14 DEF IInv, Types, LoadsInv, RunSlice

LEMMA StartJobIInv ==
  ASSUME IInv, StartJob PROVE IInv'
<1> DEFINE q == queue["request"]
           h == queue["heavy"]
           j == Head(q)[1]
           version == models[ModelOf(j)]
           slices  == IF version = 0 THEN << >> ELSE split_slice(Total, MinItems, tasks_num)
           b == [job[j] EXCEPT !.state = "running", !.version = version,
                               !.slices = slices, !.left = DOMAIN slices]
           more == [k \in DOMAIN slices |-> <<j, k>>]
<1>1. q \in Seq(Jobs \X Nat) /\ h \in Seq(Jobs \X Nat) /\ q # << >> /\ Head(q)[2] = 0
  BY DEF StartJob, IInv, Types, Pools
<1>2. /\ job' = [job EXCEPT ![j] = b]
      /\ queue' = [[queue EXCEPT !["request"] = Tail(@)] EXCEPT !["heavy"] = @ \o more]
  BY Zenon DEF StartJob, SlicePool
<1>3. /\ Head(q) = q[1] /\ 1 \in 1 .. Len(q) /\ Len(q) \in Nat /\ j \in Jobs
      /\ Head(q) = <<Head(q)[1], Head(q)[2]>>
      /\ Tail(q) \in Seq(Jobs \X Nat) /\ Len(Tail(q)) = Len(q) - 1
      /\ \A i \in 1 .. Len(Tail(q)) : /\ i + 1 \in 1 .. Len(q) /\ i + 1 # 1
                                      /\ Tail(q)[i] = q[i + 1] /\ q[i + 1] \in Jobs \X Nat
  BY <1>1, Popped
<1>4. /\ job[j].state = "queued"
      /\ \A a, l \in 1 .. Len(q) : q[a] = q[l] => a = l
      /\ \A a \in 1 .. Len(q) : q[a][2] = 0 /\ job[q[a][1]].state = "queued"
  BY <1>3 DEF IInv, RequestQueueInv
<1>5. q[1] = <<j, 0>>
  BY <1>1, <1>3
<1> HIDE DEF j
<1>6. version \in Nat /\ slices \in AllSlices
  BY <1>3, JobType DEF IInv, Types, AllSlices
<1>7. version > 0 => slices = split_slice(Total, MinItems, tasks_num)
  BY <1>6
<1> HIDE DEF slices
<1>8. Len(slices) \in 0 .. Total /\ DOMAIN slices = 1 .. Len(slices)
  BY <1>6, SlicesShape
<1>9. job[j] \in JobRecord /\ JobOK(job[j], req[j[1]].seen[ModelOf(j)])
  BY <1>3 DEF IInv, Types, JobInv
<1>10. version >= req[j[1]].seen[ModelOf(j)]
  <2>1. /\ req[j[1]].seen[ModelOf(j)] <= models[ModelOf(j)]
        /\ req[j[1]].seen[ModelOf(j)] \in Nat /\ models[ModelOf(j)] \in Nat
    BY <1>3, JobType DEF IInv, PhaseInv, Types, ReqRecord
  <2> QED
    BY <2>1
<1> HIDE DEF version
<1>11. /\ b \in JobRecord /\ b.state = "running" /\ b.version = version /\ b.slices = slices
       /\ b.left = DOMAIN slices /\ b.items = job[j].items /\ b.used = job[j].used
  <2>1. DOMAIN slices \subseteq Nat /\ Total \in Nat
    BY <1>8, ConstantsAssumption
  <2> QED
    BY <1>6, <1>9, <2>1 DEF JobRecord, JobStates
<1> HIDE DEF b
<1>12. JobOK(b, req[j[1]].seen[ModelOf(j)])
  <2>1. b.items = {} /\ b.used = {}
    BY <1>4, <1>9, <1>11 DEF JobOK, Fresh
  <2>2. tasks_num \in TaskNums
    BY DEF IInv, Types
  <2> QED
    BY <1>7, <1>10, <1>11, <2>1, <2>2 DEF JobOK, Fresh
<1>13. /\ job' \in [Jobs -> JobRecord] /\ job'[j] = b
       /\ \A i \in Jobs : i # j => job'[i] = job[i]
       /\ JobInv' /\ PhaseInv'
  BY <1>2, <1>3, <1>4, <1>11, <1>12, JobStep DEF StartJob
<1>14. /\ more \in Seq(Jobs \X Nat) /\ Len(more) \in Nat
       /\ \A i \in 1 .. Len(more) : more[i] = <<j, i>> /\ i \in DOMAIN slices
  <2>1. more = [k \in 1 .. Len(slices) |-> <<j, k>>] /\ Len(slices) \in Nat
    BY <1>8, ConstantsAssumption
  <2>2. \A k \in 1 .. Len(slices) : k \in Nat /\ k \in DOMAIN slices
    BY <1>8, <2>1
  <2> HIDE DEF more
  <2> QED
    BY <1>3, <2>1, <2>2
<1> HIDE DEF more
<1>15. /\ queue' \in [Pools -> Seq(Jobs \X Nat)]
       /\ queue'["request"] = Tail(q) /\ queue'["heavy"] = h \o more
  <2>1. h \o more \in Seq(Jobs \X Nat)
    BY <1>1, <1>14
  <2>2. queue \in [Pools -> Seq(Jobs \X Nat)]
    BY DEF IInv, Types
  <2> QED
    BY <1>2, <1>3, <2>1, <2>2 DEF Pools
<1>16. RequestQueueInv'
  <2> SUFFICES ASSUME NEW i \in 1 .. Len(Tail(q))
               PROVE  /\ Tail(q)[i][2] = 0 /\ job'[Tail(q)[i][1]].state = "queued"
                      /\ \A l \in 1 .. Len(Tail(q)) : Tail(q)[i] = Tail(q)[l] => i = l
    BY <1>15 DEF RequestQueueInv
  <2> HIDE DEF q
  <2>1. /\ i + 1 \in 1 .. Len(q) /\ i + 1 # 1 /\ i \in Nat
        /\ Tail(q)[i] = q[i + 1] /\ q[i + 1] \in Jobs \X Nat
    BY <1>3
  <2>2. q[i + 1][2] = 0 /\ job[q[i + 1][1]].state = "queued" /\ q[i + 1] # q[1]
    BY <1>3, <1>4, <2>1
  <2>3. q[i + 1][1] # j
    BY <1>5, <2>1, <2>2
  <2>4. ASSUME NEW l \in 1 .. Len(Tail(q)), Tail(q)[i] = Tail(q)[l] PROVE i = l
    <3>1. l + 1 \in 1 .. Len(q) /\ Tail(q)[l] = q[l + 1] /\ l \in Nat
      BY <1>3
    <3>2. i + 1 = l + 1
      BY <1>4, <2>1, <2>4, <3>1
    <3> QED
      BY <2>1, <3>1, <3>2
  <2> QED
    BY <1>13, <2>1, <2>2, <2>3, <2>4
<1>17. HeavyQueueInv'
  <2> DEFINE g == h \o more
  <2> SUFFICES ASSUME NEW i \in 1 .. Len(g) PROVE g[i][2] \in DOMAIN job'[g[i][1]].slices
    BY <1>15 DEF HeavyQueueInv
  <2>1. \/ i \in 1 .. Len(h) /\ g[i] = h[i] /\ h[i] \in Jobs \X Nat
        \/ i - Len(h) \in 1 .. Len(more) /\ g[i] = more[i - Len(h)]
    BY <1>1, <1>14
  <2> HIDE DEF g
  <2>2. CASE i \in 1 .. Len(h) /\ g[i] = h[i] /\ h[i] \in Jobs \X Nat
    <3>1. h[i][2] \in DOMAIN job[h[i][1]].slices
      BY <2>2 DEF IInv, HeavyQueueInv
    <3>2. h[i][1] # j
      BY <1>4, <1>9, <3>1 DEF JobOK, Fresh
    <3> QED
      BY <1>13, <2>2, <3>1, <3>2
  <2>3. CASE i - Len(h) \in 1 .. Len(more) /\ g[i] = more[i - Len(h)]
    <3>1. g[i] = <<j, i - Len(h)>> /\ i - Len(h) \in DOMAIN slices
      BY <1>14, <2>3
    <3> QED
      BY <1>11, <1>13, <3>1
  <2> QED
    BY <2>1, <2>2, <2>3
<1> QED
  BY <1>13, <1>15, <1>16, <1>17 DEF IInv, Types, LoadsInv, StartJob

LEMMA DecideIInv ==
  ASSUME IInv, NEW r \in Requests, Decide(r) PROVE IInv'
<1> DEFINE n == req[r].next
           j == <<r, n>>
           q == queue["request"]
           pc == IF n < Len(ModelsOf[r]) THEN "find" ELSE "wait"
           c == [req[r] EXCEPT !.pc = pc, !.next = n + 1, !.map = 0, !.found = 0]
<1>1. PICK down : /\ job' = [job EXCEPT ![j].state = IF down THEN "downgraded" ELSE "queued"]
                  /\ queue' = IF down THEN queue ELSE [queue EXCEPT !["request"] = Append(@, <<j, 0>>)]
  BY Zenon DEF Decide
<1>2. req' = [req EXCEPT ![r] = c]
  BY Zenon DEF Decide
<1>3. /\ req[r] \in ReqRecord /\ req[r].pc = "decide" /\ n \in Nat
      /\ n \in DOMAIN ModelsOf[r] /\ n <= Len(ModelsOf[r]) /\ Len(ModelsOf[r]) \in Nat
  BY ModelsShape DEF IInv, Types, PhaseInv, ReqRecord, Decide
<1>4. j \in Jobs /\ job[j].state = "none" /\ job[j] \in JobRecord
  <2>1. j \in Jobs
    BY <1>3, JobType
  <2>2. n >= req[r].next
    BY <1>3
  <2> QED
    BY <1>3, <2>1, <2>2 DEF IInv, Types, PhaseInv
<1> DEFINE s == IF down THEN "downgraded" ELSE "queued"
           b == [job[j] EXCEPT !.state = s]
<1>5. job' = [job EXCEPT ![j] = b]
  BY <1>1, Zenon
<1>6. s \in {"downgraded", "queued"}
  BY Zenon
<1>7. ~down => s = "queued"
  BY Zenon
<1>8. pc \in {"find", "wait"} /\ (pc = "find" => n + 1 <= Len(ModelsOf[r]))
  BY <1>3
<1> HIDE DEF s, pc
<1>9. /\ b \in JobRecord /\ b.state = s /\ b.slices = job[j].slices /\ b.left = job[j].left
      /\ b.items = job[j].items /\ b.used = job[j].used /\ b.failed = job[j].failed
      /\ b.version = job[j].version
  BY <1>4, <1>6 DEF JobRecord, JobStates
<1>10. c \in ReqRecord /\ c.pc = pc /\ c.next = n + 1 /\ c.seen = req[r].seen
  <2>1. pc \in PCs /\ n + 1 \in Nat
    BY <1>3, <1>8 DEF PCs
  <2>2. req[r] \in ReqRecord
    BY <1>3
  <2> DEFINE next == n + 1
  <2> HIDE DEF next
  <2>3. c = [req[r] EXCEPT !.pc = pc, !.next = next, !.map = 0, !.found = 0] /\ next \in Nat
    BY <2>1, Zenon DEF next
  <2> HIDE DEF c, n
  <2>4. c \in ReqRecord /\ c.pc = pc /\ c.next = next /\ c.seen = req[r].seen
    BY <2>1, <2>2, <2>3 DEF ReqRecord
  <2> QED
    BY <2>4 DEF next
<1> HIDE DEF b, c
<1>11. /\ job' \in [Jobs -> JobRecord] /\ job'[j] = b /\ \A i \in Jobs : i # j => job'[i] = job[i]
       /\ req' \in [Requests -> ReqRecord] /\ req'[r] = c /\ \A p \in Requests : p # r => req'[p] = req[p]
  BY <1>2, <1>4, <1>5, <1>9, <1>10 DEF IInv, Types
<1>12. queue' \in [Pools -> Seq(Jobs \X Nat)] /\ queue'["heavy"] = queue["heavy"]
       /\ \/ queue'["request"] = q
          \/ s = "queued" /\ queue'["request"] = Append(q, <<j, 0>>)
  <2>1. CASE down
    BY <1>1, <2>1 DEF IInv, Types
  <2>2. CASE ~down
    <3>1. queue \in [Pools -> Seq(Jobs \X Nat)] /\ q \in Seq(Jobs \X Nat)
      BY DEF IInv, Types, Pools
    <3>2. Append(q, <<j, 0>>) \in Seq(Jobs \X Nat)
      <4> HIDE DEF j, q
      <4> QED
        BY <1>4, <3>1
    <3> QED
      BY <1>1, <1>7, <2>2, <3>1, <3>2 DEF Pools
  <2> QED
    BY <2>1, <2>2
<1>13. Types' /\ LoadsInv'
  BY <1>11, <1>12 DEF IInv, Types, LoadsInv, Decide
<1>14. JobInv'
  <2> SUFFICES ASSUME NEW i \in Jobs PROVE JobOK(job'[i], req'[i[1]].seen[ModelOf(i)])
    BY DEF JobInv, JobOK
  <2>1. JobOK(job[i], req[i[1]].seen[ModelOf(i)])
    BY DEF IInv, JobInv
  <2>2. req'[i[1]].seen = req[i[1]].seen
    BY <1>10, <1>11, JobType
  <2>3. CASE i # j
    BY <1>11, <2>1, <2>2, <2>3
  <2>4. CASE i = j
    <3>1. JobOK(b, req[i[1]].seen[ModelOf(i)])
      BY <1>4, <1>6, <1>9, <2>1, <2>4 DEF JobOK, Fresh
    <3> QED
      BY <1>11, <2>2, <2>4, <3>1
  <2> QED
    BY <2>3, <2>4
<1>15. PhaseInv'
  <2> SUFFICES ASSUME NEW p \in Requests
               PROVE  /\ \A i \in DOMAIN ModelsOf[p] : i >= req'[p].next => job'[<<p, i>>].state = "none"
                      /\ req'[p].next \in 1 .. Len(ModelsOf[p]) + 1
                      /\ req'[p].pc = "idle" => req'[p].next = 1
                      /\ req'[p].pc \in {"find", "decide"} => req'[p].next <= Len(ModelsOf[p])
                      /\ \A m \in Models : req'[p].seen[m] <= models[m]
    BY DEF PhaseInv, Decide
  <2>1. /\ \A i \in DOMAIN ModelsOf[p] : i >= req[p].next => job[<<p, i>>].state = "none"
        /\ req[p].next \in 1 .. Len(ModelsOf[p]) + 1
        /\ req[p].pc = "idle" => req[p].next = 1
        /\ req[p].pc \in {"find", "decide"} => req[p].next <= Len(ModelsOf[p])
        /\ \A m \in Models : req[p].seen[m] <= models[m]
    BY DEF IInv, PhaseInv
  <2>2. CASE p # r
    <3>1. \A i \in DOMAIN ModelsOf[p] : <<p, i>> \in Jobs /\ <<p, i>> # j
      BY <2>2, JobType
    <3> QED
      BY <1>11, <2>1, <2>2, <3>1
  <2>3. CASE p = r
    <3>1. ASSUME NEW i \in DOMAIN ModelsOf[r], i >= n + 1 PROVE job'[<<r, i>>].state = "none"
      <4>1. i \in Nat /\ i >= n /\ i # n
        BY <1>3, <3>1, ModelsShape
      <4>2. <<r, i>> \in Jobs /\ <<r, i>> # j
        BY <4>1, JobType
      <4> QED
        BY <1>11, <2>1, <2>3, <4>1, <4>2
    <3> QED
      BY <1>3, <1>8, <1>10, <1>11, <2>1, <2>3, <3>1
  <2> QED
    BY <2>2, <2>3
<1>16. HeavyQueueInv'
  <2> SUFFICES ASSUME NEW i \in 1 .. Len(queue["heavy"])
               PROVE  queue["heavy"][i][2] \in DOMAIN job'[queue["heavy"][i][1]].slices
    BY <1>12 DEF HeavyQueueInv
  <2>1. queue["heavy"][i][2] \in DOMAIN job[queue["heavy"][i][1]].slices /\ queue["heavy"][i] \in Jobs \X Nat
    BY DEF IInv, HeavyQueueInv, Types, Pools
  <2> QED
    BY <1>9, <1>11, <2>1
<1>17. RequestQueueInv'
  <2> DEFINE g == queue'["request"]
  <2> SUFFICES ASSUME NEW i \in 1 .. Len(g)
               PROVE  /\ g[i][2] = 0 /\ job'[g[i][1]].state = "queued"
                      /\ \A l \in 1 .. Len(g) : g[i] = g[l] => i = l
    BY DEF RequestQueueInv
  <2>1. q \in Seq(Jobs \X Nat)
    BY DEF IInv, Types, Pools
  <2>2. \A a \in 1 .. Len(q) : /\ q[a] \in Jobs \X Nat /\ q[a][2] = 0 /\ job[q[a][1]].state = "queued"
                               /\ \A l \in 1 .. Len(q) : q[a] = q[l] => a = l
    BY <2>1 DEF IInv, RequestQueueInv
  <2>3. \A a \in 1 .. Len(q) : q[a][1] # j /\ q[a] # <<j, 0>> /\ job'[q[a][1]].state = "queued"
    <3> SUFFICES ASSUME NEW a \in 1 .. Len(q)
                 PROVE  q[a][1] # j /\ q[a] # <<j, 0>> /\ job'[q[a][1]].state = "queued"
      OBVIOUS
    <3>1. q[a] \in Jobs \X Nat /\ job[q[a][1]].state = "queued"
      BY <2>2
    <3>2. q[a][1] # j
      BY <1>4, <3>1
    <3> HIDE DEF q, j
    <3> QED
      BY <1>11, <3>1, <3>2
  <2> HIDE DEF q, j
  <2>4. CASE g = q
    BY <2>2, <2>3, <2>4
  <2>5. CASE s = "queued" /\ g = Append(q, <<j, 0>>)
    <3>1. /\ Len(q) \in Nat /\ Len(g) = Len(q) + 1 /\ g[Len(q) + 1] = <<j, 0>>
          /\ \A a \in 1 .. Len(q) : g[a] = q[a]
      BY <2>1, <2>5
    <3> HIDE DEF g
    <3>2. \A a \in 1 .. Len(g) : a \in 1 .. Len(q) \/ a = Len(q) + 1
      BY <3>1
    <3>3. job'[j].state = "queued"
      BY <1>9, <1>11, <2>5
    <3>4. g[i][2] = 0 /\ job'[g[i][1]].state = "queued"
      BY <2>2, <2>3, <3>1, <3>2, <3>3
    <3>5. \A l \in 1 .. Len(g) : g[i] = g[l] => i = l
      BY <2>2, <2>3, <3>1, <3>2
    <3> QED
      BY <3>4, <3>5
  <2> QED
    BY <1>12, <2>4, <2>5 DEF q
<1> QED
  BY <1>13, <1>14, <1>15, <1>16, <1>17 DEF IInv

LEMMA LoadIInv ==
  ASSUME IInv, NEW m \in Models, Load(m) PROVE IInv'
<1>1. /\ models \in [Models -> Nat] /\ loads \in Nat /\ loads < MaxLoads /\ MaxLoads \in Nat
      /\ models' = [models EXCEPT ![m] = loads + 2] /\ loads' = loads + 1
      /\ \A n \in Models : models[n] <= loads + 1
  BY ConstantsAssumption DEF IInv, Types, LoadsInv, Load
<1>2. /\ models' \in [Models -> Nat] /\ loads' \in Nat
      /\ \A n \in Models : models[n] <= models'[n] /\ models'[n] <= loads' + 1
  BY <1>1
<1>3. Types' /\ LoadsInv'
  BY <1>1, <1>2 DEF IInv, Types, LoadsInv, Load
<1>4. JobInv' /\ RequestQueueInv' /\ HeavyQueueInv'
  BY DEF IInv, JobInv, JobOK, RequestQueueInv, HeavyQueueInv, Load
<1>5. PhaseInv'
  <2>1. ASSUME NEW r \in Requests, NEW n \in Models PROVE req[r].seen[n] <= models'[n]
    <3>1. req[r].seen[n] \in Nat /\ req[r].seen[n] <= models[n] /\ models[n] \in Nat /\ models'[n] \in Nat
      BY <1>1, <1>2 DEF IInv, Types, PhaseInv, ReqRecord
    <3> QED
      BY <1>2, <3>1
  <2> QED
    BY <2>1 DEF IInv, PhaseInv, Load
<1> QED
  BY <1>3, <1>4, <1>5 DEF IInv

\* A step that touches neither models nor requests, jobs and queues.
LEMMA SettingsStep ==
  ASSUME IInv, UNCHANGED <<models, loads, queue, job, req>>,
         downgrade' \in [map : Nat, percent : [Models -> Nat]],
         threads' \in [Pools -> Sizes], tasks_num' \in TaskNums
  PROVE  IInv'
<1>1. Types' /\ LoadsInv'
  BY DEF IInv, Types, LoadsInv
<1>2. JobInv' /\ PhaseInv'
  BY DEF IInv, JobInv, JobOK, PhaseInv
<1>3. RequestQueueInv' /\ HeavyQueueInv'
  BY DEF IInv, RequestQueueInv, HeavyQueueInv
<1> QED
  BY <1>1, <1>2, <1>3 DEF IInv

LEMMA SetDowngradeIInv ==
  ASSUME IInv, SetDowngrade PROVE IInv'
<1>1. PICK p \in Percents : downgrade' = [map |-> downgrade.map + 1, percent |-> p]
  BY DEF SetDowngrade
<1>2. p \in [Models -> Nat] /\ downgrade.map \in Nat
  <2>1. p \in [Models -> 0 .. 100]
    BY ConstantsAssumption
  <2>2. \A m \in Models : p[m] \in Nat
    BY <2>1
  <2> QED
    BY <2>1, <2>2 DEF IInv, Types
<1>3. downgrade' \in [map : Nat, percent : [Models -> Nat]]
  BY <1>1, <1>2
<1> QED
  BY <1>3, SettingsStep DEF SetDowngrade, IInv, Types

LEMMA ResetsIInv ==
  ASSUME IInv, ResetTasks \/ \E p \in Pools : ResetThreads(p) PROVE IInv'
<1>1. threads' \in [Pools -> Sizes] /\ tasks_num' \in TaskNums
  BY DEF ResetTasks, ResetThreads, IInv, Types
<1>2. UNCHANGED <<models, loads, queue, job, req, downgrade>>
  BY DEF ResetTasks, ResetThreads
<1> QED
  BY <1>1, <1>2, SettingsStep DEF IInv, Types

LEMMA NextIInv == IInv /\ [Next]_vars => IInv'
<1> SUFFICES ASSUME IInv, [Next]_vars PROVE IInv'
  OBVIOUS
<1>1. CASE UNCHANGED vars
  BY <1>1, SettingsStep DEF vars, IInv, Types
<1>2. ASSUME NEW r \in Requests, Receive(r) \/ Thrift(r) PROVE IInv'
  BY <1>2, ReceiveIInv, FindIInv, DecideIInv, CollectIInv DEF Thrift
<1>3. CASE StartJob
  BY <1>3, StartJobIInv
<1>4. CASE RunSlice
  BY <1>4, RunSliceIInv
<1>5. ASSUME NEW j \in Jobs, EndJob(j) PROVE IInv'
  BY <1>5, EndJobIInv
<1>6. ASSUME NEW m \in Models, Load(m) PROVE IInv'
  BY <1>6, LoadIInv
<1>7. CASE SetDowngrade
  BY <1>7, SetDowngradeIInv
<1>8. CASE ResetTasks \/ \E p \in Pools : ResetThreads(p)
  BY <1>8, ResetsIInv
<1> QED
  BY <1>1, <1>2, <1>3, <1>4, <1>5, <1>6, <1>7, <1>8 DEF Next

LEMMA SpecIInv == Spec => []IInv
BY InitIInv, NextIInv, PTL DEF Spec

---------------------------------------------------------------------------
(* The theorems *)

\* ModelManager and the pools keep their types: a task of a pool is a job or one
\* of its slices, and only a running job has slices left.
THEOREM PredictionTypes == Spec => []TypeOK
<1>1. ASSUME IInv PROVE TypeOK
  <2>1. models \in [Models -> 0 .. MaxLoads + 1]
    <3>1. /\ models \in [Models -> Nat] /\ loads \in Nat /\ MaxLoads \in Nat /\ loads <= MaxLoads
          /\ \A m \in Models : models[m] <= loads + 1
      BY <1>1, ConstantsAssumption DEF IInv, Types, LoadsInv
    <3>2. \A m \in Models : models[m] \in 0 .. MaxLoads + 1
      BY <3>1
    <3> QED
      BY <3>1, <3>2
  <2>2. ASSUME NEW p \in Pools PROVE queue[p] \in Seq(Jobs \X (0 .. Total))
    <3> DEFINE q == queue[p]
    <3>1. q \in Seq(Jobs \X Nat)
      BY <1>1 DEF IInv, Types
    <3>2. ASSUME NEW i \in 1 .. Len(q) PROVE q[i] \in Jobs \X (0 .. Total)
      <4>1. q[i] \in Jobs \X Nat
        BY <3>1
      <4>2. CASE p = "request"
        BY <1>1, <4>1, <4>2, ConstantsAssumption DEF IInv, RequestQueueInv
      <4>3. CASE p = "heavy"
        <5>1. q[i][2] \in DOMAIN job[q[i][1]].slices
          BY <1>1, <4>3 DEF IInv, HeavyQueueInv
        <5>2. job[q[i][1]].slices \in AllSlices
          BY <1>1, <4>1 DEF IInv, Types, JobRecord
        <5>3. q[i][2] \in 0 .. Total
          BY <5>1, <5>2, SlicesShape, ConstantsAssumption
        <5> QED
          BY <4>1, <5>3
      <4> QED
        BY <4>2, <4>3 DEF Pools
    <3> HIDE DEF q
    <3>3. Len(q) \in Nat /\ q = [i \in 1 .. Len(q) |-> q[i]]
      BY <3>1
    <3>4. q \in Seq(Jobs \X (0 .. Total))
      BY <3>2, <3>3
    <3> QED
      BY <3>4 DEF q
  <2>3. ASSUME NEW j \in Jobs
        PROVE  /\ job[j].state \in {"none", "downgraded", "queued", "running", "done"}
               /\ job[j].left \subseteq DOMAIN job[j].slices /\ job[j].items \subseteq Items
               /\ job[j].left # {} => job[j].state = "running"
    <3>1. job[j] \in JobRecord /\ JobOK(job[j], req[j[1]].seen[ModelOf(j)])
      BY <1>1 DEF IInv, Types, JobInv
    <3> QED
      BY <3>1 DEF JobRecord, JobStates, JobOK
  <2>4. ASSUME NEW r \in Requests
        PROVE  /\ req[r].pc \in {"idle", "find", "decide", "wait", "answered", "failed"}
               /\ req[r].next \in 1 .. Len(ModelsOf[r]) + 1
    BY <1>1 DEF IInv, Types, ReqRecord, PCs, PhaseInv
  <2> QED
    BY <1>1, <2>1, <2>2, <2>3, <2>4 DEF TypeOK, IInv, Types
<1> QED
  BY <1>1, SpecIInv, PTL

\* singlePredict hands one model to all slices of a job, and ModelFramework never
\* gives one that is older than what was loaded when the request came in.
THEOREM PredictionOneModel == Spec => []OneFreshModel
<1>1. ASSUME IInv PROVE OneFreshModel
  <2> SUFFICES ASSUME NEW j \in Jobs, job[j].state \in {"running", "done"}
               PROVE  /\ job[j].used \subseteq {job[j].version}
                      /\ job[j].version >= req[j[1]].seen[ModelOf(j)]
    BY DEF OneFreshModel
  <2>1. JobOK(job[j], req[j[1]].seen[ModelOf(j)])
    BY <1>1 DEF IInv, JobInv
  <2> QED
    BY <2>1 DEF JobOK, Fresh
<1> QED
  BY <1>1, SpecIInv, PTL

\* With neither feature_extract_tasks_num nor min_items_per_thread at zero, the
\* slices of a job that did not fail give a result for every usable item, however
\* the settings change while it runs.  (With a zero split_slice gives no slice.)
THEOREM PredictionComplete ==
  ASSUME 0 \notin TaskNums, MinItems # 0
  PROVE  Spec => []EveryItemAnswered
<1>1. ASSUME IInv PROVE EveryItemAnswered
  <2> SUFFICES ASSUME NEW r \in Requests, NEW j \in JobsOf(r),
                      job[j].state = "done", job[j].version > 0, ~job[j].failed
               PROVE  job[j].items = Items \ BadItems
    BY DEF EveryItemAnswered
  <2>1. j \in Jobs
    BY DEF JobsOf
  <2>2. JobOK(job[j], req[j[1]].seen[ModelOf(j)])
    BY <1>1, <2>1 DEF IInv, JobInv
  <2>3. PICK n \in TaskNums : job[j].slices = split_slice(Total, MinItems, n)
    BY <2>2 DEF JobOK, Fresh
  <2>4. job[j].left = {}
    BY <2>2 DEF JobOK
  <2>5. UNION {ItemsOf(job[j].slices[k]) : k \in DOMAIN job[j].slices} = Items
    BY <2>3, SlicesComplete
  <2>6. \A x : x \in job[j].items <=>
           /\ x \notin BadItems
           /\ \E k \in DOMAIN job[j].slices : x \in ItemsOf(job[j].slices[k])
    BY <2>2, <2>4 DEF JobOK
  <2> QED
    BY <2>5, <2>6
<1> QED
  BY <1>1, SpecIInv, PTL
=============================================================================
