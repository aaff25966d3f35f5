------------------------- MODULE SplitForwardProofs -------------------------
(***************************************************************************)
(* PredictorRouter sends no item twice and the parts of a request to one   *)
(* service, and returns all that was answered, for any number of requests, *)
(* items, slices, threads and updates of the map.                          *)
(***************************************************************************)
EXTENDS SplitForward, SlicesProofs

Names == Services \cup {RouterService}
PartRecord == [state : States, service : Names, reply : Replies]
ReqRecord == [pc : PCs, kind : Kinds, service : Names, futs : Seq(Parts), items : SUBSET Int]

Types ==
  /\ service_map \in Entries
  /\ queue \in Seq(Requests \X Parts)
  /\ part \in [Requests -> [Parts -> PartRecord]]
  /\ req \in [Requests -> ReqRecord]

\* A task of the heavy pool belongs to a slice of a request that was split.
QueueInv ==
  \A i \in 1 .. Len(queue) :
    queue[i][2] # 0 /\ part[queue[i][1]][queue[i][2]].state # "none"

\* Before the first rpc no part is on its way, and only one of the two ways to
\* forward is taken.
PhaseInv ==
  \A r \in Requests :
    /\ req[r].pc \in {"idle", "forward", "split", "send"} =>
         \A k \in Parts : part[r][k].state = "none"
    /\ part[r][0].state # "sending"
    /\ \A k \in Parts : (k # 0 /\ part[r][k].state # "none") => part[r][0].state = "none"

\* A request that is being sent has a service, and what was sent went there.
ServiceInv ==
  \A r \in Requests :
    /\ req[r].pc = "send" => req[r].service \in Services
    /\ \A k \in Parts : /\ part[r][k].state # "none" => req[r].service \in Services
                        /\ part[r][k].state = "sent" => part[r][k].service = req[r].service

IInv == Types /\ QueueInv /\ PhaseInv /\ ServiceInv

\* The k-th range is a slice of the items.
LEMMA RangesShape ==
  /\ Len(Ranges) \in Nat
  /\ \/ Ranges = << >>
     \/ \E avg \in Nat \ {0} : Ranges = Cut(Total, avg) /\ DOMAIN Ranges = 1 .. Len(Ranges)
<1> USE ConstantsAssumption
<1>1. CASE MaxItems <= 0 \/ MinItems = 0
  <2>1. Ranges = << >>
    BY <1>1 DEF Ranges, split_slice
  <2> QED
    BY <2>1
<1>2. CASE MaxItems > 0 /\ MinItems # 0
  <2> DEFINE max == Total \div MaxItems + 1
             avg == Average(Total, MinItems, max)
  <2>1. max \in Nat \ {0}
    BY <1>2, DivBounds
  <2>2. avg \in Nat \ {0}
    BY <1>2, <2>1, AveragePositive
  <2>3. Ranges = Cut(Total, avg)
    BY <1>2, <2>1 DEF Ranges, split_slice
  <2>4. Count(Total, avg) \in Nat /\ DOMAIN Cut(Total, avg) = 1 .. Count(Total, avg)
    BY <2>2, CutDomain
  <2> HIDE DEF avg
  <2>5. Len(Cut(Total, avg)) = Count(Total, avg)
    <3>1. Cut(Total, avg) = [i \in 1 .. Count(Total, avg) |-> Cut(Total, avg)[i]]
      BY <2>4 DEF Cut, Count
    <3> QED
      BY <2>4, <3>1
  <2> QED
    BY <2>2, <2>3, <2>4, <2>5
<1> QED
  BY <1>1, <1>2

LEMMA PartsType == Parts \subseteq Nat /\ 0 \in Parts /\ DOMAIN Ranges = Parts \ {0}
<1>1. CASE Ranges = << >>
  BY <1>1 DEF Parts
<1>2. CASE DOMAIN Ranges = 1 .. Len(Ranges)
  BY <1>2, RangesShape DEF Parts
<1> QED
  BY <1>1, <1>2, RangesShape

LEMMA InitIInv == Init => IInv
<1> SUFFICES ASSUME Init PROVE IInv
  OBVIOUS
<1>1. Types
  <2>1. NoPart \in PartRecord
    BY DEF NoPart, PartRecord, Names, States, Replies
  <2>2. NewReq \in ReqRecord
    <3>1. (CHOOSE k \in Kinds : TRUE) \in Kinds
      BY ConstantsAssumption
    <3>2. << >> \in Seq(Parts)
      OBVIOUS
    <3> QED
      BY <3>1, <3>2 DEF NewReq, ReqRecord, Names, PCs
  <2> QED
    BY <2>1, <2>2 DEF Init, Types
<1>2. QueueInv
  BY DEF Init, QueueInv
<1>3. PhaseInv /\ ServiceInv
  BY PartsType DEF Init, PhaseInv, ServiceInv, NoPart, NewReq
<1> QED
  BY <1>1, <1>2, <1>3 DEF IInv

LEMMA ServiceNameType ==
  ASSUME Types, NEW c \in ReqRecord, ServiceName(c) # "error"
  PROVE  ServiceName(c) \in Services
BY ConstantsAssumption DEF Types, ReqRecord, Names, Entries, Looked, ServiceName

Early == {"idle", "forward", "split", "send"}

\* A step of a request that changes neither parts nor queue keeps the invariant
\* unless it goes back to a phase before the first rpc, and as long as a request
\* about to send has a service.
LEMMA RequestStep ==
  ASSUME IInv, Types', NEW r \in Requests, UNCHANGED <<part, queue>>,
         \A q \in Requests : q # r => req'[q] = req[q],
         req'[r].pc \in Early => req[r].pc \in Early,
         req[r].pc \in Early \/ req'[r].service = req[r].service,
         req'[r].pc = "send" => req'[r].service \in Services
  PROVE  IInv'
<1>1. QueueInv'
  BY DEF IInv, QueueInv
<1>2. PhaseInv'
  <2> SUFFICES ASSUME NEW q \in Requests
               PROVE  /\ req'[q].pc \in Early => \A k \in Parts : part[q][k].state = "none"
                      /\ part[q][0].state # "sending"
                      /\ \A k \in Parts : (k # 0 /\ part[q][k].state # "none") => part[q][0].state = "none"
    BY DEF PhaseInv, Early
  <2> QED
    BY DEF IInv, PhaseInv, Early
<1>3. ServiceInv'
  <2> SUFFICES ASSUME NEW q \in Requests
               PROVE  /\ req'[q].pc = "send" => req'[q].service \in Services
                      /\ \A k \in Parts :
                           /\ part[q][k].state # "none" => req'[q].service \in Services
                           /\ part[q][k].state = "sent" => part[q][k].service = req'[q].service
    BY DEF ServiceInv
  <2>1. CASE q # r
    BY <2>1 DEF IInv, ServiceInv
  <2>2. CASE q = r /\ req[r].pc \in Early
    BY <2>2 DEF IInv, PhaseInv, Early
  <2>3. CASE q = r /\ req'[r].service = req[r].service
    BY <2>3 DEF IInv, ServiceInv
  <2> QED
    BY <2>1, <2>2, <2>3
<1> QED
  BY <1>1, <1>2, <1>3 DEF IInv

\* A request's record replaced by another.
LEMMA ReqTypes ==
  ASSUME Types, NEW r \in Requests, NEW c \in ReqRecord,
         req' = [req EXCEPT ![r] = c], UNCHANGED <<service_map, queue, part>>
  PROVE  /\ Types'
         /\ \A q \in Requests : q # r => req'[q] = req[q]
         /\ req'[r] = c
BY DEF Types

LEMMA MultiPredictIInv ==
  ASSUME IInv, NEW r \in Requests, MultiPredict(r) PROVE IInv'
<1>1. PICK kd \in Kinds : req' = [req EXCEPT ![r] = [@ EXCEPT !.kind = kd,
         !.pc = CASE kd.op \in {"none", "simple_forward"} -> "forward"
                  [] kd.op = "split_request"              -> "split"
                  [] kd.op = "other"                      -> "returned"
                  [] kd.op = "missing"                    -> "undefined"]]
  BY DEF MultiPredict
<1>2. PICK pc \in {"forward", "split", "returned", "undefined"} :
         req' = [req EXCEPT ![r] = [@ EXCEPT !.kind = kd, !.pc = pc]]
  BY <1>1, ConstantsAssumption DEF Operations
<1>3. Types'
  BY <1>2 DEF IInv, Types, ReqRecord, MultiPredict, PCs
<1>4. /\ \A q \in Requests : q # r => req'[q] = req[q]
      /\ req'[r].pc = pc /\ req[r].pc = "idle"
  BY <1>2 DEF IInv, Types, ReqRecord, MultiPredict
<1> QED
  BY <1>3, <1>4, RequestStep DEF MultiPredict, Early

LEMMA SimpleForwardIInv ==
  ASSUME IInv, NEW r \in Requests, SimpleForward(r) PROVE IInv'
<1> DEFINE s == ServiceName(req[r])
<1>1. req[r] \in ReqRecord /\ req[r].pc = "forward"
  BY DEF IInv, Types, SimpleForward
<1>2. CASE s = "error"
  <2>1. req' = [req EXCEPT ![r] = [@ EXCEPT !.pc = "returned"]]
    BY <1>2 DEF SimpleForward
  <2> DEFINE c == [req[r] EXCEPT !.pc = "returned"]
  <2>2. c \in ReqRecord /\ c.pc = "returned"
    BY <1>1 DEF ReqRecord, PCs
  <2>3. Types' /\ (\A q \in Requests : q # r => req'[q] = req[q]) /\ req'[r] = c
    BY <2>1, <2>2, ReqTypes DEF IInv, SimpleForward
  <2> QED
    BY <1>1, <2>2, <2>3, RequestStep DEF SimpleForward, Early
<1>3. CASE s # "error"
  <2>1. s \in Services
    BY <1>1, <1>3, ServiceNameType DEF IInv
  <2>2. req' = [req EXCEPT ![r] = [@ EXCEPT !.pc = "send", !.service = s]]
    BY <1>3 DEF SimpleForward
  <2> HIDE DEF s
  <2> DEFINE c == [req[r] EXCEPT !.pc = "send", !.service = s]
  <2>3. c \in ReqRecord /\ c.pc = "send" /\ c.service = s
    BY <1>1, <2>1 DEF ReqRecord, PCs, Names
  <2>4. Types' /\ (\A q \in Requests : q # r => req'[q] = req[q]) /\ req'[r] = c
    BY <2>2, <2>3, ReqTypes DEF IInv, SimpleForward
  <2> QED
    BY <1>1, <2>1, <2>3, <2>4, RequestStep DEF SimpleForward, Early
<1> QED
  BY <1>2, <1>3

LEMMA CollectIInv ==
  ASSUME IInv, NEW r \in Requests, Collect(r) PROVE IInv'
<1>1. PICK pc \in {"failed", "get"} : req' = [req EXCEPT ![r] = [@ EXCEPT !.pc = pc]]
  BY DEF Collect
<1> DEFINE c == [req[r] EXCEPT !.pc = pc]
<1>2. req[r] \in ReqRecord
  BY DEF IInv, Types
<1>3. c \in ReqRecord /\ c.pc = pc /\ c.service = req[r].service
  BY <1>2 DEF ReqRecord, PCs
<1>4. Types' /\ (\A q \in Requests : q # r => req'[q] = req[q]) /\ req'[r] = c
  BY <1>1, <1>3, ReqTypes DEF IInv, Collect
<1> QED
  BY <1>3, <1>4, RequestStep DEF Collect, Early

LEMMA ReturnIInv ==
  ASSUME IInv, NEW r \in Requests, Return(r) PROVE IInv'
<1>1. req' = [req EXCEPT ![r].pc = "returned"]
  BY DEF Return
<1>2. Types'
  BY <1>1 DEF IInv, Types, ReqRecord, Return, PCs
<1>3. /\ \A q \in Requests : q # r => req'[q] = req[q]
      /\ req'[r].pc = "returned" /\ req'[r].service = req[r].service
  BY <1>1 DEF IInv, Types, ReqRecord
<1> QED
  BY <1>2, <1>3, RequestStep DEF Return, Early

LEMMA GetIInv ==
  ASSUME IInv, NEW r \in Requests, Get(r) PROVE IInv'
<1> DEFINE k == Head(req[r].futs)
           c == Combined(req[r], Results(r, k))
<1>1. req[r] \in ReqRecord /\ req[r].futs \in Seq(Parts) /\ req[r].futs # << >>
  BY DEF IInv, Types, ReqRecord, Get
<1>2. Tail(req[r].futs) \in Seq(Parts)
  BY <1>1
<1>3. Results(r, k) \subseteq Int
  BY DEF Results, ItemsOfPart, Items, ItemsOf
<1>4. req' = [req EXCEPT ![r] = c]
  BY DEF Get
<1> HIDE DEF k
<1>5. c \in ReqRecord /\ c.pc = req[r].pc /\ c.service = req[r].service
  BY <1>1, <1>2, <1>3 DEF ReqRecord, Combined
<1> HIDE DEF c
<1>6. Types' /\ (\A q \in Requests : q # r => req'[q] = req[q]) /\ req'[r] = c
  BY <1>4, <1>5, ReqTypes DEF IInv, Get
<1> QED
  BY <1>5, <1>6, RequestStep DEF Get, Early

\* A part that is already on its way takes a step.
LEMMA PartStep ==
  ASSUME IInv, NEW r \in Requests, NEW k \in Parts, NEW p \in PartRecord,
         part' = [part EXCEPT ![r] = [@ EXCEPT ![k] = p]],
         part[r][k].state # "none", p.state # "none",
         p.state = "sending" => k # 0,
         p.state = "sent" => p.service = req[r].service,
         \A q \in Requests : req'[q].pc = req[q].pc /\ req'[q].service = req[q].service
  PROVE  /\ part' \in [Requests -> [Parts -> PartRecord]]
         /\ PhaseInv' /\ ServiceInv'
         /\ \A q \in Requests, l \in Parts : part[q][l].state # "none" => part'[q][l].state # "none"
<1>1. part \in [Requests -> [Parts -> PartRecord]] /\ 0 \in Parts
  BY PartsType DEF IInv, Types
<1>2. part' \in [Requests -> [Parts -> PartRecord]]
  BY <1>1
<1>3. \A q \in Requests, l \in Parts :
         part'[q][l] = IF q = r /\ l = k THEN p ELSE part[q][l]
  BY <1>1
<1>4. PhaseInv'
  <2> SUFFICES ASSUME NEW q \in Requests
               PROVE  /\ req[q].pc \in Early => \A l \in Parts : part'[q][l].state = "none"
                      /\ part'[q][0].state # "sending"
                      /\ \A l \in Parts : (l # 0 /\ part'[q][l].state # "none") => part'[q][0].state = "none"
    BY DEF PhaseInv, Early
  <2>1. /\ req[q].pc \in Early => \A l \in Parts : part[q][l].state = "none"
        /\ part[q][0].state # "sending"
        /\ \A l \in Parts : (l # 0 /\ part[q][l].state # "none") => part[q][0].state = "none"
    BY DEF IInv, PhaseInv, Early
  <2> QED
    BY <1>1, <1>3, <2>1
<1>5. ServiceInv'
  <2> SUFFICES ASSUME NEW q \in Requests
               PROVE  /\ req[q].pc = "send" => req[q].service \in Services
                      /\ \A l \in Parts :
                           /\ part'[q][l].state # "none" => req[q].service \in Services
                           /\ part'[q][l].state = "sent" => part'[q][l].service = req[q].service
    BY DEF ServiceInv
  <2>1. /\ req[q].pc = "send" => req[q].service \in Services
        /\ \A l \in Parts : /\ part[q][l].state # "none" => req[q].service \in Services
                            /\ part[q][l].state = "sent" => part[q][l].service = req[q].service
    BY DEF IInv, ServiceInv
  <2> QED
    BY <1>3, <2>1
<1> QED
  BY <1>2, <1>3, <1>4, <1>5

LEMMA StartSliceIInv ==
  ASSUME IInv, StartSlice PROVE IInv'
<1> DEFINE r == Head(queue)[1]
           k == Head(queue)[2]
           p == [part[r][k] EXCEPT !.state = "sending"]
<1>1. queue \in Seq(Requests \X Parts) /\ queue # << >>
  BY DEF IInv, Types, StartSlice
<1>2. Head(queue) = queue[1] /\ 1 \in 1 .. Len(queue) /\ Head(queue) \in Requests \X Parts
  BY <1>1
<1>3. r \in Requests /\ k \in Parts /\ k # 0 /\ part[r][k].state # "none"
  BY <1>2 DEF IInv, QueueInv
<1>4. part' = [part EXCEPT ![r] = [@ EXCEPT ![k] = p]]
  BY Zenon DEF StartSlice
<1> HIDE DEF r, k
<1>5. part[r][k] \in PartRecord
  BY <1>3 DEF IInv, Types
<1>6. p \in PartRecord /\ p.state = "sending"
  BY <1>5 DEF PartRecord, States
<1> HIDE DEF p
<1>7. /\ part' \in [Requests -> [Parts -> PartRecord]] /\ PhaseInv' /\ ServiceInv'
      /\ \A q \in Requests, l \in Parts : part[q][l].state # "none" => part'[q][l].state # "none"
  BY <1>3, <1>4, <1>6, PartStep DEF StartSlice
<1>8. queue' \in Seq(Requests \X Parts) /\ Len(queue') = Len(queue) - 1 /\ Len(queue) \in Nat
      /\ \A i \in 1 .. Len(queue') : queue'[i] = queue[i + 1]
  BY <1>1 DEF StartSlice
<1>9. QueueInv'
  <2> SUFFICES ASSUME NEW i \in 1 .. Len(queue')
               PROVE  queue'[i][2] # 0 /\ part'[queue'[i][1]][queue'[i][2]].state # "none"
    BY DEF QueueInv
  <2>1. i + 1 \in 1 .. Len(queue) /\ queue'[i] = queue[i + 1]
    BY <1>8
  <2>2. queue'[i] \in Requests \X Parts
    BY <1>8
  <2>3. queue'[i][2] # 0 /\ part[queue'[i][1]][queue'[i][2]].state # "none"
    BY <2>1 DEF IInv, QueueInv
  <2> QED
    BY <1>7, <2>2, <2>3
<1>10. Types'
  BY <1>7, <1>8 DEF IInv, Types, StartSlice
<1> QED
  BY <1>7, <1>9, <1>10 DEF IInv

\* The queue is as it was and no part went back to "none".
LEMMA QueueKept ==
  ASSUME IInv, UNCHANGED queue,
         \A q \in Requests, l \in Parts : part[q][l].state # "none" => part'[q][l].state # "none"
  PROVE  QueueInv'
<1> SUFFICES ASSUME NEW i \in 1 .. Len(queue)
             PROVE  queue[i][2] # 0 /\ part'[queue[i][1]][queue[i][2]].state # "none"
  BY DEF QueueInv
<1>1. queue[i] \in Requests \X Parts
  BY DEF IInv, Types
<1>2. queue[i][2] # 0 /\ part[queue[i][1]][queue[i][2]].state # "none"
  BY DEF IInv, QueueInv
<1> QED
  BY <1>1, <1>2

LEMMA ReplyIInv ==
  ASSUME IInv, NEW r \in Requests, NEW k \in Parts, Reply(r, k) PROVE IInv'
<1>1. PICK reply \in {"results", "empty", "exception"} : part' = [part EXCEPT ![r][k].reply = reply]
  BY DEF Reply
<1> DEFINE p == [part[r][k] EXCEPT !.reply = reply]
<1>2. part' = [part EXCEPT ![r] = [@ EXCEPT ![k] = p]]
  BY <1>1, Zenon
<1>3. part[r][k] \in PartRecord /\ part[r][k].state = "sent"
  BY DEF IInv, Types, Reply
<1>4. p \in PartRecord /\ p.state = "sent" /\ p.service = part[r][k].service
  BY <1>3 DEF PartRecord, Replies
<1>5. p.service = req[r].service
  BY <1>3, <1>4 DEF IInv, ServiceInv
<1> HIDE DEF p
<1>6. /\ part' \in [Requests -> [Parts -> PartRecord]] /\ PhaseInv' /\ ServiceInv'
      /\ \A q \in Requests, l \in Parts : part[q][l].state # "none" => part'[q][l].state # "none"
  BY <1>2, <1>3, <1>4, <1>5, PartStep DEF Reply
<1>7. Types' /\ QueueInv'
  BY <1>6, QueueKept DEF IInv, Types, Reply
<1> QED
  BY <1>6, <1>7 DEF IInv

LEMMA UpdateMapIInv ==
  ASSUME IInv, UpdateMap PROVE IInv'
BY DEF IInv, Types, QueueInv, PhaseInv, ServiceInv, UpdateMap

LEMMA EndSliceIInv ==
  ASSUME IInv, NEW r \in Requests, NEW k \in Parts, EndSlice(r, k) PROVE IInv'
<1>1. PICK outcome \in SendOutcomes :
        /\ part' = [part EXCEPT ![r][k] = [@ EXCEPT !.state = outcome, !.service = SliceService(r)]]
        /\ req' = IF outcome = "sent" THEN [req EXCEPT ![r].futs = Append(@, k)] ELSE req
  BY DEF EndSlice
<1> DEFINE p == [part[r][k] EXCEPT !.state = outcome, !.service = req[r].service]
<1>2. part' = [part EXCEPT ![r] = [@ EXCEPT ![k] = p]]
  BY <1>1, Zenon DEF SliceService
<1>3. part[r][k] \in PartRecord /\ part[r][k].state = "sending" /\ req[r] \in ReqRecord
  BY DEF IInv, Types, EndSlice
<1>4. outcome \in States /\ outcome \notin {"none", "sending"}
  BY ConstantsAssumption DEF States
<1>5. p \in PartRecord /\ p.state = outcome /\ p.service = req[r].service
  BY <1>3, <1>4 DEF PartRecord, ReqRecord
<1> HIDE DEF p
<1>6. /\ req' \in [Requests -> ReqRecord]
      /\ \A q \in Requests : req'[q].pc = req[q].pc /\ req'[q].service = req[q].service
  <2>1. CASE outcome # "sent"
    BY <1>1, <2>1 DEF IInv, Types
  <2>2. CASE outcome = "sent"
    <3>1. Append(req[r].futs, k) \in Seq(Parts)
      BY <1>3 DEF ReqRecord
    <3> DEFINE c == [req[r] EXCEPT !.futs = Append(req[r].futs, k)]
    <3>2. req' = [req EXCEPT ![r] = c]
      BY <1>1, <2>2, Zenon
    <3>3. c \in ReqRecord /\ c.pc = req[r].pc /\ c.service = req[r].service
      BY <1>3, <3>1 DEF ReqRecord
    <3> HIDE DEF c
    <3> QED
      BY <3>2, <3>3 DEF IInv, Types
  <2> QED
    BY <2>1, <2>2
<1>7. /\ part' \in [Requests -> [Parts -> PartRecord]] /\ PhaseInv' /\ ServiceInv'
      /\ \A q \in Requests, l \in Parts : part[q][l].state # "none" => part'[q][l].state # "none"
  BY <1>2, <1>3, <1>4, <1>5, <1>6, PartStep
<1>8. Types' /\ QueueInv'
  BY <1>6, <1>7, QueueKept DEF IInv, Types, EndSlice
<1> QED
  BY <1>7, <1>8 DEF IInv

\* Parts of a request that has sent nothing yet leave for its service.
LEMMA Departure ==
  ASSUME IInv, NEW r \in Requests, req[r].pc \in Early,
         NEW ps \in [Parts -> PartRecord], part' = [part EXCEPT ![r] = ps],
         NEW c \in ReqRecord, req' = [req EXCEPT ![r] = c],
         c.pc \notin Early, c.service \in Services,
         ps[0].state # "sending",
         ps[0].state = "none" \/ \A k \in Parts : k # 0 => ps[k].state = "none",
         \A k \in Parts : ps[k].state = "sent" => ps[k].service = c.service
  PROVE  /\ part' \in [Requests -> [Parts -> PartRecord]]
         /\ req' \in [Requests -> ReqRecord]
         /\ PhaseInv' /\ ServiceInv'
         /\ \A q \in Requests, l \in Parts : part[q][l].state # "none" => part'[q][l].state # "none"
<1>1. /\ part \in [Requests -> [Parts -> PartRecord]] /\ req \in [Requests -> ReqRecord]
      /\ 0 \in Parts
  BY PartsType DEF IInv, Types
<1>2. part' \in [Requests -> [Parts -> PartRecord]] /\ req' \in [Requests -> ReqRecord]
  BY <1>1
<1>3. \A q \in Requests : /\ part'[q] = IF q = r THEN ps ELSE part[q]
                          /\ req'[q] = IF q = r THEN c ELSE req[q]
  BY <1>1
<1>4. PhaseInv'
  BY <1>1, <1>3 DEF IInv, PhaseInv, Early
<1>5. ServiceInv'
  BY <1>1, <1>3 DEF IInv, ServiceInv, Early
<1>6. \A l \in Parts : part[r][l].state = "none"
  BY DEF IInv, PhaseInv, Early
<1> QED
  BY <1>2, <1>3, <1>4, <1>5, <1>6

LEMMA SendIInv ==
  ASSUME IInv, NEW r \in Requests, Send(r) PROVE IInv'
<1>1. PICK outcome \in SendOutcomes :
        /\ part' = [part EXCEPT ![r][0] = [@ EXCEPT !.state = outcome, !.service = req[r].service]]
        /\ req' = [req EXCEPT ![r] =
                    CASE outcome = "throw" -> [@ EXCEPT !.pc = "failed"]
                      [] outcome = "false" -> [@ EXCEPT !.pc = "returned"]
                      [] outcome = "sent"  ->
                           IF @.kind.record THEN [@ EXCEPT !.pc = "returned"]
                           ELSE [@ EXCEPT !.pc = "get", !.futs = <<0>>]]
  BY DEF Send
<1>2. outcome \in {"sent", "false", "throw"}
  BY ConstantsAssumption
<1>3. /\ part[r] \in [Parts -> PartRecord] /\ req[r] \in ReqRecord /\ 0 \in Parts
      /\ req[r].pc = "send" /\ req[r].service \in Services
      /\ \A k \in Parts : part[r][k].state = "none"
  BY PartsType DEF IInv, Types, PhaseInv, ServiceInv, Send
<1> DEFINE p  == [part[r][0] EXCEPT !.state = outcome, !.service = req[r].service]
           ps == [part[r] EXCEPT ![0] = p]
<1>4. part' = [part EXCEPT ![r] = ps]
  BY <1>1, Zenon
<1>5. p \in PartRecord /\ p.state = outcome /\ p.service = req[r].service
  BY <1>2, <1>3 DEF PartRecord, States, Names
<1> HIDE DEF p
<1>6. /\ ps \in [Parts -> PartRecord] /\ ps[0] = p
      /\ \A k \in Parts : k # 0 => ps[k].state = "none"
  BY <1>3, <1>5
<1> HIDE DEF ps
<1>7. PICK c \in ReqRecord : /\ req' = [req EXCEPT ![r] = c]
                             /\ c.pc \notin Early /\ c.service = req[r].service
  <2> DEFINE c1 == [req[r] EXCEPT !.pc = "failed"]
             c2 == [req[r] EXCEPT !.pc = "returned"]
             c3 == [req[r] EXCEPT !.pc = "get", !.futs = <<0>>]
  <2>1. \E c \in {c1, c2, c3} : req' = [req EXCEPT ![r] = c]
    <3>1. CASE outcome = "throw"
      BY <1>1, <3>1
    <3>2. CASE outcome = "false"
      BY <1>1, <3>2
    <3>3. CASE outcome = "sent" /\ req[r].kind.record
      BY <1>1, <3>3
    <3>4. CASE outcome = "sent" /\ ~req[r].kind.record
      BY <1>1, <3>4
    <3> QED
      BY <1>2, <3>1, <3>2, <3>3, <3>4
  <2>2. <<0>> \in Seq(Parts)
    BY <1>3
  <2>3. \A c \in {c1, c2, c3} : c \in ReqRecord /\ c.pc \notin Early /\ c.service = req[r].service
    BY <1>3, <2>2 DEF ReqRecord, PCs, Early
  <2> QED
    BY <2>1, <2>3
<1>8. /\ part' \in [Requests -> [Parts -> PartRecord]] /\ req' \in [Requests -> ReqRecord]
      /\ PhaseInv' /\ ServiceInv'
      /\ \A q \in Requests, l \in Parts : part[q][l].state # "none" => part'[q][l].state # "none"
  <2>1. /\ req[r].pc \in Early /\ c.service \in Services /\ ps[0].state # "sending"
        /\ \A k \in Parts : ps[k].state = "sent" => ps[k].service = c.service
    BY <1>2, <1>3, <1>5, <1>6, <1>7 DEF Early
  <2> QED
    BY <1>4, <1>6, <1>7, <2>1, Departure
<1>9. Types' /\ QueueInv'
  BY <1>8, QueueKept DEF IInv, Types, Send
<1> QED
  BY <1>8, <1>9 DEF IInv

LEMMA SplitRequestIInv ==
  ASSUME IInv, NEW r \in Requests, SplitRequest(r) PROVE IInv'
<1> DEFINE s == ServiceName(req[r])
<1>1. /\ req[r] \in ReqRecord /\ req[r].pc = "split" /\ part[r] \in [Parts -> PartRecord]
      /\ queue \in Seq(Requests \X Parts) /\ 0 \in Parts
      /\ \A k \in Parts : part[r][k].state = "none"
  BY PartsType DEF IInv, Types, PhaseInv, SplitRequest
<1>2. CASE s = "error"
  <2> DEFINE c == [req[r] EXCEPT !.pc = "returned"]
  <2>1. req' = [req EXCEPT ![r] = c] /\ UNCHANGED <<queue, part, service_map>>
    BY <1>2, Zenon DEF SplitRequest
  <2>2. c \in ReqRecord /\ c.pc = "returned"
    BY <1>1 DEF ReqRecord, PCs
  <2> HIDE DEF c
  <2>3. Types' /\ (\A q \in Requests : q # r => req'[q] = req[q]) /\ req'[r] = c
    BY <2>1, <2>2, ReqTypes DEF IInv
  <2> QED
    BY <1>1, <2>1, <2>2, <2>3, RequestStep DEF Early
<1>3. CASE s # "error"
  <2>1. s \in Services
    BY <1>1, <1>3, ServiceNameType DEF IInv
  <2> DEFINE pc == IF req[r].kind.record THEN "send" ELSE IF CanSplit THEN "collect" ELSE "forward"
             c == [req[r] EXCEPT !.service = s, !.pc = pc]
  <2>2. /\ req' = [req EXCEPT ![r] = c] /\ UNCHANGED service_map
        /\ IF CanSplit /\ ~req[r].kind.record
           THEN /\ queue' = queue \o [k \in DOMAIN Ranges |-> <<r, k>>]
                /\ part' = [part EXCEPT ![r] = [k \in Parts |->
                              IF k = 0 THEN @[k] ELSE [@[k] EXCEPT !.state = "queued"]]]
           ELSE UNCHANGED <<queue, part>>
    BY <1>3, Zenon DEF SplitRequest
  <2>3. pc \in {"send", "collect", "forward"}
    OBVIOUS
  <2> HIDE DEF s, pc
  <2>4. c \in ReqRecord /\ c.pc = pc /\ c.service = s
    BY <1>1, <2>1, <2>3 DEF ReqRecord, PCs, Names
  <2> HIDE DEF c
  <2>5. CASE ~(CanSplit /\ ~req[r].kind.record)
    <3>1. UNCHANGED <<queue, part, service_map>>
      BY <2>2, <2>5
    <3>2. Types' /\ (\A q \in Requests : q # r => req'[q] = req[q]) /\ req'[r] = c
      BY <2>2, <2>4, <3>1, ReqTypes DEF IInv
    <3> QED
      BY <1>1, <2>1, <2>4, <3>1, <3>2, RequestStep DEF Early
  <2>6. CASE CanSplit /\ ~req[r].kind.record
    <3> DEFINE ps == [k \in Parts |-> IF k = 0 THEN part[r][k] ELSE [part[r][k] EXCEPT !.state = "queued"]]
               more == [k \in DOMAIN Ranges |-> <<r, k>>]
    <3>1. part' = [part EXCEPT ![r] = ps] /\ queue' = queue \o more
      BY <2>2, <2>6
    <3>2. /\ ps \in [Parts -> PartRecord] /\ ps[0].state = "none"
          /\ \A k \in Parts : k # 0 => ps[k].state = "queued"
      BY <1>1 DEF PartRecord, States
    <3> HIDE DEF ps
    <3>3. pc = "collect"
      BY <2>6 DEF pc
    <3>4. \A k \in Parts : ps[k].state # "sent"
      BY <3>2
    <3>5. /\ part' \in [Requests -> [Parts -> PartRecord]] /\ req' \in [Requests -> ReqRecord]
          /\ PhaseInv' /\ ServiceInv'
          /\ \A q \in Requests, l \in Parts : part[q][l].state # "none" => part'[q][l].state # "none"
      BY <1>1, <2>1, <2>2, <2>4, <3>1, <3>2, <3>3, <3>4, Departure DEF Early
    <3>6. more \in Seq(Requests \X Parts) /\ \A i \in 1 .. Len(more) : more[i] = <<r, i>> /\ i \in Parts /\ i # 0
      <4>1. Len(Ranges) \in Nat /\ DOMAIN Ranges = 1 .. Len(Ranges)
        BY RangesShape, PartsType DEF Parts
      <4>2. more = [k \in 1 .. Len(Ranges) |-> <<r, k>>] /\ \A k \in 1 .. Len(Ranges) : k \in Parts
        BY <4>1, PartsType
      <4> HIDE DEF more
      <4> QED
        BY <4>1, <4>2
    <3> HIDE DEF more
    <3>7. queue' \in Seq(Requests \X Parts)
      BY <1>1, <3>1, <3>6
    <3>8. QueueInv'
      <4> SUFFICES ASSUME NEW i \in 1 .. Len(queue')
                   PROVE  queue'[i][2] # 0 /\ part'[queue'[i][1]][queue'[i][2]].state # "none"
        BY DEF QueueInv
      <4>0. Len(queue) \in Nat /\ Len(more) \in Nat
        BY <1>1, <3>6
      <4>1. CASE i \in 1 .. Len(queue)
        <5>1. queue'[i] = queue[i] /\ queue[i] \in Requests \X Parts
          BY <1>1, <3>1, <3>6, <4>1
        <5>2. queue[i][2] # 0 /\ part[queue[i][1]][queue[i][2]].state # "none"
          BY <4>1 DEF IInv, QueueInv
        <5> QED
          BY <3>5, <5>1, <5>2
      <4>2. CASE i > Len(queue)
        <5> DEFINE j == i - Len(queue)
        <5>1. j \in 1 .. Len(more) /\ queue'[i] = more[j]
          BY <1>1, <3>1, <3>6, <4>0, <4>2
        <5>2. queue'[i] = <<r, j>> /\ j \in Parts /\ j # 0
          BY <3>6, <5>1
        <5>3. part'[r] = ps
          BY <3>1 DEF IInv, Types
        <5> QED
          BY <3>2, <5>2, <5>3
      <4> QED
        BY <4>0, <4>1, <4>2
    <3>9. Types'
      BY <2>2, <3>5, <3>7 DEF IInv, Types
    <3> QED
      BY <3>5, <3>8, <3>9 DEF IInv
  <2> QED
    BY <2>5, <2>6
<1> QED
  BY <1>2, <1>3

LEMMA NextIInv == IInv /\ [Next]_vars => IInv'
<1> SUFFICES ASSUME IInv, [Next]_vars PROVE IInv'
  OBVIOUS
<1>1. CASE UNCHANGED vars
  BY <1>1 DEF vars, IInv, Types, QueueInv, PhaseInv, ServiceInv
<1>2. ASSUME NEW r \in Requests, MultiPredict(r) PROVE IInv'
  BY <1>2, MultiPredictIInv
<1>3. ASSUME NEW r \in Requests, Thrift(r) PROVE IInv'
  BY <1>3, SimpleForwardIInv, SplitRequestIInv, SendIInv, CollectIInv, GetIInv, ReturnIInv DEF Thrift
<1>4. CASE StartSlice
  BY <1>4, StartSliceIInv
<1>5. ASSUME NEW r \in Requests, NEW k \in Parts, EndSlice(r, k) \/ Reply(r, k) PROVE IInv'
  BY <1>5, EndSliceIInv, ReplyIInv
<1>6. CASE UpdateMap
  BY <1>6, UpdateMapIInv
<1> QED
  BY <1>1, <1>2, <1>3, <1>4, <1>5, <1>6 DEF Next

LEMMA SpecIInv == Spec => []IInv
BY InitIInv, NextIInv, PTL DEF Spec

\* What multiPredictSplitRequest and setRequestOptionPredictorServiceName see to
\* together: the parts of a request go to one service and that is not the router's.
THEOREM SplitForwardOneService == Spec => []OneService
<1>1. IInv => OneService
  BY ConstantsAssumption DEF IInv, ServiceInv, OneService, Sent
<1> QED
  BY <1>1, SpecIInv, PTL

\* PredictorRouter sends no item of a request twice, for every number of items
\* and every setting of the flags that bound a slice.
THEOREM SplitForwardNoItemTwice == Spec => []NoItemTwice
<1>1. IInv => NoItemTwice
  <2> SUFFICES ASSUME IInv, NEW r \in Requests, NEW k \in Sent(r), NEW l \in Sent(r), k # l
               PROVE  ItemsOfPart(k) \cap ItemsOfPart(l) = {}
    BY DEF NoItemTwice
  <2>1. k \in Parts /\ l \in Parts /\ k # 0 /\ l # 0
    BY DEF Sent, IInv, PhaseInv
  <2>2. PICK avg \in Nat \ {0} : Ranges = Cut(Total, avg) /\ DOMAIN Ranges = 1 .. Len(Ranges)
    BY <2>1, RangesShape, PartsType
  <2>3. k \in DOMAIN Cut(Total, avg) /\ l \in DOMAIN Cut(Total, avg)
    BY <2>1, <2>2, PartsType
  <2>4. ItemsOf(Ranges[k]) \cap ItemsOf(Ranges[l]) = {}
    BY <2>2, <2>3, SlicesDisjoint, ConstantsAssumption
  <2> QED
    BY <2>1, <2>4 DEF ItemsOfPart
<1> QED
  BY <1>1, SpecIInv, PTL

---------------------------------------------------------------------------
(* What is answered is returned.  The second invariant rests on the first   *)
(* and says, of each request alone, where its parts and their futures are.  *)

\* The parts whose futures the thrift thread has not taken yet.
Waiting(c) == {c.futs[i] : i \in 1 .. Len(c.futs)}

\* Slices leave together and only while the thread waits in collectAll, an
\* exception ends the request, and a request is answered once no future is left.
PhaseOK(c, ps) ==
  /\ c.pc \in Early => c.futs = << >> /\ c.items = {}
  /\ \A k \in Parts : ps[k].state \in {"queued", "sending"} => k # 0 /\ c.pc = "collect"
  /\ c.pc \in {"get", "returned"} => \A k \in Parts : ps[k].state # "throw"
  /\ (c.pc = "returned" /\ ~c.kind.record) => c.futs = << >>
  /\ \A k, l \in Parts \ {0} : ps[k].state # "none" => ps[l].state # "none"

\* A future belongs to a part that was sent, and no two to the same one.
FutsOK(c, ps) ==
  \A i \in 1 .. Len(c.futs) :
    /\ ps[c.futs[i]].state = "sent"
    /\ \A j \in 1 .. Len(c.futs) : c.futs[i] = c.futs[j] => i = j

\* A part whose future was taken had been answered, and the items collected so
\* far are those of the taken parts that came with results.
AnswerOK(c, ps) ==
  /\ \A k \in Parts : ps[k].reply # "none" => ps[k].state = "sent"
  /\ c.items \subseteq Items
  /\ ~c.kind.record =>
       /\ \A k \in Parts : (ps[k].state = "sent" /\ k \notin Waiting(c)) => ps[k].reply # "none"
       /\ \A x : x \in c.items <=>
            \E k \in Parts : ps[k].reply = "results" /\ k \notin Waiting(c) /\ x \in ItemsOfPart(k)

Local(c, ps) == PhaseOK(c, ps) /\ FutsOK(c, ps) /\ AnswerOK(c, ps)

LocalInv == \A r \in Requests : Local(req[r], part[r])

\* A waiting task is the only one of its slice, which has not been started.
TasksInv ==
  \A i \in 1 .. Len(queue) :
    /\ part[queue[i][1]][queue[i][2]].state = "queued"
    /\ \A j \in 1 .. Len(queue) : queue[i] = queue[j] => i = j

AllInv == IInv /\ TasksInv /\ LocalInv

LEMMA PartItems == \A k \in Parts : ItemsOfPart(k) \subseteq Items
<1> SUFFICES ASSUME NEW k \in Parts, k # 0 PROVE ItemsOf(Ranges[k]) \subseteq Items
  BY DEF ItemsOfPart
<1>1. PICK avg \in Nat \ {0} : Ranges = Cut(Total, avg)
  BY RangesShape, PartsType
<1>2. k \in DOMAIN Cut(Total, avg)
  BY <1>1, PartsType
<1>3. UNION {ItemsOf(Cut(Total, avg)[l]) : l \in DOMAIN Cut(Total, avg)} = 0 .. Total - 1
  BY SlicesCover, ConstantsAssumption
<1> QED
  BY <1>1, <1>2, <1>3 DEF Items

\* Only the request that takes a step is to be looked at.
LEMMA LocalFrame ==
  ASSUME LocalInv, NEW r \in Requests, Local(req'[r], part'[r]),
         \A q \in Requests : q # r => req'[q] = req[q] /\ part'[q] = part[q]
  PROVE  LocalInv'
<1> SUFFICES ASSUME NEW q \in Requests PROVE Local(req'[q], part'[q])
  BY DEF LocalInv, Local, PhaseOK, FutsOK, AnswerOK, Waiting
<1>1. CASE q # r
  <2>1. Local(req[q], part[q])
    BY DEF LocalInv
  <2> QED
    BY <1>1, <2>1
<1> QED
  BY <1>1

\* The queue is as it was and no waiting slice was touched.
LEMMA TasksKept ==
  ASSUME IInv, TasksInv, UNCHANGED queue,
         \A q \in Requests, l \in Parts : part[q][l].state = "queued" => part'[q][l].state = "queued"
  PROVE  TasksInv'
<1> SUFFICES ASSUME NEW i \in 1 .. Len(queue)
             PROVE  /\ part'[queue[i][1]][queue[i][2]].state = "queued"
                    /\ \A j \in 1 .. Len(queue) : queue[i] = queue[j] => i = j
  BY DEF TasksInv
<1>1. queue[i] \in Requests \X Parts
  BY DEF IInv, Types
<1> QED
  BY <1>1 DEF TasksInv

\* A request of which nothing was sent.
LEMMA NothingSent ==
  ASSUME NEW c, NEW ps, c.futs = << >>, c.items = {},
         \A k \in Parts : ps[k].state = "none" /\ ps[k].reply = "none"
  PROVE  Local(c, ps)
<1>1. PhaseOK(c, ps)
  BY DEF PhaseOK
<1>2. FutsOK(c, ps)
  BY DEF FutsOK
<1>3. AnswerOK(c, ps)
  BY DEF AnswerOK
<1> QED
  BY <1>1, <1>2, <1>3 DEF Local

LEMMA EarlyLocal ==
  ASSUME IInv, LocalInv, NEW r \in Requests, req[r].pc \in Early
  PROVE  /\ req[r].futs = << >> /\ req[r].items = {}
         /\ \A k \in Parts : part[r][k].state = "none" /\ part[r][k].reply = "none"
<1>1. Local(req[r], part[r])
  BY DEF LocalInv
<1>2. \A k \in Parts : part[r][k].state = "none"
  BY DEF IInv, PhaseInv, Early
<1>3. PhaseOK(req[r], part[r]) /\ AnswerOK(req[r], part[r])
  BY <1>1 DEF Local
<1>4. req[r].futs = << >> /\ req[r].items = {}
  BY <1>3 DEF PhaseOK
<1>5. \A k \in Parts : part[r][k].reply # "none" => part[r][k].state = "sent"
  BY <1>3 DEF AnswerOK
<1> QED
  BY <1>2, <1>4, <1>5

\* A step of a request before its first rpc that sends nothing.
LEMMA EarlyStep ==
  ASSUME AllInv, NEW r \in Requests, req[r].pc \in Early, UNCHANGED <<queue, part>>,
         NEW c, c.futs = req[r].futs, c.items = req[r].items, req' = [req EXCEPT ![r] = c]
  PROVE  TasksInv' /\ LocalInv'
<1>1. req'[r] = c /\ \A q \in Requests : q # r => req'[q] = req[q]
  BY DEF AllInv, IInv, Types
<1>2. Local(c, part[r])
  BY EarlyLocal, NothingSent DEF AllInv
<1>3. LocalInv'
  BY <1>1, <1>2, LocalFrame DEF AllInv
<1> QED
  BY <1>3, TasksKept DEF AllInv

LEMMA InitAllInv == Init => AllInv
<1> SUFFICES ASSUME Init PROVE AllInv
  OBVIOUS
<1>1. TasksInv
  BY DEF Init, TasksInv
<1>2. LocalInv
  <2> SUFFICES ASSUME NEW r \in Requests PROVE Local(req[r], part[r])
    BY DEF LocalInv
  <2> QED
    BY NothingSent DEF Init, NewReq, NoPart
<1> QED
  BY <1>1, <1>2, InitIInv DEF AllInv

LEMMA MultiPredictLocal ==
  ASSUME AllInv, NEW r \in Requests, MultiPredict(r) PROVE TasksInv' /\ LocalInv'
<1>1. PICK kd \in Kinds : req' = [req EXCEPT ![r] = [@ EXCEPT !.kind = kd,
         !.pc = CASE kd.op \in {"none", "simple_forward"} -> "forward"
                  [] kd.op = "split_request"              -> "split"
                  [] kd.op = "other"                      -> "returned"
                  [] kd.op = "missing"                    -> "undefined"]]
  BY DEF MultiPredict
<1>2. PICK pc : req' = [req EXCEPT ![r] = [@ EXCEPT !.kind = kd, !.pc = pc]]
  BY <1>1
<1> DEFINE c == [req[r] EXCEPT !.kind = kd, !.pc = pc]
<1>3. req[r] \in ReqRecord /\ req[r].pc \in Early
  BY DEF AllInv, IInv, Types, MultiPredict, Early
<1>4. c.futs = req[r].futs /\ c.items = req[r].items
  BY <1>3 DEF ReqRecord
<1> QED
  BY <1>2, <1>3, <1>4, EarlyStep DEF MultiPredict

LEMMA SimpleForwardLocal ==
  ASSUME AllInv, NEW r \in Requests, SimpleForward(r) PROVE TasksInv' /\ LocalInv'
<1> DEFINE s == ServiceName(req[r])
           c == IF s = "error" THEN [req[r] EXCEPT !.pc = "returned"]
                ELSE [req[r] EXCEPT !.pc = "send", !.service = s]
<1>1. req' = [req EXCEPT ![r] = c]
  BY DEF SimpleForward
<1>2. req[r] \in ReqRecord /\ req[r].pc \in Early
  BY DEF AllInv, IInv, Types, SimpleForward, Early
<1>3. c.futs = req[r].futs /\ c.items = req[r].items
  BY <1>2 DEF ReqRecord
<1> QED
  BY <1>1, <1>2, <1>3, EarlyStep DEF SimpleForward

LEMMA SplitRequestLocal ==
  ASSUME AllInv, NEW r \in Requests, SplitRequest(r) PROVE TasksInv' /\ LocalInv'
<1> DEFINE s == ServiceName(req[r])
<1>1. /\ req[r] \in ReqRecord /\ req[r].pc \in Early /\ part[r] \in [Parts -> PartRecord]
      /\ queue \in Seq(Requests \X Parts)
  BY DEF AllInv, IInv, Types, SplitRequest, Early
<1>2. CASE s = "error" \/ ~CanSplit \/ req[r].kind.record
  <2>1. UNCHANGED <<queue, part>>
    BY <1>2 DEF SplitRequest
  <2> DEFINE c == IF s = "error" THEN [req[r] EXCEPT !.pc = "returned"]
                  ELSE [req[r] EXCEPT !.service = s,
                          !.pc = IF req[r].kind.record THEN "send"
                                 ELSE IF CanSplit THEN "collect" ELSE "forward"]
  <2>2. req' = [req EXCEPT ![r] = c]
    BY Zenon DEF SplitRequest
  <2>3. c.futs = req[r].futs /\ c.items = req[r].items
    BY <1>1 DEF ReqRecord
  <2> QED
    BY <1>1, <2>1, <2>2, <2>3, EarlyStep
<1>3. CASE s # "error" /\ CanSplit /\ ~req[r].kind.record
  <2> DEFINE c == [req[r] EXCEPT !.service = s, !.pc = "collect"]
             ps == [k \in Parts |-> IF k = 0 THEN part[r][k] ELSE [part[r][k] EXCEPT !.state = "queued"]]
             more == [k \in DOMAIN Ranges |-> <<r, k>>]
  <2>1. /\ req' = [req EXCEPT ![r] = c] /\ part' = [part EXCEPT ![r] = ps]
        /\ queue' = queue \o more
    BY <1>3 DEF SplitRequest
  <2>2. /\ req[r].futs = << >> /\ req[r].items = {}
        /\ \A k \in Parts : part[r][k].state = "none" /\ part[r][k].reply = "none"
    BY <1>1, EarlyLocal DEF AllInv
  <2>3. c.pc = "collect" /\ c.futs = << >> /\ c.items = {}
    BY <1>1, <2>2 DEF ReqRecord
  <2>4. \A k \in Parts : /\ ps[k].state = IF k = 0 THEN "none" ELSE "queued"
                         /\ ps[k].reply = "none"
    BY <1>1, <2>2 DEF PartRecord
  <2> HIDE DEF c, ps
  <2>5. Local(c, ps)
    <3>1. PhaseOK(c, ps)
      BY <2>3, <2>4 DEF PhaseOK, Early
    <3>2. FutsOK(c, ps)
      BY <2>3 DEF FutsOK
    <3>3. AnswerOK(c, ps)
      BY <2>3, <2>4 DEF AnswerOK
    <3> QED
      BY <3>1, <3>2, <3>3 DEF Local
  <2>6. /\ req'[r] = c /\ part'[r] = ps
        /\ \A q \in Requests : q # r => req'[q] = req[q] /\ part'[q] = part[q]
    BY <2>1 DEF AllInv, IInv, Types
  <2>7. LocalInv'
    BY <2>5, <2>6, LocalFrame DEF AllInv
  <2>8. /\ more \in Seq(Requests \X Parts)
        /\ \A i \in 1 .. Len(more) : more[i] = <<r, i>> /\ i \in Parts /\ i # 0
    <3>1. Len(Ranges) \in Nat /\ DOMAIN Ranges = 1 .. Len(Ranges)
      BY RangesShape, PartsType DEF Parts
    <3>2. more = [k \in 1 .. Len(Ranges) |-> <<r, k>>] /\ \A k \in 1 .. Len(Ranges) : k \in Parts
      BY <3>1, PartsType
    <3> HIDE DEF more
    <3> QED
      BY <3>1, <3>2
  <2> HIDE DEF more
  <2>9. /\ Len(queue) \in Nat /\ Len(more) \in Nat /\ Len(queue') = Len(queue) + Len(more)
        /\ \A i \in 1 .. Len(queue') :
             \/ i \in 1 .. Len(queue) /\ queue'[i] = queue[i]
             \/ i > Len(queue) /\ i - Len(queue) \in 1 .. Len(more) /\ queue'[i] = more[i - Len(queue)]
    BY <1>1, <2>1, <2>8
  <2>10. ASSUME NEW i \in 1 .. Len(queue)
         PROVE  /\ queue[i] \in Requests \X Parts /\ queue[i][1] # r
                /\ part[queue[i][1]][queue[i][2]].state = "queued"
                /\ \A j \in 1 .. Len(queue) : queue[i] = queue[j] => i = j
    <3>1. queue[i] \in Requests \X Parts
      BY <1>1
    <3>2. part[queue[i][1]][queue[i][2]].state = "queued"
      BY DEF AllInv, TasksInv
    <3> QED
      BY <2>2, <3>1, <3>2 DEF AllInv, TasksInv
  <2>11. TasksInv'
    <3> SUFFICES ASSUME NEW i \in 1 .. Len(queue')
                 PROVE  /\ part'[queue'[i][1]][queue'[i][2]].state = "queued"
                        /\ \A j \in 1 .. Len(queue') : queue'[i] = queue'[j] => i = j
      BY DEF TasksInv
    <3>1. CASE i \in 1 .. Len(queue) /\ queue'[i] = queue[i]
      <4>1. part'[queue'[i][1]][queue'[i][2]].state = "queued"
        BY <2>6, <2>10, <3>1
      <4>2. ASSUME NEW j \in 1 .. Len(queue'), queue'[i] = queue'[j] PROVE i = j
        <5>1. CASE j \in 1 .. Len(queue) /\ queue'[j] = queue[j]
          BY <2>10, <3>1, <4>2, <5>1
        <5>2. CASE j - Len(queue) \in 1 .. Len(more) /\ queue'[j] = more[j - Len(queue)]
          <6>1. queue'[j] = <<r, j - Len(queue)>>
            BY <2>8, <5>2
          <6>2. queue[i][1] # r /\ queue[i] = <<r, j - Len(queue)>>
            BY <2>10, <3>1, <4>2, <6>1
          <6> QED
            BY <6>2
        <5> QED
          BY <2>9, <5>1, <5>2
      <4> QED
        BY <4>1, <4>2
    <3>2. CASE i > Len(queue) /\ i - Len(queue) \in 1 .. Len(more) /\ queue'[i] = more[i - Len(queue)]
      <4>0. queue'[i] = <<r, i - Len(queue)>> /\ i - Len(queue) \in Parts /\ i - Len(queue) # 0
        BY <2>8, <3>2
      <4>1. part'[queue'[i][1]][queue'[i][2]].state = "queued"
        BY <2>4, <2>6, <4>0
      <4>2. ASSUME NEW j \in 1 .. Len(queue'), queue'[i] = queue'[j] PROVE i = j
        <5>1. CASE j \in 1 .. Len(queue) /\ queue'[j] = queue[j]
          BY <2>10, <4>0, <4>2, <5>1
        <5>2. CASE j - Len(queue) \in 1 .. Len(more) /\ queue'[j] = more[j - Len(queue)]
          <6>1. queue'[j] = <<r, j - Len(queue)>>
            BY <2>8, <5>2
          <6>2. i - Len(queue) = j - Len(queue)
            BY <4>0, <4>2, <6>1
          <6> QED
            BY <2>9, <6>2
        <5> QED
          BY <2>9, <5>1, <5>2
      <4> QED
        BY <4>1, <4>2
    <3> QED
      BY <2>9, <3>1, <3>2
  <2> QED
    BY <2>7, <2>11
<1> QED
  BY <1>2, <1>3

LEMMA SendLocal ==
  ASSUME AllInv, NEW r \in Requests, Send(r) PROVE TasksInv' /\ LocalInv'
<1>1. PICK outcome \in SendOutcomes :
        /\ part' = [part EXCEPT ![r][0] = [@ EXCEPT !.state = outcome, !.service = req[r].service]]
        /\ req' = [req EXCEPT ![r] =
                    CASE outcome = "throw" -> [@ EXCEPT !.pc = "failed"]
                      [] outcome = "false" -> [@ EXCEPT !.pc = "returned"]
                      [] outcome = "sent"  ->
                           IF @.kind.record THEN [@ EXCEPT !.pc = "returned"]
                           ELSE [@ EXCEPT !.pc = "get", !.futs = <<0>>]]
  BY DEF Send
<1>2. outcome \in {"sent", "false", "throw"}
  BY ConstantsAssumption
<1>3. /\ part[r] \in [Parts -> PartRecord] /\ req[r] \in ReqRecord /\ 0 \in Parts /\ req[r].pc \in Early
  BY PartsType DEF AllInv, IInv, Types, Send, Early
<1>4. /\ req[r].futs = << >> /\ req[r].items = {}
      /\ \A k \in Parts : part[r][k].state = "none" /\ part[r][k].reply = "none"
  BY <1>3, EarlyLocal DEF AllInv
<1> DEFINE p  == [part[r][0] EXCEPT !.state = outcome, !.service = req[r].service]
           ps == [part[r] EXCEPT ![0] = p]
           c == CASE outcome = "throw" -> [req[r] EXCEPT !.pc = "failed"]
                  [] outcome = "false" -> [req[r] EXCEPT !.pc = "returned"]
                  [] outcome = "sent"  ->
                       IF req[r].kind.record THEN [req[r] EXCEPT !.pc = "returned"]
                       ELSE [req[r] EXCEPT !.pc = "get", !.futs = <<0>>]
<1>5. part' = [part EXCEPT ![r] = ps]
  BY <1>1, Zenon
<1>6. req' = [req EXCEPT ![r] = c]
  BY <1>1
<1>7. p.state = outcome /\ p.reply = "none"
  BY <1>3, <1>4 DEF PartRecord
<1> HIDE DEF p
<1>8. \A k \in Parts : /\ ps[k].state = IF k = 0 THEN outcome ELSE "none"
                       /\ ps[k].reply = "none"
  BY <1>3, <1>4, <1>7
<1>9. /\ c.pc = CASE outcome = "throw" -> "failed" [] outcome = "false" -> "returned"
                  [] outcome = "sent" -> IF req[r].kind.record THEN "returned" ELSE "get"
      /\ c.futs = IF outcome = "sent" /\ ~req[r].kind.record THEN <<0>> ELSE << >>
      /\ c.items = {} /\ c.kind = req[r].kind
  BY <1>2, <1>3, <1>4 DEF ReqRecord
<1> HIDE DEF ps, c
<1>10. Local(c, ps)
  <2>1. PhaseOK(c, ps)
    BY <1>2, <1>8, <1>9 DEF PhaseOK, Early
  <2>2. FutsOK(c, ps)
    <3>1. CASE c.futs = << >>
      BY <3>1 DEF FutsOK
    <3>2. CASE outcome = "sent" /\ c.futs = <<0>>
      <4>1. Len(c.futs) = 1 /\ c.futs[1] = 0
        BY <3>2
      <4> QED
        BY <1>3, <1>8, <3>2, <4>1 DEF FutsOK
    <3> QED
      BY <1>9, <3>1, <3>2
  <2>3. AnswerOK(c, ps)
    <3>1. ASSUME ~c.kind.record, NEW k \in Parts, ps[k].state = "sent" PROVE k \in Waiting(c)
      <4>1. outcome = "sent" /\ k = 0 /\ c.futs = <<0>>
        BY <1>8, <1>9, <3>1
      <4>2. Len(c.futs) = 1 /\ c.futs[1] = 0
        BY <4>1
      <4> QED
        BY <4>1, <4>2 DEF Waiting
    <3> QED
      BY <1>8, <1>9, <3>1 DEF AnswerOK
  <2> QED
    BY <2>1, <2>2, <2>3 DEF Local
<1>11. /\ req'[r] = c /\ part'[r] = ps
       /\ \A q \in Requests : q # r => req'[q] = req[q] /\ part'[q] = part[q]
  BY <1>5, <1>6 DEF AllInv, IInv, Types
<1>12. LocalInv'
  BY <1>10, <1>11, LocalFrame DEF AllInv
<1>13. \A q \in Requests, l \in Parts : part[q][l].state = "queued" => part'[q][l].state = "queued"
  BY <1>4, <1>11
<1> QED
  BY <1>12, <1>13, TasksKept DEF AllInv, Send

LEMMA CollectLocal ==
  ASSUME AllInv, NEW r \in Requests, Collect(r) PROVE TasksInv' /\ LocalInv'
<1> DEFINE pc == IF \E k \in Parts : part[r][k].state = "throw" THEN "failed" ELSE "get"
           c == [req[r] EXCEPT !.pc = pc]
           ps == part[r]
<1>1. req' = [req EXCEPT ![r] = c] /\ UNCHANGED <<queue, part>>
  BY Zenon DEF Collect
<1>2. /\ req[r] \in ReqRecord /\ req[r].pc = "collect"
      /\ PhaseOK(req[r], ps) /\ FutsOK(req[r], ps) /\ AnswerOK(req[r], ps)
  BY DEF AllInv, IInv, Types, LocalInv, Local, Collect
<1>3. /\ c.pc = pc /\ c.futs = req[r].futs /\ c.items = req[r].items /\ c.kind = req[r].kind
      /\ Waiting(c) = Waiting(req[r])
  BY <1>2 DEF ReqRecord, Waiting
<1>4. ASSUME NEW k \in Parts PROVE ps[k].state \notin {"queued", "sending"}
  <2>1. CASE k = 0
    BY <1>2, <2>1 DEF PhaseOK
  <2>2. CASE k # 0
    BY <2>2 DEF Collect, AllSent
  <2> QED
    BY <2>1, <2>2
<1>5. PhaseOK(c, ps)
  <2>1. c.pc = "get" => \A k \in Parts : ps[k].state # "throw"
    BY <1>3
  <2>2. c.pc \in {"failed", "get"}
    BY <1>3
  <2> HIDE DEF c, ps, pc
  <2> QED
    BY <1>2, <1>4, <2>1, <2>2 DEF PhaseOK, Early
<1> HIDE DEF c, ps, pc
<1>6. FutsOK(c, ps)
  BY <1>2, <1>3 DEF FutsOK
<1>7. AnswerOK(c, ps)
  BY <1>2, <1>3 DEF AnswerOK
<1>8. /\ req'[r] = c /\ part'[r] = ps
      /\ \A q \in Requests : q # r => req'[q] = req[q] /\ part'[q] = part[q]
  BY <1>1 DEF AllInv, IInv, Types, ps
<1>9. LocalInv'
  BY <1>5, <1>6, <1>7, <1>8, LocalFrame DEF AllInv, Local
<1> QED
  BY <1>1, <1>9, TasksKept DEF AllInv

LEMMA ReturnLocal ==
  ASSUME AllInv, NEW r \in Requests, Return(r) PROVE TasksInv' /\ LocalInv'
<1> DEFINE c == [req[r] EXCEPT !.pc = "returned"]
           ps == part[r]
<1>1. req' = [req EXCEPT ![r] = c] /\ UNCHANGED <<queue, part>>
  BY Zenon DEF Return
<1>2. /\ req[r] \in ReqRecord /\ req[r].pc = "get" /\ req[r].futs = << >>
      /\ PhaseOK(req[r], ps) /\ FutsOK(req[r], ps) /\ AnswerOK(req[r], ps)
  BY DEF AllInv, IInv, Types, LocalInv, Local, Return
<1>3. /\ c.pc = "returned" /\ c.futs = req[r].futs /\ c.items = req[r].items /\ c.kind = req[r].kind
      /\ Waiting(c) = Waiting(req[r])
  BY <1>2 DEF ReqRecord, Waiting
<1> HIDE DEF c, ps
<1>4. PhaseOK(c, ps)
  BY <1>2, <1>3 DEF PhaseOK, Early
<1>5. FutsOK(c, ps)
  BY <1>2, <1>3 DEF FutsOK
<1>6. AnswerOK(c, ps)
  BY <1>2, <1>3 DEF AnswerOK
<1>7. /\ req'[r] = c /\ part'[r] = ps
      /\ \A q \in Requests : q # r => req'[q] = req[q] /\ part'[q] = part[q]
  BY <1>1 DEF AllInv, IInv, Types, ps
<1>8. LocalInv'
  BY <1>4, <1>5, <1>6, <1>7, LocalFrame DEF AllInv, Local
<1> QED
  BY <1>1, <1>8, TasksKept DEF AllInv

\* The future at the head is taken: it is the only one of its part.
LEMMA TakenFuture ==
  ASSUME NEW c \in ReqRecord, NEW ps, FutsOK(c, ps), c.futs # << >>,
         NEW d, d.futs = Tail(c.futs)
  PROVE  /\ Head(c.futs) \in Parts /\ Head(c.futs) \in Waiting(c)
         /\ FutsOK(d, ps)
         /\ Waiting(d) = Waiting(c) \ {Head(c.futs)}
<1> DEFINE f == c.futs
           g == Tail(c.futs)
<1>1. f \in Seq(Parts) /\ f # << >>
  BY DEF ReqRecord
<1>2. /\ Head(f) = f[1] /\ Head(f) \in Parts /\ Len(f) \in Nat /\ 1 \in 1 .. Len(f)
      /\ Len(g) = Len(f) - 1 /\ \A i \in 1 .. Len(g) : g[i] = f[i + 1]
  BY <1>1
<1>3. \A i \in 1 .. Len(f) : /\ ps[f[i]].state = "sent"
                             /\ \A j \in 1 .. Len(f) : f[i] = f[j] => i = j
  BY DEF FutsOK
<1> HIDE DEF f, g
<1>4. \A i \in 1 .. Len(g) : ps[g[i]].state = "sent" /\ \A j \in 1 .. Len(g) : g[i] = g[j] => i = j
  BY <1>2, <1>3
<1>5. FutsOK(d, ps)
  BY <1>4 DEF FutsOK, g
<1>6. {g[i] : i \in 1 .. Len(g)} = {f[i] : i \in 1 .. Len(f)} \ {f[1]}
  <2>1. ASSUME NEW i \in 1 .. Len(g) PROVE g[i] \in {f[j] : j \in 1 .. Len(f)} \ {f[1]}
    BY <1>2, <1>3
  <2>2. ASSUME NEW j \in 1 .. Len(f), f[j] # f[1] PROVE f[j] \in {g[i] : i \in 1 .. Len(g)}
    <3>1. j - 1 \in 1 .. Len(g) /\ g[j - 1] = f[j]
      BY <1>2, <2>2
    <3> QED
      BY <3>1
  <2> QED
    BY <2>1, <2>2
<1>7. Waiting(d) = {g[i] : i \in 1 .. Len(g)} /\ Waiting(c) = {f[i] : i \in 1 .. Len(f)}
  BY DEF Waiting, f, g
<1>8. Head(c.futs) = f[1]
  BY <1>2 DEF f
<1> QED
  BY <1>2, <1>5, <1>6, <1>7, <1>8 DEF f

LEMMA GetLocal ==
  ASSUME AllInv, NEW r \in Requests, Get(r) PROVE TasksInv' /\ LocalInv'
<1> DEFINE k == Head(req[r].futs)
           c == Combined(req[r], Results(r, k))
           ps == part[r]
<1>1. req' = [req EXCEPT ![r] = c] /\ UNCHANGED <<queue, part>>
  BY DEF Get
<1>2. /\ req[r] \in ReqRecord /\ req[r].pc = "get" /\ req[r].futs # << >> /\ ps[k].reply # "none"
      /\ PhaseOK(req[r], ps) /\ FutsOK(req[r], ps) /\ AnswerOK(req[r], ps)
  BY DEF AllInv, IInv, Types, LocalInv, Local, Get
<1>3. /\ c.pc = "get" /\ c.futs = Tail(req[r].futs) /\ c.kind = req[r].kind
      /\ c.items = req[r].items \cup Results(r, k)
  BY <1>2 DEF ReqRecord, Combined
<1> HIDE DEF c
<1>4. /\ k \in Parts /\ k \in Waiting(req[r]) /\ FutsOK(c, ps)
      /\ Waiting(c) = Waiting(req[r]) \ {k}
  BY <1>2, <1>3, TakenFuture
<1>5. Results(r, k) = IF ps[k].reply = "results" THEN ItemsOfPart(k) ELSE {}
  BY DEF Results
<1> HIDE DEF ps, k
<1>6. PhaseOK(c, ps)
  BY <1>2, <1>3 DEF PhaseOK, Early
<1>7. AnswerOK(c, ps)
  <2>1. c.items \subseteq Items
    BY <1>2, <1>3, <1>4, <1>5, PartItems DEF AnswerOK
  <2>2. ASSUME ~c.kind.record, NEW l \in Parts, ps[l].state = "sent", l \notin Waiting(c)
        PROVE  ps[l].reply # "none"
    BY <1>2, <1>3, <1>4, <2>2 DEF AnswerOK
  <2>3. ASSUME ~c.kind.record, NEW x
        PROVE  x \in c.items <=>
                 \E l \in Parts : ps[l].reply = "results" /\ l \notin Waiting(c) /\ x \in ItemsOfPart(l)
    <3>1. x \in req[r].items <=>
            \E l \in Parts : ps[l].reply = "results" /\ l \notin Waiting(req[r]) /\ x \in ItemsOfPart(l)
      BY <1>2, <1>3, <2>3 DEF AnswerOK
    <3> QED
      BY <1>3, <1>4, <1>5, <3>1
  <2> QED
    BY <1>2, <2>1, <2>2, <2>3 DEF AnswerOK
<1>8. /\ req'[r] = c /\ part'[r] = ps
      /\ \A q \in Requests : q # r => req'[q] = req[q] /\ part'[q] = part[q]
  BY <1>1 DEF AllInv, IInv, Types, ps
<1>9. LocalInv'
  BY <1>4, <1>6, <1>7, <1>8, LocalFrame DEF AllInv, Local
<1> QED
  BY <1>1, <1>9, TasksKept DEF AllInv

\* One part takes a step and the records of the requests stay as they are.
LEMMA PartFrame ==
  ASSUME AllInv, NEW r \in Requests, NEW k \in Parts, NEW p,
         part' = [part EXCEPT ![r] = [@ EXCEPT ![k] = p]]
  PROVE  /\ \A l \in Parts : part'[r][l] = IF l = k THEN p ELSE part[r][l]
         /\ \A q \in Requests : q # r => part'[q] = part[q]
BY DEF AllInv, IInv, Types

LEMMA StartSliceLocal ==
  ASSUME AllInv, StartSlice PROVE TasksInv' /\ LocalInv'
<1> DEFINE r == Head(queue)[1]
           k == Head(queue)[2]
           p == [part[r][k] EXCEPT !.state = "sending"]
           ps == part'[r]
<1>1. queue \in Seq(Requests \X Parts) /\ queue # << >>
  BY DEF AllInv, IInv, Types, StartSlice
<1>2. Head(queue) = queue[1] /\ 1 \in 1 .. Len(queue) /\ Head(queue) \in Requests \X Parts
  BY <1>1
<1>3. r \in Requests /\ k \in Parts /\ k # 0 /\ part[r][k].state = "queued"
  BY <1>2 DEF AllInv, IInv, QueueInv, TasksInv
<1>4. part' = [part EXCEPT ![r] = [@ EXCEPT ![k] = p]] /\ UNCHANGED req
  BY Zenon DEF StartSlice
<1>5. Head(queue) = <<r, k>>
  BY <1>2
<1> HIDE DEF r, k
<1>6. p.state = "sending" /\ p.reply = part[r][k].reply
  BY <1>3 DEF AllInv, IInv, Types, PartRecord
<1> HIDE DEF p
<1>7. /\ \A l \in Parts : ps[l] = IF l = k THEN p ELSE part[r][l]
      /\ \A q \in Requests : q # r => part'[q] = part[q]
  BY <1>3, <1>4, PartFrame
<1>8. PhaseOK(req[r], part[r]) /\ FutsOK(req[r], part[r]) /\ AnswerOK(req[r], part[r]) /\ req[r] \in ReqRecord
  BY <1>3 DEF AllInv, LocalInv, Local, IInv, Types
<1> HIDE DEF ps
<1>9. PhaseOK(req[r], ps)
  BY <1>3, <1>6, <1>7, <1>8 DEF PhaseOK
<1>10. FutsOK(req[r], ps)
  <2>1. \A i \in 1 .. Len(req[r].futs) : req[r].futs[i] \in Parts
    BY <1>8 DEF ReqRecord
  <2> QED
    BY <1>3, <1>6, <1>7, <1>8, <2>1 DEF FutsOK
<1>11. AnswerOK(req[r], ps)
  <2>1. part[r][k].reply = "none"
    BY <1>3, <1>8 DEF AnswerOK
  <2> QED
    BY <1>3, <1>6, <1>7, <1>8, <2>1 DEF AnswerOK
<1>12. LocalInv'
  <2>1. Local(req'[r], part'[r])
    BY <1>4, <1>9, <1>10, <1>11 DEF Local, ps
  <2> QED
    BY <1>3, <1>4, <1>7, <2>1, LocalFrame DEF AllInv
<1>13. /\ Len(queue') = Len(queue) - 1 /\ Len(queue) \in Nat
       /\ \A i \in 1 .. Len(queue') : queue'[i] = queue[i + 1]
  BY <1>1 DEF StartSlice
<1>14. TasksInv'
  <2> SUFFICES ASSUME NEW i \in 1 .. Len(queue')
               PROVE  /\ part'[queue'[i][1]][queue'[i][2]].state = "queued"
                      /\ \A j \in 1 .. Len(queue') : queue'[i] = queue'[j] => i = j
    BY DEF TasksInv
  <2>1. i + 1 \in 1 .. Len(queue) /\ i + 1 # 1 /\ queue'[i] = queue[i + 1] /\ queue[i + 1] \in Requests \X Parts
    BY <1>1, <1>13
  <2>2. \A a, b \in 1 .. Len(queue) : queue[a] = queue[b] => a = b
    BY DEF AllInv, TasksInv
  <2>3. \A j \in 1 .. Len(queue') : queue'[i] = queue'[j] => i = j
    BY <1>13, <2>1, <2>2
  <2>4. queue[i + 1] # <<r, k>>
    BY <1>2, <1>5, <2>1, <2>2
  <2>5. part[queue'[i][1]][queue'[i][2]].state = "queued"
    BY <2>1 DEF AllInv, TasksInv
  <2>6. part'[queue'[i][1]][queue'[i][2]] = part[queue'[i][1]][queue'[i][2]]
    BY <1>7, <2>1, <2>4 DEF ps
  <2> QED
    BY <2>3, <2>5, <2>6
<1> QED
  BY <1>12, <1>14

LEMMA ReplyLocal ==
  ASSUME AllInv, NEW r \in Requests, NEW k \in Parts, Reply(r, k) PROVE TasksInv' /\ LocalInv'
<1>1. PICK reply \in {"results", "empty", "exception"} : part' = [part EXCEPT ![r][k].reply = reply]
  BY DEF Reply
<1> DEFINE p == [part[r][k] EXCEPT !.reply = reply]
           ps == part'[r]
<1>2. part' = [part EXCEPT ![r] = [@ EXCEPT ![k] = p]] /\ UNCHANGED <<queue, req>>
  BY <1>1, Zenon DEF Reply
<1>3. part[r][k].state = "sent" /\ part[r][k].reply = "none"
  BY DEF Reply
<1>4. p.state = "sent" /\ p.reply = reply
  BY <1>3 DEF AllInv, IInv, Types, PartRecord
<1> HIDE DEF p
<1>5. /\ \A l \in Parts : ps[l] = IF l = k THEN p ELSE part[r][l]
      /\ \A q \in Requests : q # r => part'[q] = part[q]
  BY <1>2, PartFrame
<1>6. PhaseOK(req[r], part[r]) /\ FutsOK(req[r], part[r]) /\ AnswerOK(req[r], part[r]) /\ req[r] \in ReqRecord
  BY DEF AllInv, LocalInv, Local, IInv, Types
<1>7. LocalInv'
  <2> HIDE DEF ps
  <2>1. PhaseOK(req[r], ps)
    BY <1>3, <1>4, <1>5, <1>6 DEF PhaseOK
  <2>2. FutsOK(req[r], ps)
    <3>1. \A i \in 1 .. Len(req[r].futs) : req[r].futs[i] \in Parts
      BY <1>6 DEF ReqRecord
    <3> QED
      BY <1>3, <1>4, <1>5, <1>6, <3>1 DEF FutsOK
  <2>3. AnswerOK(req[r], ps)
    <3>1. ~req[r].kind.record => k \in Waiting(req[r])
      BY <1>3, <1>6 DEF AnswerOK
    <3> QED
      BY <1>3, <1>4, <1>5, <1>6, <3>1 DEF AnswerOK
  <2>4. Local(req'[r], part'[r])
    BY <1>2, <2>1, <2>2, <2>3 DEF Local, ps
  <2> QED
    BY <1>2, <1>5, <2>4, LocalFrame DEF AllInv
<1>8. \A q \in Requests, l \in Parts : part[q][l].state = "queued" => part'[q][l].state = "queued"
  BY <1>3, <1>5
<1> QED
  BY <1>2, <1>7, <1>8, TasksKept DEF AllInv

LEMMA EndSliceLocal ==
  ASSUME AllInv, NEW r \in Requests, NEW k \in Parts, EndSlice(r, k) PROVE TasksInv' /\ LocalInv'
<1>1. PICK outcome \in SendOutcomes :
        /\ part' = [part EXCEPT ![r][k] = [@ EXCEPT !.state = outcome, !.service = SliceService(r)]]
        /\ req' = IF outcome = "sent" THEN [req EXCEPT ![r].futs = Append(@, k)] ELSE req
  BY DEF EndSlice
<1> DEFINE p == [part[r][k] EXCEPT !.state = outcome, !.service = req[r].service]
           ps == part'[r]
           c == req'[r]
<1>2. part' = [part EXCEPT ![r] = [@ EXCEPT ![k] = p]] /\ UNCHANGED queue
  BY <1>1, Zenon DEF SliceService, EndSlice
<1>3. part[r][k].state = "sending" /\ outcome \in {"sent", "false", "throw"}
  BY ConstantsAssumption DEF EndSlice
<1>4. p.state = outcome /\ p.reply = part[r][k].reply
  BY <1>3 DEF AllInv, IInv, Types, PartRecord
<1> HIDE DEF p
<1>5. /\ \A l \in Parts : ps[l] = IF l = k THEN p ELSE part[r][l]
      /\ \A q \in Requests : q # r => part'[q] = part[q]
  BY <1>2, PartFrame
<1>6. PhaseOK(req[r], part[r]) /\ FutsOK(req[r], part[r]) /\ AnswerOK(req[r], part[r]) /\ req[r] \in ReqRecord
  BY DEF AllInv, LocalInv, Local, IInv, Types
<1>7. req[r].futs \in Seq(Parts)
  BY <1>6 DEF ReqRecord
<1>8. /\ c.pc = req[r].pc /\ c.kind = req[r].kind /\ c.items = req[r].items
      /\ c.futs = IF outcome = "sent" THEN Append(req[r].futs, k) ELSE req[r].futs
      /\ \A q \in Requests : q # r => req'[q] = req[q]
  <2>1. CASE outcome # "sent"
    BY <1>1, <2>1
  <2>2. CASE outcome = "sent"
    <3> DEFINE d == [req[r] EXCEPT !.futs = Append(req[r].futs, k)]
    <3>1. req' = [req EXCEPT ![r] = d]
      BY <1>1, <2>2, Zenon
    <3>2. d.pc = req[r].pc /\ d.kind = req[r].kind /\ d.items = req[r].items
          /\ d.futs = Append(req[r].futs, k)
      BY <1>6 DEF ReqRecord
    <3> HIDE DEF d
    <3> QED
      BY <2>2, <3>1, <3>2 DEF AllInv, IInv, Types
  <2> QED
    BY <2>1, <2>2
<1>9. /\ \A i \in 1 .. Len(req[r].futs) : req[r].futs[i] \in Parts /\ req[r].futs[i] # k
      /\ k \notin Waiting(req[r]) /\ part[r][k].reply = "none" /\ req[r].pc = "collect" /\ k # 0
  <2>1. \A i \in 1 .. Len(req[r].futs) : req[r].futs[i] \in Parts /\ req[r].futs[i] # k
    BY <1>3, <1>6, <1>7 DEF FutsOK
  <2>2. k \notin Waiting(req[r])
    BY <2>1 DEF Waiting
  <2> QED
    BY <1>3, <1>6, <2>1, <2>2 DEF AnswerOK, PhaseOK
<1> HIDE DEF c, ps
<1>10. PhaseOK(c, ps)
  BY <1>3, <1>4, <1>5, <1>6, <1>8, <1>9 DEF PhaseOK, Early
<1>11. FutsOK(c, ps) /\ Waiting(c) = IF outcome = "sent" THEN Waiting(req[r]) \cup {k} ELSE Waiting(req[r])
  <2>1. CASE outcome # "sent"
    <3>1. FutsOK(c, ps)
      BY <1>4, <1>5, <1>6, <1>8, <1>9, <2>1 DEF FutsOK
    <3> QED
      BY <1>8, <2>1, <3>1 DEF Waiting
  <2>2. CASE outcome = "sent"
    <3> DEFINE f == req[r].futs
               g == Append(f, k)
    <3>1. /\ Len(f) \in Nat /\ Len(g) = Len(f) + 1 /\ g[Len(f) + 1] = k
          /\ \A i \in 1 .. Len(f) : g[i] = f[i] /\ f[i] # k /\ f[i] \in Parts
      BY <1>7, <1>9
    <3>2. \A i \in 1 .. Len(f) : part[r][f[i]].state = "sent" /\ \A j \in 1 .. Len(f) : f[i] = f[j] => i = j
      BY <1>6 DEF FutsOK
    <3>3. c.futs = g
      BY <1>8, <2>2
    <3> HIDE DEF f, g
    <3>4. \A i \in 1 .. Len(g) : i \in 1 .. Len(f) \/ i = Len(f) + 1
      BY <3>1
    <3>5. \A i \in 1 .. Len(g) : ps[g[i]].state = "sent" /\ \A j \in 1 .. Len(g) : g[i] = g[j] => i = j
      BY <1>4, <1>5, <2>2, <3>1, <3>2, <3>4
    <3>6. {g[i] : i \in 1 .. Len(g)} = {f[i] : i \in 1 .. Len(f)} \cup {k}
      <4>1. Len(f) + 1 \in 1 .. Len(g) /\ \A i \in 1 .. Len(f) : i \in 1 .. Len(g)
        BY <3>1
      <4> QED
        BY <3>1, <3>4, <4>1
    <3>7. FutsOK(c, ps)
      BY <3>3, <3>5 DEF FutsOK
    <3>8. Waiting(c) = Waiting(req[r]) \cup {k}
      BY <3>3, <3>6 DEF Waiting, f
    <3> QED
      BY <2>2, <3>7, <3>8
  <2> QED
    BY <2>1, <2>2
<1>12. AnswerOK(c, ps)
  BY <1>3, <1>4, <1>5, <1>6, <1>8, <1>9, <1>11 DEF AnswerOK
<1>13. LocalInv'
  <2>1. Local(req'[r], part'[r])
    BY <1>10, <1>11, <1>12 DEF Local, c, ps
  <2> QED
    BY <1>5, <1>8, <2>1, LocalFrame DEF AllInv
<1>14. \A q \in Requests, l \in Parts : part[q][l].state = "queued" => part'[q][l].state = "queued"
  BY <1>3, <1>5 DEF ps
<1> QED
  BY <1>2, <1>13, <1>14, TasksKept DEF AllInv

LEMMA NextAllInv == AllInv /\ [Next]_vars => AllInv'
<1> SUFFICES ASSUME AllInv, [Next]_vars PROVE TasksInv' /\ LocalInv'
  BY NextIInv DEF AllInv
<1>1. CASE UNCHANGED <<queue, part, req>>
  <2>1. LocalInv'
    BY <1>1 DEF AllInv, LocalInv, Local, PhaseOK, FutsOK, AnswerOK, Waiting
  <2> QED
    BY <1>1, <2>1 DEF AllInv, TasksInv
<1>2. ASSUME NEW r \in Requests, MultiPredict(r) \/ Thrift(r) PROVE TasksInv' /\ LocalInv'
  BY <1>2, MultiPredictLocal, SimpleForwardLocal, SplitRequestLocal, SendLocal, CollectLocal,
     GetLocal, ReturnLocal DEF Thrift
<1>3. CASE StartSlice
  BY <1>3, StartSliceLocal
<1>4. ASSUME NEW r \in Requests, NEW k \in Parts, EndSlice(r, k) \/ Reply(r, k)
      PROVE  TasksInv' /\ LocalInv'
  BY <1>4, EndSliceLocal, ReplyLocal
<1> QED
  BY <1>1, <1>2, <1>3, <1>4 DEF Next, UpdateMap, vars

LEMMA SpecAllInv == Spec => []AllInv
BY InitAllInv, NextAllInv, PTL DEF Spec

\* PredictorRouter keeps its types: only slices wait in the heavy pool, only items
\* of the request are collected and only parts that were sent are answered.
THEOREM SplitForwardTypes == Spec => []TypeOK
<1>1. ASSUME AllInv PROVE TypeOK
  <2>1. queue \in Seq(Requests \X (Parts \ {0}))
    <3>1. queue \in Seq(Requests \X Parts) /\ \A i \in 1 .. Len(queue) : queue[i][2] # 0
      BY <1>1 DEF AllInv, IInv, Types, QueueInv
    <3>2. /\ Len(queue) \in Nat /\ queue = [i \in 1 .. Len(queue) |-> queue[i]]
          /\ \A i \in 1 .. Len(queue) : queue[i] \in Requests \X (Parts \ {0})
      BY <3>1
    <3> QED
      BY <3>2
  <2>2. ASSUME NEW r \in Requests
        PROVE  /\ req[r].pc \in PCs /\ req[r].service \in Services \cup {RouterService}
               /\ req[r].futs \in Seq(Parts) /\ req[r].items \subseteq Items
               /\ \A k \in Parts : /\ part[r][k].state \in States /\ part[r][k].reply \in Replies
                                   /\ part[r][k].reply # "none" => part[r][k].state = "sent"
    <3>1. req[r] \in ReqRecord /\ \A k \in Parts : part[r][k] \in PartRecord
      BY <1>1 DEF AllInv, IInv, Types
    <3>2. AnswerOK(req[r], part[r])
      BY <1>1 DEF AllInv, LocalInv, Local
    <3> QED
      BY <3>1, <3>2 DEF ReqRecord, PartRecord, Names, AnswerOK
  <2> QED
    BY <1>1, <2>1, <2>2 DEF TypeOK, AllInv, IInv, Types
<1> QED
  BY <1>1, SpecAllInv, PTL

\* PredictorRouter returns what the predictors answered, and a request of which no
\* part failed in full, in whatever order its slices were sent and answered.
THEOREM SplitForwardNothingLost == Spec => []NothingLost
<1>1. ASSUME AllInv PROVE NothingLost
  <2> SUFFICES ASSUME NEW r \in Requests, req[r].pc = "returned", ~req[r].kind.record
               PROVE  /\ req[r].items = UNION {ItemsOfPart(k) : k \in Answered(r)}
                      /\ (Sent(r) # {} /\ Sent(r) = Answered(r) /\ ~\E k \in Parts : part[r][k].state = "false")
                           => req[r].items = Items
    BY DEF NothingLost
  <2>1. /\ PhaseOK(req[r], part[r]) /\ AnswerOK(req[r], part[r])
        /\ \A k \in Parts : part[r][k].state \in States
    BY <1>1 DEF AllInv, LocalInv, Local, IInv, Types, PartRecord
  <2>2. Waiting(req[r]) = {}
    BY <2>1 DEF PhaseOK, Waiting
  <2>3. req[r].items = UNION {ItemsOfPart(k) : k \in Answered(r)}
    BY <2>1, <2>2 DEF AnswerOK, Answered
  <2>4. ASSUME Sent(r) # {}, Sent(r) = Answered(r), ~\E k \in Parts : part[r][k].state = "false"
        PROVE  req[r].items = Items
    <3>1. \A k \in Parts : part[r][k].state \in {"none", "sent"}
      BY <2>1, <2>4 DEF PhaseOK, States
    <3>2. PICK k \in Parts : part[r][k].state = "sent"
      BY <2>4 DEF Sent
    <3>3. CASE k = 0
      <4>1. 0 \in Answered(r) /\ ItemsOfPart(0) = Items
        BY <2>4, <3>2, <3>3 DEF Sent, ItemsOfPart
      <4>2. Items \subseteq req[r].items
        BY <2>3, <4>1
      <4> QED
        BY <2>1, <4>2 DEF AnswerOK
    <3>4. CASE k # 0
      <4>1. \A l \in Parts : l # 0 => l \in Answered(r)
        BY <2>1, <2>4, <3>1, <3>2, <3>4 DEF PhaseOK, Sent
      <4>2. PICK avg \in Nat \ {0} : Ranges = Cut(Total, avg)
        BY <3>4, RangesShape, PartsType
      <4>3. UNION {ItemsOf(Ranges[l]) : l \in DOMAIN Ranges} = Items
        BY <4>2, SlicesCover, ConstantsAssumption DEF Items
      <4>4. \A l \in DOMAIN Ranges : ItemsOf(Ranges[l]) \subseteq req[r].items
        BY <2>3, <4>1, PartsType DEF ItemsOfPart
      <4> QED
        BY <2>1, <4>3, <4>4 DEF AnswerOK
    <3> QED
      BY <3>3, <3>4
  <2> QED
    BY <2>3, <2>4
<1> QED
  BY <1>1, SpecAllInv, PTL
=============================================================================
