---------------------------- MODULE SellerProofs -----------------------------
(***************************************************************************)
(* Theorems about Seller, for any number of jobs, calls, sweeps and        *)
(* faults, and about Watch, the agent beside the service's sweep: what is  *)
(* shown of the agent alone holds for the two together, although the       *)
(* sweepers take themselves out of calls that it is still handling.        *)
(***************************************************************************)
EXTENDS Watch, TLAPS

(* The types of what the background tasks change. *)
TaskTypes ==
    /\ run \in [Runners -> {NoRun} \cup [stage : RunStages, job : Jobs, awaited : BOOLEAN]]
    /\ inflight \subseteq Jobs /\ delivered \subseteq Jobs /\ skipped \subseteq Jobs

Slots == SlotsAreGivenBack /\ OneDeliveryPerJob

SellerInv == TypeOK /\ Slots

LEMMA JobsAreTyped ==
    ASSUME TaskTypes, NEW r \in Runners
    PROVE  /\ Live(r) \in BOOLEAN
           /\ run[r] # NoRun => run[r].job \in Jobs /\ run[r].stage \in RunStages
           /\ Live(r) => run[r] # NoRun
           /\ run[r].stage \in RunStages => run[r] # NoRun
<1>1. run[r] = NoRun \/ run[r] \in [stage : RunStages, job : Jobs, awaited : BOOLEAN]
  BY DEF TaskTypes
<1>2. CASE run[r] = NoRun
  <2>1. run[r].awaited = FALSE /\ run[r].stage = "none"
    BY <1>2 DEF NoRun
  <2>2. run[r].stage \notin RunStages
    BY <2>1 DEF RunStages
  <2> QED  BY <1>2, <2>1, <2>2 DEF Live
<1>3. CASE run[r] \in [stage : RunStages, job : Jobs, awaited : BOOLEAN]
  <2>1. run[r].awaited \in BOOLEAN /\ run[r].stage \in RunStages /\ run[r].job \in Jobs
    BY <1>3
  <2>2. run[r] # NoRun
    BY <2>1 DEF NoRun, RunStages
  <2> QED  BY <2>1, <2>2 DEF Live
<1> QED  BY <1>1, <1>2, <1>3

-----------------------------------------------------------------------------
(* What the building blocks of the actions do to the tasks *)

LEMMA SpawnIsSound ==
    ASSUME TaskTypes, Slots, NEW js \in SUBSET Jobs, NEW stage \in RunStages,
           Spawn(js, stage), UNCHANGED history
    PROVE  TaskTypes' /\ Slots'
<1> USE NoJobIsNone DEF NewAmong, history
<1> DEFINE new == js \ inflight
<1>1. PICK hired \in [Runners -> new \cup {NoJob}] :
         /\ \A r \in Runners : hired[r] # NoJob => run[r] = NoRun
         /\ \A j \in new : \E r \in Runners : \A q \in Runners : hired[q] = j <=> q = r
         /\ run' = [r \in Runners |->
                       IF hired[r] = NoJob THEN run[r]
                       ELSE [stage |-> stage, job |-> hired[r], awaited |-> TRUE]]
  BY DEF Spawn
<1>2. inflight' = inflight \cup js /\ delivered' = delivered /\ skipped' = skipped
  BY DEF Spawn
<1>3. \A r \in Runners :
         \/ hired[r] = NoJob /\ run'[r] = run[r]
         \/ /\ hired[r] \in new /\ run[r] = NoRun
            /\ run'[r] = [stage |-> stage, job |-> hired[r], awaited |-> TRUE]
  BY <1>1
<1>4. TaskTypes'
  <2>1. new \subseteq Jobs
    OBVIOUS
  <2>2. ASSUME NEW r \in Runners
        PROVE  run'[r] \in {NoRun} \cup [stage : RunStages, job : Jobs, awaited : BOOLEAN]
    <3>1. CASE hired[r] = NoJob
      BY <1>3, <3>1 DEF TaskTypes
    <3>2. CASE hired[r] # NoJob
      <4>1. /\ run'[r] = [stage |-> stage, job |-> hired[r], awaited |-> TRUE]
            /\ hired[r] \in Jobs
        BY <1>3, <2>1, <3>2
      <4> HIDE DEF new
      <4> QED  BY <4>1
    <3> QED  BY <3>1, <3>2
  <2> QED  BY <1>1, <1>2, <2>2 DEF TaskTypes
<1>5. \A r \in Runners : Live(r)' =>
         \/ hired[r] = NoJob /\ Live(r) /\ run'[r].job = run[r].job
         \/ hired[r] \in new /\ run'[r].job = hired[r]
  <2> SUFFICES ASSUME NEW r \in Runners, Live(r)'
               PROVE  \/ hired[r] = NoJob /\ Live(r) /\ run'[r].job = run[r].job
                      \/ hired[r] \in new /\ run'[r].job = hired[r]
    OBVIOUS
  <2>1. CASE hired[r] = NoJob /\ run'[r] = run[r]
    BY <2>1 DEF Live
  <2>2. CASE /\ hired[r] \in new
             /\ run'[r] = [stage |-> stage, job |-> hired[r], awaited |-> TRUE]
    BY <2>2
  <2> HIDE DEF new
  <2> QED  BY <1>3, <2>1, <2>2
<1>6. \A r \in Runners : Live(r) => Live(r)' /\ run'[r].job = run[r].job
  <2> SUFFICES ASSUME NEW r \in Runners, Live(r)
               PROVE  Live(r)' /\ run'[r].job = run[r].job
    OBVIOUS
  <2>1. run[r] # NoRun
    BY JobsAreTyped
  <2>2. run'[r] = run[r]
    BY <1>3, <2>1
  <2> QED  BY <2>2 DEF Live
<1>7. \A j \in new : \E r \in Runners : Live(r)' /\ run'[r].job = j
  BY <1>1, <1>3 DEF Live
<1>8. \A r \in Runners : Live(r) => run[r].job \in inflight
  BY DEF Slots, SlotsAreGivenBack
<1>9. OneDeliveryPerJob'
  <2> SUFFICES ASSUME NEW r \in Runners, Live(r)'
               PROVE  /\ run'[r].job \notin delivered' \cup skipped'
                      /\ \A q \in Runners : Live(q)' /\ run'[q].job = run'[r].job => q = r
    BY DEF OneDeliveryPerJob
  <2>1. run'[r].job \notin delivered' \cup skipped'
    BY <1>2, <1>5 DEF Slots, SlotsAreGivenBack, OneDeliveryPerJob
  <2>2. ASSUME NEW q \in Runners, Live(q)', run'[q].job = run'[r].job  PROVE q = r
    <3>1. CASE hired[r] \in new
      BY <1>1, <1>5, <1>8, <2>2, <3>1
    <3>2. CASE hired[r] = NoJob
      BY <1>5, <1>8, <2>2, <3>2 DEF Slots, OneDeliveryPerJob
    <3> QED  BY <1>5, <3>1, <3>2
  <2> QED  BY <2>1, <2>2
<1>10. SlotsAreGivenBack'
  <2>1. \A j \in inflight' :
           j \in delivered' \cup skipped' \/ \E r \in Runners : Live(r)' /\ run'[r].job = j
    BY <1>2, <1>6, <1>7 DEF Slots, SlotsAreGivenBack
  <2>2. \A r \in Runners : Live(r)' => run'[r].job \in inflight'
    BY <1>2, <1>5, <1>8
  <2>3. delivered' \cup skipped' \subseteq inflight'
    BY <1>2 DEF Slots, SlotsAreGivenBack
  <2> QED  BY <2>1, <2>2, <2>3 DEF SlotsAreGivenBack
<1> QED  BY <1>4, <1>9, <1>10 DEF Slots

(* A task that ends gives its slot back or settles its job. *)
LEMMA EndIsSound ==
    ASSUME TaskTypes, Slots, NEW r \in Runners, run[r] # NoRun,
           Delivered(r) \/ Skipped(r) \/ Retried(r)
    PROVE  TaskTypes' /\ Slots'
<1> DEFINE mine == run[r].job
<1>1. mine \in Jobs
  BY JobsAreTyped
<1>2. run' = [run EXCEPT ![r] = NoRun]
  BY DEF Delivered, Skipped, Retried, Finish
<1>3. /\ ~Live(r)' /\ run'[r] = NoRun
      /\ \A q \in Runners \ {r} : run'[q] = run[q] /\ Live(q)' = Live(q)
  BY <1>2 DEF TaskTypes, Live, NoRun
<1>4. CASE ~Live(r)
  <2>1. inflight' = inflight /\ delivered' = delivered /\ skipped' = skipped
    BY <1>4 DEF Delivered, Skipped, Retried, Finish, history
  <2>2. TaskTypes'
    BY <1>2, <2>1 DEF TaskTypes
  <2>3. OneDeliveryPerJob'
    BY <1>3, <2>1 DEF Slots, OneDeliveryPerJob
  <2>4. {run'[q].job : q \in {p \in Runners : Live(p)'}}
            = {run[q].job : q \in {p \in Runners : Live(p)}}
    BY <1>3, <1>4
  <2> QED  BY <2>1, <2>2, <2>3, <2>4 DEF Slots, SlotsAreGivenBack
<1>5. CASE Live(r)
  <2>1. \/ /\ inflight' = inflight
           /\ mine \in delivered' \cup skipped'
           /\ delivered' \cup skipped' = delivered \cup skipped \cup {mine}
        \/ /\ inflight' = inflight \ {mine}
           /\ delivered' \cup skipped' = delivered \cup skipped
    BY <1>5 DEF Delivered, Skipped, Retried, Finish, history
  <2>2. delivered' \subseteq Jobs /\ skipped' \subseteq Jobs /\ inflight' \subseteq Jobs
    BY <1>1, <1>5 DEF Delivered, Skipped, Retried, Finish, history, TaskTypes
  <2>3. TaskTypes'
    BY <1>2, <2>2 DEF TaskTypes
  <2>4. /\ mine \notin delivered \cup skipped
        /\ \A q \in Runners \ {r} : Live(q) => run[q].job # mine
    BY <1>5 DEF Slots, OneDeliveryPerJob
  <2>5. OneDeliveryPerJob'
    BY <1>3, <2>1, <2>4 DEF Slots, OneDeliveryPerJob
  <2>6. {run'[q].job : q \in {p \in Runners : Live(p)'}}
            = {run[q].job : q \in {p \in Runners : Live(p)}} \ {mine}
    BY <1>3, <2>4
  <2>7. mine \in {run[q].job : q \in {p \in Runners : Live(p)}}
    BY <1>5
  <2> HIDE DEF mine
  <2>8. SlotsAreGivenBack'
    BY <2>1, <2>4, <2>6, <2>7 DEF Slots, SlotsAreGivenBack
  <2> QED  BY <2>3, <2>5, <2>8 DEF Slots
<1> QED  BY <1>4, <1>5, JobsAreTyped

LEMMA GoingOnIsSound ==
    ASSUME TaskTypes, Slots, NEW r \in Runners, run[r] # NoRun, NEW stage \in RunStages,
           GoesOn(r, stage)
    PROVE  TaskTypes' /\ Slots'
<1> USE DEF GoesOn, history
<1>1. TaskTypes'
  BY DEF TaskTypes
<1>2. \A q \in Runners : run'[q].job = run[q].job /\ Live(q)' = Live(q)
  <2>1. run[r] \in [stage : RunStages, job : Jobs, awaited : BOOLEAN]
    BY DEF TaskTypes
  <2> QED  BY <2>1 DEF TaskTypes, Live
<1>3. {run'[q].job : q \in {p \in Runners : Live(p)'}}
          = {run[q].job : q \in {p \in Runners : Live(p)}}
  BY <1>2
<1> QED  BY <1>1, <1>2, <1>3 DEF Slots, SlotsAreGivenBack, OneDeliveryPerJob

LEMMA TimeoutIsSound ==
    ASSUME TaskTypes, Slots, NEW r \in Runners, RunTimesOut(r)
    PROVE  TaskTypes' /\ Slots'
<1> USE DEF RunTimesOut, history
<1> DEFINE mine == run[r].job
<1>1. run[r] \in [stage : RunStages, job : Jobs, awaited : BOOLEAN]
  BY JobsAreTyped DEF TaskTypes
<1>2. /\ ~Live(r)'
      /\ \A q \in Runners \ {r} : run'[q] = run[q] /\ Live(q)' = Live(q)
  BY <1>1 DEF TaskTypes, Live, NoRun
<1>3. TaskTypes'
  BY <1>1 DEF TaskTypes
<1>4. /\ mine \notin delivered \cup skipped
      /\ \A q \in Runners \ {r} : Live(q) => run[q].job # mine
  BY DEF Slots, OneDeliveryPerJob
<1>5. OneDeliveryPerJob'
  BY <1>2 DEF Slots, OneDeliveryPerJob
<1>6. {run'[q].job : q \in {p \in Runners : Live(p)'}}
          = {run[q].job : q \in {p \in Runners : Live(p)}} \ {mine}
  BY <1>2, <1>4
<1>7. inflight' = inflight \ {mine} /\ delivered' = delivered /\ skipped' = skipped
  OBVIOUS
<1> HIDE DEF mine
<1>8. SlotsAreGivenBack'
  BY <1>4, <1>6, <1>7 DEF Slots, SlotsAreGivenBack
<1> QED  BY <1>3, <1>5, <1>8 DEF Slots
LEMMA RestartIsSound ==
    ASSUME run' = [r \in Runners |-> NoRun], inflight' = {}, delivered' = {}, skipped' = {}
    PROVE  TaskTypes' /\ Slots'
BY DEF TaskTypes, Slots, SlotsAreGivenBack, OneDeliveryPerJob, Live, NoRun

LEMMA UntouchedIsSound ==
    ASSUME TaskTypes, Slots, UNCHANGED <<run, inflight, delivered, skipped>>
    PROVE  TaskTypes' /\ Slots'
BY DEF TaskTypes, Slots, SlotsAreGivenBack, OneDeliveryPerJob, Live

-----------------------------------------------------------------------------
(* Every step *)

LEMMA TasksStaySound ==
    ASSUME TypeOK, Slots, [Next]_vars
    PROVE  TaskTypes' /\ Slots'
<1> USE DEF chain, history, agent
<1>1. TaskTypes
  BY DEF TypeOK, TaskTypes
<1>2. ASSUME NEW r \in Runners, Delivery(r) \/ RunFails(r)  PROVE TaskTypes' /\ Slots'
  <2>1. run[r] # NoRun
    BY <1>1, <1>2, JobsAreTyped
       DEF Delivery, RunFails, Verify, Work, Submit, SubmitMined, RunStages
  <2>2. \/ Delivered(r) \/ Skipped(r) \/ Retried(r)
        \/ \E stage \in RunStages : GoesOn(r, stage)
    <3>1. CASE Verify(r)
      BY <3>1 DEF Verify, RunStages
    <3>2. CASE Work(r) \/ Submit(r) \/ SubmitMined(r) \/ RunFails(r)
      BY <3>2 DEF Work, Submit, SubmitMined, RunFails, RunStages
    <3> QED  BY <1>2, <3>1, <3>2 DEF Delivery
  <2> QED  BY <1>1, <2>1, <2>2, EndIsSound, GoingOnIsSound
<1>3. ASSUME NEW c \in Calls, PreVerify(c) \/ PreVerifyFails(c)  PROVE TaskTypes' /\ Slots'
  BY <1>1, <1>3, UntouchedIsSound DEF PreVerify, PreVerifyFails
<1>4. ASSUME NEW c \in Calls, Accept(c)  PROVE TaskTypes' /\ Slots'
  <2>1. call[c].job \in Jobs
    BY <1>4 DEF Accept, TypeOK, NoCall, CallStages
  <2> QED  BY <1>1, <1>4, <2>1, SpawnIsSound DEF Accept, RunStages
<1>5. ASSUME NEW s \in Scans, ScanReads(s) \/ ScanFails(s)  PROVE TaskTypes' /\ Slots'
  BY <1>1, <1>5, UntouchedIsSound DEF ScanReads, ScanFails
<1>6. ASSUME NEW s \in Scans, ScanSpawns(s)  PROVE TaskTypes' /\ Slots'
  <2>1. scan[s].found \in SUBSET Jobs
    BY <1>6 DEF ScanSpawns, TypeOK, NoScan
  <2> QED  BY <1>1, <1>6, <2>1, SpawnIsSound DEF ScanSpawns, RunStages
<1>7. CASE Network
  BY <1>1, <1>7, UntouchedIsSound DEF Network, BuyerActs, CatchesUp, PoolDrains
<1>8. CASE Clients
  BY <1>1, <1>8, UntouchedIsSound DEF Clients, NotifyBare, Notify, Reply
<1>9. CASE Restart
  BY <1>9, RestartIsSound DEF Restart
<1>10. CASE UNCHANGED vars
  BY <1>1, <1>10, UntouchedIsSound DEF vars
<1>11. ASSUME NEW r \in Runners, RunTimesOut(r)  PROVE TaskTypes' /\ Slots'
  BY <1>1, <1>11, TimeoutIsSound
<1> QED
  BY <1>2, <1>3, <1>4, <1>5, <1>6, <1>7, <1>8, <1>9, <1>10, <1>11 DEF Next, Background
-----------------------------------------------------------------------------
(* The types of the rest *)

LEMMA ChainStaysTyped ==
    ASSUME TypeOK, [Next]_vars
    PROVE  /\ job' \in [Jobs -> Status] /\ node' \in [Jobs -> Status]
           /\ pool' \subseteq Jobs /\ able' \in BOOLEAN /\ faults' \in 0 .. MaxFaults
<1> USE BoundsAreFine DEF chain, history, agent, TypeOK
<1>1. ASSUME NEW j \in Jobs, NEW status \in Status, Becomes(j, status)
      PROVE  job' \in [Jobs -> Status] /\ node' \in [Jobs -> Status]
  BY <1>1 DEF Becomes
<1>2. ASSUME NEW j \in Jobs, Lands(j)
      PROVE  job' \in [Jobs -> Status] /\ node' \in [Jobs -> Status]
  BY <1>1, <1>2 DEF Lands, Status
<1>3. Fault => faults' \in 0 .. MaxFaults
  BY DEF Fault
<1>4. CASE Network
  BY <1>1, <1>2, <1>4 DEF Network, BuyerActs, CatchesUp, PoolDrains, Status
<1>5. ASSUME NEW r \in Runners, Delivery(r)
      PROVE  /\ job' \in [Jobs -> Status] /\ node' \in [Jobs -> Status]
             /\ UNCHANGED <<pool, able, faults>>
  <2>1. CASE SubmitMined(r)
    <3>1. run[r].job \in Jobs
      BY <2>1, JobsAreTyped DEF SubmitMined, TaskTypes, RunStages
    <3> QED  BY <1>2, <2>1, <3>1 DEF SubmitMined
  <2>2. CASE Verify(r) \/ Work(r) \/ Submit(r)
    BY <2>2 DEF Verify, Work, Submit
  <2> QED  BY <1>5, <2>1, <2>2 DEF Delivery
<1>6. ASSUME NEW r \in Runners, RunFails(r)
      PROVE  UNCHANGED <<job, node, able>> /\ pool' \subseteq Jobs /\ Fault
  <2>1. run[r].job \in Jobs
    BY <1>6, JobsAreTyped DEF RunFails, TaskTypes
  <2> QED  BY <1>6, <2>1 DEF RunFails, LeftInPool
<1>7. ASSUME Restart  PROVE UNCHANGED <<job, node, able>> /\ pool' \subseteq Jobs /\ Fault
  <2>1. \A r \in Runners : run[r].stage = "sent" => run[r].job \in Jobs
    BY JobsAreTyped DEF TaskTypes, RunStages
  <2> QED  BY <1>7, <2>1 DEF Restart
<1>8. ASSUME NEW r \in Runners, RunTimesOut(r)  PROVE UNCHANGED chain /\ Fault
  BY <1>8 DEF RunTimesOut
<1>9. ASSUME NEW c \in Calls, PreVerify(c) \/ PreVerifyFails(c) \/ Accept(c)
      PROVE  UNCHANGED chain /\ (Fault \/ UNCHANGED faults)
  BY <1>9 DEF PreVerify, PreVerifyFails, Accept
<1>10. ASSUME NEW s \in Scans, ScanReads(s) \/ ScanFails(s) \/ ScanSpawns(s)
       PROVE  UNCHANGED chain /\ (Fault \/ UNCHANGED faults)
  BY <1>10 DEF ScanReads, ScanFails, ScanSpawns
<1>11. CASE Clients
  BY <1>11 DEF Clients, NotifyBare, Notify, Reply
<1>12. CASE Background
  BY <1>3, <1>5, <1>6, <1>7, <1>8, <1>9, <1>10, <1>12 DEF Background
<1>13. CASE UNCHANGED vars
  BY <1>13 DEF vars
<1> QED  BY <1>4, <1>11, <1>12, <1>13 DEF Next

CallType == {NoCall} \cup [stage : CallStages, job : Jobs, caller : Callers] \cup
            [stage : {"accepted"}, job : {NoJob}, caller : Callers]
ScanType == {NoScan} \cup [stage : {"scanning", "read"}, found : SUBSET Jobs]

LEMMA CallsStayTyped ==
    ASSUME TypeOK, [Next]_vars
    PROVE  call' \in [Calls -> CallType] /\ scan' \in [Scans -> ScanType]
<1> USE DEF agent
<1>1. call \in [Calls -> CallType] /\ scan \in [Scans -> ScanType]
  BY DEF TypeOK, CallType, ScanType
<1>2. ASSUME NEW s \in Scans, StartScan(s)  PROVE scan' \in [Scans -> ScanType]
  <2>1. [scan[s] EXCEPT !.stage = "scanning"] \in ScanType
    BY <1>2 DEF StartScan, ScanType, NoScan
  <2> QED  BY <1>1, <1>2, <2>1 DEF StartScan
<1>3. ASSUME NEW c \in Calls, NEW ack \in CallStages, call[c].stage \in CallStages,
             call[c].job # NoJob \/ ack = "accepted", Answer(c, ack)
      PROVE  call' \in [Calls -> CallType]
  <2>1. [call[c] EXCEPT !.stage = ack] \in CallType
    BY <1>1, <1>3 DEF CallType, NoCall, CallStages
  <2> QED  BY <1>1, <1>3, <2>1 DEF Answer
<1>4. ASSUME NEW c \in Calls, call[c].stage \in {"verify", "verified", "unverified"}
      PROVE  call[c].stage \in CallStages /\ call[c].job # NoJob
  BY <1>1, <1>4, NoJobIsNone DEF CallType, NoCall, CallStages
<1>5. ASSUME NEW c \in Calls, PreVerify(c) \/ PreVerifyFails(c) \/ Accept(c)
      PROVE  call' \in [Calls -> CallType] /\ scan' \in [Scans -> ScanType]
  <2>1. CASE PreVerify(c)
    BY <1>1, <1>3, <1>4, <2>1 DEF PreVerify, CallStages
  <2>2. CASE PreVerifyFails(c)
    BY <1>1, <1>3, <1>4, <2>2 DEF PreVerifyFails, CallStages
  <2>3. CASE Accept(c)
    BY <1>2, <1>3, <1>4, <2>3 DEF Accept, CallStages
  <2> QED  BY <1>5, <2>1, <2>2, <2>3
<1>6. ASSUME NEW s \in Scans, ScanReads(s) \/ ScanFails(s) \/ ScanSpawns(s)
      PROVE  call' \in [Calls -> CallType] /\ scan' \in [Scans -> ScanType]
  BY <1>1, <1>6 DEF ScanReads, ScanFails, ScanSpawns, ScanType
<1>7. ASSUME NEW r \in Runners, Delivery(r) \/ RunFails(r) \/ RunTimesOut(r)
      PROVE  UNCHANGED <<call, scan>>
  BY <1>7 DEF Delivery, Verify, Work, Submit, SubmitMined, RunFails, RunTimesOut
<1>8. CASE Restart
  BY <1>8 DEF Restart, CallType, ScanType
<1>9. CASE Network
  BY <1>1, <1>9 DEF Network, BuyerActs, CatchesUp, PoolDrains
<1>10. ASSUME NEW c \in Calls, NEW who \in Callers, NotifyBare(c, who)
       PROVE  call' \in [Calls -> CallType] /\ scan' \in [Scans -> ScanType]
  BY <1>1, <1>2, <1>10 DEF NotifyBare, CallType
<1>11. ASSUME NEW c \in Calls, NEW who \in Callers, NEW j \in Jobs, Notify(c, j, who)
       PROVE  call' \in [Calls -> CallType] /\ scan' \in [Scans -> ScanType]
  BY <1>1, <1>11 DEF Notify, CallType, CallStages
<1>12. ASSUME NEW c \in Calls, Reply(c)
       PROVE  call' \in [Calls -> CallType] /\ scan' \in [Scans -> ScanType]
  BY <1>1, <1>12 DEF Reply, CallType
<1>13. CASE UNCHANGED vars
  BY <1>1, <1>13 DEF vars
<1> QED
  BY <1>1, <1>5, <1>6, <1>7, <1>8, <1>9, <1>10, <1>11, <1>12, <1>13
     DEF Next, Background, Clients

-----------------------------------------------------------------------------
(* Theorems *)

LEMMA SellerStart == Init => SellerInv
<1> SUFFICES ASSUME Init  PROVE SellerInv
  OBVIOUS
<1>1. TypeOK
  BY BoundsAreFine DEF Init, TypeOK, Status
<1>2. Slots
  BY DEF Init, Slots, SlotsAreGivenBack, OneDeliveryPerJob, Live, NoRun
<1> QED  BY <1>1, <1>2 DEF SellerInv

LEMMA SellerStep ==
    ASSUME SellerInv, [Next]_vars
    PROVE  SellerInv'
<1>1. TaskTypes' /\ Slots'
  BY TasksStaySound DEF SellerInv
<1>2. TypeOK'
  BY <1>1, ChainStaysTyped, CallsStayTyped
     DEF SellerInv, TypeOK, TaskTypes, CallType, ScanType
<1> QED  BY <1>1, <1>2 DEF SellerInv

LEMMA SellerInvAlways == Spec => []SellerInv
<1>1. SellerInv /\ [Next]_vars => SellerInv'
  BY SellerStep
<1> QED  BY <1>1, SellerStart, PTL DEF Spec

(* Every step of seller_core.py keeps its data well formed. *)
THEOREM SellerTypeCorrect == Spec => []TypeOK
BY SellerInvAlways, PTL DEF SellerInv

(* _inflight: no job is ever worked on by two deliveries, nor again after  *)
(* it was settled, for any number of notifications, sweeps and timeouts.   *)
THEOREM DeliveriesAreSingle == Spec => []OneDeliveryPerJob
BY SellerInvAlways, PTL DEF SellerInv, Slots

(* _inflight holds no job that is neither worked on nor settled. *)
THEOREM NoSlotLeaks == Spec => []SlotsAreGivenBack
BY SellerInvAlways, PTL DEF SellerInv, Slots

(* What the node shows is old news at worst: a job it shows as expired has *)
(* expired, and one it does not know was not there from the start.         *)
NodeFollows ==
    \A j \in Jobs :
        /\ node[j] = "expired" => job[j] = "expired"
        /\ "absent" \in {job[j], node[j]} => j \in Early

Hopeless == NodeFollows /\ OnlyHopelessJobsAreSkipped

(* No job comes back from "expired", or goes back to "absent". *)
LEMMA NewStatusIsKept ==
    ASSUME TypeOK, NodeFollows, NEW j \in Jobs, NEW status \in Status \ {"absent"},
           job[j] # "expired", Becomes(j, status)
    PROVE  NodeFollows' /\ \A i \in Jobs : job[i] = "expired" => job'[i] = "expired"
BY DEF Becomes, TypeOK, NodeFollows

LEMMA LandingIsKept ==
    ASSUME TypeOK, NodeFollows, NEW j \in Jobs, Lands(j)
    PROVE  NodeFollows' /\ \A i \in Jobs : job[i] = "expired" => job'[i] = "expired"
<1>1. CASE job[j] = "funded"
  BY <1>1, NewStatusIsKept DEF Lands, Status
<1>2. CASE job[j] # "funded"
  BY <1>2 DEF Lands, NodeFollows
<1> QED  BY <1>1, <1>2

(* With the same jobs skipped, what was hopeless stays so. *)
LEMMA HopelessStays ==
    ASSUME Hopeless, NodeFollows', able' = able, skipped' \subseteq skipped,
           skipped \subseteq Jobs,
           \A i \in Jobs : job[i] = "expired" => job'[i] = "expired"
    PROVE  Hopeless'
BY DEF Hopeless, OnlyHopelessJobsAreSkipped

LEMMA UntouchedIsHopeless ==
    ASSUME Hopeless, UNCHANGED <<job, node, able, skipped>>
    PROVE  Hopeless'
BY DEF Hopeless, NodeFollows, OnlyHopelessJobsAreSkipped

(* The two places that give up on a job for good. *)
LEMMA RefusalsAreRight ==
    ASSUME TypeOK, Hopeless, NEW r \in Runners, Verify(r) \/ Submit(r)
    PROVE  Hopeless'
<1> USE DEF chain, history
<1>1. UNCHANGED <<job, node, able>>
  BY DEF Verify, Submit
<1>2. run[r].job \in Jobs
  BY JobsAreTyped DEF Verify, Submit, TypeOK, TaskTypes, RunStages
<1>3. skipped' # skipped => /\ skipped' = skipped \cup {run[r].job}
                            /\ ~able \/ "no" \in Verdicts(run[r].job)
  BY DEF Verify, Submit, GoesOn, Skipped, Retried
<1>4. "no" \in Verdicts(run[r].job) =>
          run[r].job \in Bad \cup Early \/ job[run[r].job] = "expired"
  <2>1. node[run[r].job] = "funded" => ("no" \in Verdicts(run[r].job) => run[r].job \in Bad)
    BY DEF Verdicts
  <2>2. node[run[r].job] \notin {"funded", "absent", "expired"} => "no" \notin Verdicts(run[r].job)
    BY DEF Verdicts
  <2> QED  BY <1>2, <2>1, <2>2 DEF Hopeless, NodeFollows
<1>5. skipped' = skipped \/ skipped' # skipped
  OBVIOUS
<1> QED  BY <1>1, <1>3, <1>4, <1>5 DEF Hopeless, NodeFollows, OnlyHopelessJobsAreSkipped

LEMMA HopelessStep ==
    ASSUME TypeOK, Hopeless, [Next]_vars
    PROVE  Hopeless'
<1> USE DEF chain, history, agent
<1>1. skipped \subseteq Jobs /\ NodeFollows
  BY DEF TypeOK, Hopeless
<1>2. CASE Network
  <2>1. skipped' = skipped /\ able' = able
    BY <1>2 DEF Network, BuyerActs, CatchesUp, PoolDrains
  <2>2. ASSUME NEW j \in Jobs, BuyerActs(j)
        PROVE  NodeFollows' /\ \A i \in Jobs : job[i] = "expired" => job'[i] = "expired"
    BY <1>1, <2>2, NewStatusIsKept DEF BuyerActs, Status
  <2>3. ASSUME NEW j \in Jobs, CatchesUp(j)
        PROVE  NodeFollows' /\ \A i \in Jobs : job[i] = "expired" => job'[i] = "expired"
    BY <1>1, <2>3 DEF CatchesUp, NodeFollows, TypeOK
  <2>4. ASSUME NEW j \in Jobs, PoolDrains(j)
        PROVE  NodeFollows' /\ \A i \in Jobs : job[i] = "expired" => job'[i] = "expired"
    <3>1. CASE Lands(j)
      BY <1>1, <3>1, LandingIsKept
    <3>2. CASE UNCHANGED <<job, node>>
      BY <1>1, <3>2 DEF NodeFollows
    <3> QED  BY <2>4, <3>1, <3>2 DEF PoolDrains
  <2> QED  BY <1>1, <1>2, <2>1, <2>2, <2>3, <2>4, HopelessStays DEF Network
<1>3. ASSUME NEW r \in Runners, SubmitMined(r)  PROVE Hopeless'
  <2>1. run[r].job \in Jobs
    BY <1>3, JobsAreTyped DEF SubmitMined, TypeOK, TaskTypes, RunStages
  <2>2. Lands(run[r].job) /\ skipped' = skipped /\ able' = able
    BY <1>3 DEF SubmitMined, Delivered, Retried
  <2>3. NodeFollows' /\ \A i \in Jobs : job[i] = "expired" => job'[i] = "expired"
    BY <1>1, <2>1, <2>2, LandingIsKept
  <2> QED  BY <1>1, <2>2, <2>3, HopelessStays
<1>4. ASSUME NEW r \in Runners, Work(r) \/ RunFails(r) \/ RunTimesOut(r)  PROVE Hopeless'
  <2>1. UNCHANGED <<job, node, able, skipped>>
    BY <1>4 DEF Work, GoesOn, RunFails, RunTimesOut, Retried
  <2> QED  BY <2>1, UntouchedIsHopeless
<1>5. ASSUME NEW c \in Calls, PreVerify(c) \/ PreVerifyFails(c) \/ Accept(c)  PROVE Hopeless'
  BY <1>5, UntouchedIsHopeless DEF PreVerify, PreVerifyFails, Accept
<1>6. ASSUME NEW s \in Scans, ScanReads(s) \/ ScanFails(s) \/ ScanSpawns(s)  PROVE Hopeless'
  BY <1>6, UntouchedIsHopeless DEF ScanReads, ScanFails, ScanSpawns
<1>7. CASE Restart
  BY <1>1, <1>7, HopelessStays DEF Restart, NodeFollows
<1>8. CASE Clients
  BY <1>8, UntouchedIsHopeless DEF Clients, NotifyBare, Notify, Reply
<1>9. CASE UNCHANGED vars
  BY <1>9, UntouchedIsHopeless DEF vars
<1> QED
  BY <1>2, <1>3, <1>4, <1>5, <1>6, <1>7, <1>8, <1>9, RefusalsAreRight
     DEF Next, Background, Delivery

LEMMA NothingIsSkippedYet == Init => Hopeless
BY DEF Init, Hopeless, NodeFollows, OnlyHopelessJobsAreSkipped

(* A verdict that is called permanent stays true, however old the view it  *)
(* was made of and whatever buyers, deadlines and abandoned submits do     *)
(* afterwards, unless the job was not there when the agent started.        *)
THEOREM SkipsAreHopeless == Spec => []OnlyHopelessJobsAreSkipped
<1>1. TypeOK /\ Hopeless /\ [Next]_vars => Hopeless'
  BY HopelessStep
<1>2. Hopeless => OnlyHopelessJobsAreSkipped
  BY DEF Hopeless
<1> QED  BY <1>1, <1>2, NothingIsSkippedYet, SellerTypeCorrect, PTL DEF Spec

-----------------------------------------------------------------------------
(* The agent beside the sweep *)

SweeperType ==
    [stage : {"rest", "visit"}, todo : SUBSET Jobs, job : {NoJob}] \cup
    [stage : {"push"}, todo : SUBSET Jobs, job : Jobs]

ServiceTypes ==
    /\ sweeper \in [Sweepers -> SweeperType]
    /\ recent \subseteq Jobs /\ rejected \subseteq Jobs /\ beyond \subseteq Jobs

WatchInv == SellerInv /\ Hopeless /\ ServiceTypes

-----------------------------------------------------------------------------
(* The agent's side *)

(* Every step is one that Seller knows, or leaves callers behind. *)
LEMMA StepsOfSeller ==
    ASSUME ServiceTypes, [WatchNext]_watchVars
    PROVE  \/ [Next]_vars
           \/ \E s \in Sweepers : PushFails(s)
           \/ ServiceRestarts
<1> USE CallersAreKnown
<1>1. CASE (Network \/ Background \/ BuyerCalls) /\ UNCHANGED <<service, beyond>>
  <2>1. BuyerCalls => Clients
    BY DEF BuyerCalls, Clients
  <2> QED  BY <1>1, <2>1 DEF Next
<1>2. ASSUME NEW s \in Sweepers, Pushes(s)  PROVE Next
  <2>1. sweeper[s].todo \subseteq Jobs
    BY DEF ServiceTypes, SweeperType
  <2>2. PICK j \in Jobs, c \in Calls : Notify(c, j, s)
    BY <1>2, <2>1 DEF Pushes
  <2> QED  BY <2>2 DEF Clients, Next
<1>3. ASSUME NEW s \in Sweepers, Acked(s)  PROVE Next
  BY <1>3 DEF Acked, Clients, Next
<1>4. ASSUME NEW s \in Sweepers, SweepScans(s) \/ Passes(s) \/ SweepEnds(s)
      PROVE  UNCHANGED vars
  BY <1>4 DEF SweepScans, Passes, SweepEnds
<1>5. ASSUME NEW j \in Jobs, Elapses(j) \/ GetsBeyond(j)  PROVE UNCHANGED vars
  BY <1>5 DEF Elapses, GetsBeyond
<1>6. CASE UNCHANGED watchVars
  BY <1>6 DEF watchVars
<1> QED  BY <1>1, <1>2, <1>3, <1>4, <1>5, <1>6 DEF WatchNext, Sweep

(* A call goes on to be handled when its caller is gone. *)
LEMMA LeavingKeepsCalls ==
    ASSUME call \in [Calls -> CallType], NEW c \in Calls, call[c].caller \in Callers
    PROVE  [call[c] EXCEPT !.caller = Buyer] \in CallType
<1>1. call[c] # NoCall
  BY CallersAreKnown DEF NoCall
<1>2. Buyer \in Callers
  BY CallersAreKnown
<1>3. CASE call[c] \in [stage : CallStages, job : Jobs, caller : Callers]
  BY <1>2, <1>3 DEF CallType
<1>4. CASE call[c] \in [stage : {"accepted"}, job : {NoJob}, caller : Callers]
  BY <1>2, <1>4 DEF CallType
<1> QED  BY <1>1, <1>3, <1>4 DEF CallType

LEMMA LeavingIsSound ==
    ASSUME SellerInv, Hopeless, (\E s \in Sweepers : PushFails(s)) \/ ServiceRestarts
    PROVE  SellerInv' /\ Hopeless'
<1> USE DEF chain, history
<1>1. UNCHANGED <<job, node, pool, able, scan, run, inflight, delivered, skipped>>
  BY DEF PushFails, ServiceRestarts
<1>2. faults' \in 0 .. MaxFaults
  BY BoundsAreFine DEF PushFails, ServiceRestarts, Fault, SellerInv, TypeOK
<1>3. call \in [Calls -> CallType]
  BY DEF SellerInv, TypeOK, CallType
<1>4. call' \in [Calls -> CallType]
  <2>1. CASE ServiceRestarts
    <3>1. Sweepers \subseteq Callers
      BY CallersAreKnown
    <3> QED  BY <1>3, <2>1, <3>1, LeavingKeepsCalls DEF ServiceRestarts
  <2>2. ASSUME NEW s \in Sweepers, PushFails(s)  PROVE call' \in [Calls -> CallType]
    <3>1. s \in Callers
      BY CallersAreKnown
    <3> QED  BY <1>3, <2>2, <3>1, LeavingKeepsCalls DEF PushFails
  <2> QED  BY <2>1, <2>2
<1>5. TypeOK'
  BY <1>1, <1>2, <1>4 DEF SellerInv, TypeOK, CallType
<1>6. TaskTypes' /\ Slots'
  BY <1>1, UntouchedIsSound DEF SellerInv, TypeOK, TaskTypes
<1>7. Hopeless'
  BY <1>1, UntouchedIsHopeless
<1> QED  BY <1>5, <1>6, <1>7 DEF SellerInv

-----------------------------------------------------------------------------
(* The service's side *)

LEMMA ScansAreTyped ==
    ASSUME NEW found \in SUBSET Jobs
    PROVE  [Resting EXCEPT !.stage = "visit", !.todo = found] \in SweeperType
BY DEF Resting, SweeperType

LEMMA SweepersStayTyped ==
    ASSUME ServiceTypes, NEW s \in Sweepers, Sweep(s)
    PROVE  ServiceTypes'
<1> USE DEF service
<1>1. sweeper[s] \in SweeperType
  BY DEF ServiceTypes
<1>2. sweeper[s].todo \subseteq Jobs
  BY <1>1 DEF SweeperType
<1>3. ASSUME sweeper[s].stage = "push", Visits(s)
      PROVE  sweeper[s].job \in Jobs /\ sweeper' \in [Sweepers -> SweeperType]
  <2>1. sweeper[s].job \in Jobs /\ [sweeper[s] EXCEPT !.stage = "visit", !.job = NoJob] \in SweeperType
    BY <1>1, <1>3 DEF SweeperType
  <2> QED  BY <1>3, <2>1 DEF Visits, ServiceTypes
<1>4. CASE SweepScans(s)
  <2> DEFINE found == {j \in Jobs \ beyond : job[j] = "funded"}
  <2>1. sweeper' = [sweeper EXCEPT ![s] = [Resting EXCEPT !.stage = "visit", !.todo = found]]
    BY <1>4 DEF SweepScans
  <2>2. [Resting EXCEPT !.stage = "visit", !.todo = found] \in SweeperType
    BY ScansAreTyped
  <2> QED  BY <1>4, <2>1, <2>2 DEF SweepScans, ServiceTypes
<1>5. CASE Passes(s)
  <2>1. \A j : [sweeper[s] EXCEPT !.todo = @ \ {j}] \in SweeperType
    BY <1>1 DEF SweeperType
  <2> QED  BY <1>5, <2>1 DEF Passes, ServiceTypes
<1>6. CASE Pushes(s)
  <2>1. \A j \in sweeper[s].todo :
           [stage |-> "push", todo |-> sweeper[s].todo \ {j}, job |-> j] \in SweeperType
    BY <1>2 DEF SweeperType
  <2> QED  BY <1>6, <2>1 DEF Pushes, ServiceTypes
<1>7. CASE Acked(s)
  BY <1>3, <1>7 DEF Acked, ServiceTypes
<1>8. CASE PushFails(s)
  BY <1>3, <1>8 DEF PushFails, ServiceTypes
<1>9. CASE SweepEnds(s)
  BY <1>9 DEF SweepEnds, ServiceTypes, Resting, SweeperType
<1> QED  BY <1>4, <1>5, <1>6, <1>7, <1>8, <1>9 DEF Sweep

LEMMA ServiceStaysTyped ==
    ASSUME ServiceTypes, [WatchNext]_watchVars
    PROVE  ServiceTypes'
<1> USE DEF service
<1>1. CASE ServiceRestarts
  BY <1>1 DEF ServiceRestarts, ServiceTypes, Resting, SweeperType
<1>2. ASSUME NEW j \in Jobs, Elapses(j) \/ GetsBeyond(j)  PROVE ServiceTypes'
  BY <1>2 DEF Elapses, GetsBeyond, ServiceTypes
<1>3. CASE UNCHANGED <<service, beyond>>
  BY <1>3 DEF ServiceTypes
<1>4. CASE UNCHANGED watchVars
  BY <1>4 DEF watchVars, ServiceTypes
<1> QED  BY <1>1, <1>2, <1>3, <1>4, SweepersStayTyped DEF WatchNext

-----------------------------------------------------------------------------
(* Theorems *)

LEMMA WatchInvAlways == WatchSpec => []WatchInv
<1>1. WatchInit => WatchInv
  <2> SUFFICES ASSUME WatchInit  PROVE WatchInv
    OBVIOUS
  <2>1. SellerInv
    BY SellerStart DEF WatchInit
  <2>2. Hopeless
    BY NothingIsSkippedYet DEF WatchInit
  <2>3. ServiceTypes
    BY DEF WatchInit, ServiceTypes, Resting, SweeperType
  <2> QED  BY <2>1, <2>2, <2>3 DEF WatchInv
<1>2. WatchInv /\ [WatchNext]_watchVars => WatchInv'
  <2> SUFFICES ASSUME WatchInv, [WatchNext]_watchVars  PROVE WatchInv'
    OBVIOUS
  <2>1. ASSUME [Next]_vars  PROVE SellerInv' /\ Hopeless'
    BY <2>1, SellerStep, HopelessStep DEF WatchInv, SellerInv
  <2>2. ASSUME (\E s \in Sweepers : PushFails(s)) \/ ServiceRestarts
        PROVE  SellerInv' /\ Hopeless'
    BY <2>2, LeavingIsSound DEF WatchInv
  <2>3. SellerInv' /\ Hopeless'
    BY <2>1, <2>2, StepsOfSeller DEF WatchInv
  <2> QED  BY <2>3, ServiceStaysTyped DEF WatchInv
<1> QED  BY <1>1, <1>2, PTL DEF WatchSpec

(* The service and the agent keep their data well formed together: a push  *)
(* under way always names a job, and a call that lost its caller is still  *)
(* one that the agent can answer.                                          *)
THEOREM WatchTypeCorrect == WatchSpec => []WatchTypeOK
<1>1. WatchInv => WatchTypeOK
  BY DEF WatchInv, SellerInv, ServiceTypes, SweeperType, WatchTypeOK
<1> QED  BY <1>1, WatchInvAlways, PTL

(* sweep_once: repeated notifications, from any number of sweepers that    *)
(* time out, restart and forget what they notified, never make a job be    *)
(* delivered twice.                                                        *)
THEOREM SweepsStartNothingTwice == WatchSpec => []OneDeliveryPerJob
<1>1. WatchInv => OneDeliveryPerJob
  BY DEF WatchInv, SellerInv, Slots
<1> QED  BY <1>1, WatchInvAlways, PTL

(* Nor do they leave a slot of _inflight taken, or have the agent give up  *)
(* on a job that it could still deliver.                                   *)
THEOREM SweepsLeakNothing ==
    WatchSpec => [](SlotsAreGivenBack /\ OnlyHopelessJobsAreSkipped)
<1>1. WatchInv => SlotsAreGivenBack /\ OnlyHopelessJobsAreSkipped
  BY DEF WatchInv, SellerInv, Slots, Hopeless
<1> QED  BY <1>1, WatchInvAlways, PTL
=============================================================================
