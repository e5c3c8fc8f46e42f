------------------------------- MODULE Seller --------------------------------
(***************************************************************************)
(* app/agent/seller_core.py: paid jobs, from the buyer's notify_funded to  *)
(* the deliverable on chain.  A notification is verified and answered at   *)
(* once; the work runs in a background task.  The set _inflight keeps a    *)
(* job from being worked on twice.                                         *)
(*                                                                         *)
(* Coroutines interleave at awaits only.  Reads of the chain, and submit,  *)
(* run in threads that asyncio.wait_for abandons but cannot stop.          *)
(* The chain and the SDK are not in the repository: their part follows     *)
(* what seller_core.py and signing.py say of them.                         *)
(***************************************************************************)
EXTENDS Naturals, FiniteSets

CONSTANTS
    Jobs,       \* on-chain jobs that name this agent as provider
    NoJob,
    Bad,        \* jobs without this agent's signed quote, or below its price
    Early,      \* jobs that do not exist yet when the agent starts
    Callers,    \* who notifies
    Calls,      \* bound: notify_funded calls at once
    Scans,      \* bound: background sweeps at once
    Runners,    \* bound: deliveries and abandoned submits at once
    Lag,        \* whether the agent's node may be behind the chain
    MaxFaults   \* bound: failures, timeouts and restarts

ASSUME NoJobIsNone == NoJob \notin Jobs
ASSUME JobKindsAreJobs == Bad \subseteq Jobs /\ Early \subseteq Jobs
ASSUME BoundsAreFine == MaxFaults \in Nat /\ Lag \in BOOLEAN

VARIABLES
    job,        \* the status of each job on chain
    node,       \* the status that the agent's node shows
    pool,       \* jobs with a broadcast submit that nobody waits for
    able,       \* whether this kind of wallet can submit at all
    call,       \* the notify_funded calls being handled
    scan,       \* the background sweeps
    run,        \* _run_job tasks, and submits they left behind
    inflight,   \* _inflight
    faults,     \* how many faults there have been
    (* history variables: read by no guard *)
    delivered,  \* jobs whose delivery returned ok in this life of the process
    skipped     \* jobs given up on for good in this life of the process

chain   == <<job, node, pool, able>>
history == <<delivered, skipped>>
agent   == <<call, scan, run, inflight>>
vars    == <<chain, agent, faults, history>>

Status == {"absent", "open", "funded", "submitted", "expired"}

NoCall == [stage |-> "none", job |-> NoJob, caller |-> NoJob]
NoScan == [stage |-> "none", found |-> {}]
NoRun  == [stage |-> "none", job |-> NoJob, awaited |-> FALSE]

Init ==
    /\ job = [j \in Jobs |-> IF j \in Early THEN "absent" ELSE "open"]
    /\ node = job
    /\ pool = {}
    /\ able \in BOOLEAN
    /\ call = [c \in Calls |-> NoCall]
    /\ scan = [s \in Scans |-> NoScan]
    /\ run = [r \in Runners |-> NoRun]
    /\ inflight = {}
    /\ faults = 0
    /\ delivered = {}
    /\ skipped = {}

Fault == faults < MaxFaults /\ faults' = faults + 1
-----------------------------------------------------------------------------
(* The chain *)

(* A job takes a new status; the agent's node may show it later.           *)
Becomes(j, status) ==
    /\ job' = [job EXCEPT ![j] = status]
    /\ \/ node' = [node EXCEPT ![j] = status]
       \/ Lag /\ node' = node

(* The buyer creates the job, funds it, and takes the money back when the  *)
(* deadline has passed without a deliverable.                              *)
BuyerActs(j) ==
    /\ \/ job[j] = "absent" /\ Becomes(j, "open")
       \/ job[j] = "open"   /\ Becomes(j, "funded")
       \/ job[j] = "funded" /\ Becomes(j, "expired")
    /\ UNCHANGED <<pool, able, agent, faults, history>>

CatchesUp(j) ==
    /\ node[j] # job[j]
    /\ node' = [node EXCEPT ![j] = job[j]]
    /\ UNCHANGED <<job, pool, able, agent, faults, history>>

(* submit takes effect on a funded job and reverts on any other. *)
Lands(j) ==
    IF job[j] = "funded" THEN Becomes(j, "submitted") ELSE UNCHANGED <<job, node>>

(* A submit nobody waits for is mined, or dropped by the network. *)
PoolDrains(j) ==
    /\ j \in pool
    /\ pool' = pool \ {j}
    /\ Lands(j) \/ UNCHANGED <<job, node>>
    /\ UNCHANGED <<able, agent, faults, history>>

(* Faulty variant: a job that does not show as funded yet is refused.      *)
VerdictsAtOnce(j) == IF node[j] = "funded" /\ j \notin Bad THEN {"yes"} ELSE {"no"}

(* verify_signed_job: "no" is permanent, "retry" is not.  A job beyond the *)
(* job counter is refused for good, unless the counter cannot be read; an  *)
(* expired one while it still counts as funded.                            *)
Verdicts(j) ==
    CASE node[j] = "funded"                -> IF j \in Bad THEN {"no"} ELSE {"yes"}
      [] node[j] \in {"absent", "expired"} -> {"no", "retry"}
      [] OTHER                             -> {"retry"}
-----------------------------------------------------------------------------
(* Background tasks *)

Live(r) == run[r].awaited

(* Faulty variant: the jobs in flight are not left out. *)
NewAmongAll(js) == js
NewAmong(js) == js \ inflight

(* _spawn_job for every job of js without an await between them: those in  *)
(* flight are left out, each other gets a task that starts at `stage`.     *)
Spawn(js, stage) ==
    /\ inflight' = inflight \cup js
    /\ \E hired \in [Runners -> NewAmong(js) \cup {NoJob}] :
          /\ \A r \in Runners : hired[r] # NoJob => run[r] = NoRun
          /\ \A j \in NewAmong(js) : \E r \in Runners :
                \A q \in Runners : hired[q] = j <=> q = r
          /\ run' = [r \in Runners |->
                        IF hired[r] = NoJob THEN run[r]
                        ELSE [stage |-> stage, job |-> hired[r], awaited |-> TRUE]]

(* Faulty variant: a delivered job gives its slot back. *)
FinishAndForget(r, terminal) ==
    /\ run' = [run EXCEPT ![r] = NoRun]
    /\ inflight' = IF Live(r) THEN inflight \ {run[r].job} ELSE inflight

(* Faulty variant: the task stays on record. *)
FinishInPlace(r, terminal) ==
    /\ run' = [run EXCEPT ![r].stage = "none"]
    /\ inflight' = IF Live(r) /\ ~terminal THEN inflight \ {run[r].job} ELSE inflight

(* The end of _run_job.  A terminal outcome keeps the job in _inflight.    *)
(* The outcome of an abandoned submit reaches nobody.                      *)
Finish(r, terminal) ==
    /\ run' = [run EXCEPT ![r] = NoRun]
    /\ inflight' = IF Live(r) /\ ~terminal THEN inflight \ {run[r].job} ELSE inflight

GoesOn(r, stage) ==
    /\ run' = [run EXCEPT ![r].stage = stage]
    /\ UNCHANGED <<inflight, history>>

Delivered(r) ==
    /\ Finish(r, TRUE)
    /\ delivered' = IF Live(r) THEN delivered \cup {run[r].job} ELSE delivered
    /\ UNCHANGED skipped

(* A permanent refusal: skip. *)
Skipped(r) ==
    /\ Finish(r, TRUE)
    /\ skipped' = IF Live(r) THEN skipped \cup {run[r].job} ELSE skipped
    /\ UNCHANGED delivered

Retried(r) == Finish(r, FALSE) /\ UNCHANGED history

(* _fulfill_job: a job that was not verified before is verified here. *)
Verify(r) ==
    /\ run[r].stage = "verify"
    /\ \/ "yes" \in Verdicts(run[r].job) /\ GoesOn(r, "work")
       \/ "no" \in Verdicts(run[r].job) /\ Skipped(r)
       \/ "retry" \in Verdicts(run[r].job) /\ Retried(r)
    /\ UNCHANGED <<chain, call, scan, faults>>

(* job_spec and the language model. *)
Work(r) ==
    /\ run[r].stage = "work"
    /\ GoesOn(r, "submit")
    /\ UNCHANGED <<chain, call, scan, faults>>

(* submit_workflow verifies the job once more, uploads and broadcasts.     *)
Submit(r) ==
    /\ run[r].stage = "submit"
    /\ \/ ~able /\ Skipped(r)
       \/ able /\ node[run[r].job] = "funded" /\ GoesOn(r, "sent")
       \/ able /\ node[run[r].job] # "funded" /\ Retried(r)
    /\ UNCHANGED <<chain, call, scan, faults>>

(* submit_result returns when the submit landed and raises when it did not.*)
SubmitMined(r) ==
    /\ run[r].stage = "sent"
    /\ Lands(run[r].job)
    /\ IF job[run[r].job] = "funded" THEN Delivered(r) ELSE Retried(r)
    /\ UNCHANGED <<pool, able, call, scan, faults>>

LeftInPool(r) ==
    pool' = IF run[r].stage = "sent" THEN pool \cup {run[r].job} ELSE pool

(* A read, the model, the upload or the wait for the receipt raises. *)
RunFails(r) ==
    /\ run[r] # NoRun
    /\ Fault
    /\ LeftInPool(r)
    /\ Retried(r)
    /\ UNCHANGED <<job, node, able, call, scan>>

(* Faulty variant: a timeout keeps the slot. *)
TimesOutHoldingOn(r) ==
    /\ Live(r)
    /\ Fault
    /\ run' = [run EXCEPT ![r] =
                  IF @.stage \in {"submit", "sent"} THEN [@ EXCEPT !.awaited = FALSE]
                  ELSE NoRun]
    /\ UNCHANGED <<chain, call, scan, inflight, history>>

(* wait_for gives up on the delivery and frees its slot.  The thread in    *)
(* submit_result goes on by itself; of the other threads nothing is left   *)
(* that anybody could see.                                                 *)
RunTimesOut(r) ==
    /\ Live(r)
    /\ Fault
    /\ inflight' = inflight \ {run[r].job}
    /\ run' = [run EXCEPT ![r] =
                  IF @.stage \in {"submit", "sent"} THEN [@ EXCEPT !.awaited = FALSE]
                  ELSE NoRun]
    /\ UNCHANGED <<chain, call, scan, history>>

Delivery(r) == Verify(r) \/ Work(r) \/ Submit(r) \/ SubmitMined(r)
-----------------------------------------------------------------------------
(* notify_funded *)

Answer(c, ack) == call' = [call EXCEPT ![c].stage = ack]

StartScan(s) ==
    /\ scan[s] = NoScan
    /\ scan' = [scan EXCEPT ![s].stage = "scanning"]

Notify(c, j, who) ==
    /\ call[c] = NoCall
    /\ call' = [call EXCEPT ![c] = [stage |-> "verify", job |-> j, caller |-> who]]
    /\ UNCHANGED <<chain, scan, run, inflight, faults, history>>

(* No job id: only scan for stragglers. *)
NotifyBare(c, who) ==
    /\ call[c] = NoCall
    /\ \E s \in Scans : StartScan(s)
    /\ call' = [call EXCEPT ![c] = [stage |-> "accepted", job |-> NoJob, caller |-> who]]
    /\ UNCHANGED <<chain, run, inflight, faults, history>>

(* The pre-verification reads the chain in a thread. *)
PreVerify(c) ==
    /\ call[c].stage = "verify"
    /\ \/ "yes" \in Verdicts(call[c].job) /\ Answer(c, "verified")
       \/ "no" \in Verdicts(call[c].job) /\ Answer(c, "rejected")
       \/ "retry" \in Verdicts(call[c].job) /\ Answer(c, "unverified")
    /\ UNCHANGED <<chain, scan, run, inflight, faults, history>>

(* It raises or times out: accepted, to be verified in the background. *)
PreVerifyFails(c) ==
    /\ call[c].stage = "verify"
    /\ Fault
    /\ Answer(c, "unverified")
    /\ UNCHANGED <<chain, scan, run, inflight, history>>

(* The coroutine goes on after its await: delivery and sweep are spawned.  *)
Accept(c) ==
    /\ call[c].stage \in {"verified", "unverified"}
    /\ Spawn({call[c].job}, IF call[c].stage = "verified" THEN "work" ELSE "verify")
    /\ \E s \in Scans : StartScan(s)
    /\ Answer(c, "accepted")
    /\ UNCHANGED <<chain, faults, history>>

(* The caller takes the answer. *)
Reply(c) ==
    /\ call[c].stage \in {"accepted", "rejected"}
    /\ call' = [call EXCEPT ![c] = NoCall]
    /\ UNCHANGED <<chain, scan, run, inflight, faults, history>>
-----------------------------------------------------------------------------
(* _sweep *)

(* get_pending_jobs: what the node shows as funded. *)
ScanReads(s) ==
    /\ scan[s].stage = "scanning"
    /\ scan' = [scan EXCEPT ![s] =
                   [stage |-> "read", found |-> {j \in Jobs : node[j] = "funded"}]]
    /\ UNCHANGED <<chain, call, run, inflight, faults, history>>

ScanFails(s) ==
    /\ scan[s].stage = "scanning"
    /\ Fault
    /\ scan' = [scan EXCEPT ![s] = NoScan]
    /\ UNCHANGED <<chain, call, run, inflight, history>>

ScanSpawns(s) ==
    /\ scan[s].stage = "read"
    /\ Spawn(scan[s].found, "verify")
    /\ scan' = [scan EXCEPT ![s] = NoScan]
    /\ UNCHANGED <<chain, call, faults, history>>

(* The agent restarts: what was broadcast stays broadcast, all else is gone. *)
Restart ==
    /\ Fault
    /\ pool' = pool \cup {run[r].job : r \in {q \in Runners : run[q].stage = "sent"}}
    /\ call' = [c \in Calls |-> NoCall]
    /\ scan' = [s \in Scans |-> NoScan]
    /\ run' = [r \in Runners |-> NoRun]
    /\ inflight' = {}
    /\ delivered' = {}
    /\ skipped' = {}
    /\ UNCHANGED <<job, node, able>>
-----------------------------------------------------------------------------
Network == \E j \in Jobs : BuyerActs(j) \/ CatchesUp(j) \/ PoolDrains(j)

Background ==
    \/ \E r \in Runners : Delivery(r) \/ RunFails(r) \/ RunTimesOut(r)
    \/ \E c \in Calls : PreVerify(c) \/ PreVerifyFails(c) \/ Accept(c)
    \/ \E s \in Scans : ScanReads(s) \/ ScanFails(s) \/ ScanSpawns(s)
    \/ Restart

Clients ==
    \E c \in Calls :
        \/ \E who \in Callers : NotifyBare(c, who) \/ \E j \in Jobs : Notify(c, j, who)
        \/ Reply(c)

Next == Network \/ Background \/ Clients

Spec == Init /\ [][Next]_vars
-----------------------------------------------------------------------------
RunStages  == {"verify", "work", "submit", "sent"}
CallStages == {"verify", "verified", "unverified", "accepted", "rejected"}

TypeOK ==
    /\ job \in [Jobs -> Status] /\ node \in [Jobs -> Status]
    /\ pool \subseteq Jobs
    /\ able \in BOOLEAN
    /\ call \in [Calls -> {NoCall} \cup
                     [stage : CallStages, job : Jobs, caller : Callers] \cup
                     [stage : {"accepted"}, job : {NoJob}, caller : Callers]]
    /\ scan \in [Scans -> {NoScan} \cup [stage : {"scanning", "read"}, found : SUBSET Jobs]]
    /\ run \in [Runners -> {NoRun} \cup
                     [stage : RunStages, job : Jobs, awaited : BOOLEAN]]
    /\ inflight \subseteq Jobs
    /\ faults \in 0 .. MaxFaults
    /\ delivered \subseteq Jobs /\ skipped \subseteq Jobs

(* _spawn_job: "a concurrent notify + sweep can never double-deliver the   *)
(* same job".  However notifications, sweeps, failures, timeouts and       *)
(* restarts interleave, no job has two deliveries, and none that was       *)
(* settled in this life of the process is taken up again.                  *)
OneDeliveryPerJob ==
    \A r \in Runners : Live(r) =>
        /\ run[r].job \notin delivered \cup skipped
        /\ \A q \in Runners : Live(q) /\ run[q].job = run[r].job => q = r

(* _inflight: a slot is held by exactly the jobs that are being delivered  *)
(* or are settled, so no failure or timeout locks a job out of its retry.  *)
SlotsAreGivenBack ==
    inflight = {run[r].job : r \in {q \in Runners : Live(q)}} \cup delivered \cup skipped

(* verify_signed_job: `permanent` marks "a job to skip-forever", and it is *)
(* made of what one node shows at one moment.  However far that node is    *)
(* behind, every job given up on is one that nothing can bring to a        *)
(* delivery any more: it fails verification, its deadline has passed, or   *)
(* the wallet cannot submit.  The jobs that did not exist when the agent   *)
(* started are the exception: the node may not know them yet.              *)
OnlyHopelessJobsAreSkipped ==
    \A j \in skipped : j \in Bad \cup Early \/ job[j] = "expired" \/ ~able
=============================================================================
