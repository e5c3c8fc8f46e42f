-------------------------------- MODULE Watch --------------------------------
(***************************************************************************)
(* app/service/sweep.py: the service scans the chain for funded jobs and   *)
(* notifies the agent (Seller) of each, from its own loop and from every   *)
(* GET /sweep?dry_run=false.  The sweepers share two dicts, without a lock.*)
(*                                                                         *)
(* Time: a job is in `recent` for RENOTIFY_AFTER_SECONDS, and in `beyond`  *)
(* once a scan passes it over: too little time left, a budget below the    *)
(* list price, or SCAN_DEPTH newer jobs.                                   *)
(***************************************************************************)
EXTENDS Seller

CONSTANTS
    Loop,      \* the service's own loop
    Requests,  \* GET /sweep?dry_run=false
    Buyer      \* whoever else notifies

Sweepers == {Loop} \cup Requests

ASSUME CallersAreKnown ==
    Buyer \notin Sweepers /\ Callers = Sweepers \cup {Buyer} /\ NoJob \notin Callers

VARIABLES
    sweeper,   \* where each sweeper is: the jobs to visit, the push under way
    recent,    \* _last_notified: the jobs notified lately
    rejected,  \* _rejected: the jobs the agent refused
    beyond     \* jobs that no scan looks at any more

service   == <<sweeper, recent, rejected>>
watchVars == <<vars, service, beyond>>

Resting == [stage |-> "rest", todo |-> {}, job |-> NoJob]

WatchInit ==
    /\ Init
    /\ sweeper = [s \in Sweepers |-> Resting]
    /\ recent = {}
    /\ rejected = {}
    /\ beyond = {}
-----------------------------------------------------------------------------
(* sweep_once: one scan of the chain. *)
SweepScans(s) ==
    /\ sweeper[s] = Resting
    /\ sweeper' = [sweeper EXCEPT
           ![s] = [@ EXCEPT !.stage = "visit",
                            !.todo = {j \in Jobs \ beyond : job[j] = "funded"}]]
    /\ UNCHANGED <<vars, recent, rejected, beyond>>

(* A job is due unless refused for good or notified lately. *)
Due(j) == j \notin rejected /\ j \notin recent

Passes(s) ==
    /\ sweeper[s].stage = "visit"
    /\ \E j \in sweeper[s].todo :
          /\ ~Due(j)
          /\ sweeper' = [sweeper EXCEPT ![s].todo = @ \ {j}]
    /\ UNCHANGED <<vars, recent, rejected, beyond>>

(* _notify: the sweeper waits for the agent's answer. *)
Pushes(s) ==
    /\ sweeper[s].stage = "visit"
    /\ \E j \in sweeper[s].todo, c \in Calls :
          /\ Due(j)
          /\ Notify(c, j, s)
          /\ sweeper' = [sweeper EXCEPT ![s] = [stage |-> "push", todo |-> @.todo \ {j},
                                                job |-> j]]
    /\ UNCHANGED <<recent, rejected, beyond>>

(* Faulty variant: the push stays on record. *)
VisitsStill(s) == sweeper' = [sweeper EXCEPT ![s].stage = "visit"]
Visits(s) == sweeper' = [sweeper EXCEPT ![s] = [@ EXCEPT !.stage = "visit", !.job = NoJob]]

(* Only a call that was answered is stamped; a refusal is remembered. *)
Acked(s) ==
    /\ sweeper[s].stage = "push"
    /\ \E c \in Calls :
          /\ call[c].caller = s
          /\ Reply(c)
          /\ rejected' = IF call[c].stage = "rejected" THEN rejected \cup {sweeper[s].job}
                         ELSE rejected
    /\ recent' = recent \cup {sweeper[s].job}
    /\ Visits(s)
    /\ UNCHANGED beyond

(* The agent went away with the call, or the answer does not come in 60 s. *)
(* The handler goes on without its caller.                                 *)
PushFails(s) ==
    /\ sweeper[s].stage = "push"
    /\ \/ /\ \A c \in Calls : call[c].caller # s
          /\ UNCHANGED <<call, faults>>
       \/ /\ Fault
          /\ \E c \in Calls :
                /\ call[c].caller = s
                /\ call' = [call EXCEPT ![c].caller = Buyer]
    /\ Visits(s)
    /\ UNCHANGED <<chain, scan, run, inflight, history, recent, rejected, beyond>>

SweepEnds(s) ==
    /\ sweeper[s].stage = "visit" /\ sweeper[s].todo = {}
    /\ sweeper' = [sweeper EXCEPT ![s] = Resting]
    /\ UNCHANGED <<vars, recent, rejected, beyond>>

Sweep(s) == SweepScans(s) \/ Passes(s) \/ Pushes(s) \/ Acked(s) \/ PushFails(s) \/ SweepEnds(s)

(* Time passes: a notification is no longer recent, a job gets out of reach.*)
Elapses(j) ==
    /\ j \in recent
    /\ recent' = recent \ {j}
    /\ UNCHANGED <<vars, sweeper, rejected, beyond>>

GetsBeyond(j) ==
    /\ beyond' = beyond \cup {j}
    /\ beyond' # beyond
    /\ UNCHANGED <<vars, service>>

(* The service restarts: both dicts are memory only. *)
ServiceRestarts ==
    /\ Fault
    /\ sweeper' = [s \in Sweepers |-> Resting]
    /\ recent' = {}
    /\ rejected' = {}
    /\ call' = [c \in Calls |-> IF call[c].caller \in Sweepers
                                THEN [call[c] EXCEPT !.caller = Buyer] ELSE call[c]]
    /\ UNCHANGED <<chain, scan, run, inflight, history, beyond>>

(* Seller's steps, the buyers' calls among them. *)
BuyerCalls ==
    \E c \in Calls :
        \/ NotifyBare(c, Buyer)
        \/ \E j \in Jobs : Notify(c, j, Buyer)
        \/ call[c].caller = Buyer /\ Reply(c)

WatchNext ==
    \/ (Network \/ Background \/ BuyerCalls) /\ UNCHANGED <<service, beyond>>
    \/ \E s \in Sweepers : Sweep(s)
    \/ \E j \in Jobs : Elapses(j) \/ GetsBeyond(j)
    \/ ServiceRestarts

WatchSpec == WatchInit /\ [][WatchNext]_watchVars

(* Everything the agent or the service has begun goes on, the loop sweeps  *)
(* again after every interval, time passes, and the agent's node catches   *)
(* up.  Buyers, faults and what the network does have no fairness; that    *)
(* faults are finitely many is MaxFaults.                                  *)
Fairness ==
    /\ \A r \in Runners : WF_watchVars(Delivery(r) /\ UNCHANGED <<service, beyond>>)
    /\ \A c \in Calls :
          WF_watchVars((PreVerify(c) \/ Accept(c) \/ (call[c].caller = Buyer /\ Reply(c)))
                          /\ UNCHANGED <<service, beyond>>)
    /\ \A s \in Scans : WF_watchVars((ScanReads(s) \/ ScanSpawns(s))
                                        /\ UNCHANGED <<service, beyond>>)
    /\ WF_watchVars(Sweep(Loop))
    /\ \A s \in Requests : WF_watchVars(sweeper[s] # Resting /\ Sweep(s))
    /\ \A j \in Jobs : WF_watchVars(Elapses(j))
    /\ \A j \in Jobs : WF_watchVars(CatchesUp(j) /\ UNCHANGED <<service, beyond>>)

FairWatchSpec == WatchSpec /\ Fairness
-----------------------------------------------------------------------------
WatchTypeOK ==
    /\ TypeOK
    /\ sweeper \in [Sweepers ->
           [stage : {"rest", "visit"}, todo : SUBSET Jobs, job : {NoJob}] \cup
           [stage : {"push"}, todo : SUBSET Jobs, job : Jobs]]
    /\ recent \subseteq Jobs /\ rejected \subseteq Jobs /\ beyond \subseteq Jobs

(* sweep.py: "escrowed money, work never done" is what the sweep is there  *)
(* to prevent.  A good job that is funded and within its reach does not    *)
(* stay funded for ever, even if its buyer never notifies, whatever        *)
(* finitely many failures, timeouts and restarts there are.                *)
FundedJobsAreServed ==
    \A j \in Jobs \ Bad :
        (able /\ job[j] = "funded") ~> (job[j] # "funded" \/ j \in beyond)

(* _rejected: "notify_funded only answers rejected when the verdict is     *)
(* permanent, so re-notifying can never change the answer".                *)
RefusalsStand == \A j \in rejected : job[j] = "funded" => j \in Bad
=============================================================================
