--------------------------- MODULE SubmitContract ---------------------------
(***************************************************************************)
(* What the job queue promises about the irreversible part of a job: the   *)
(* button that creates (or deletes) an event in the Somoim app is pressed  *)
(* at most once for each job, and a reported outcome is never revised      *)
(* (SOMOIM_AUTOMATION.md, "Submit attempt" and "State transitions").       *)
(* It says nothing of claims, retries, requests or the worker.             *)
(***************************************************************************)
EXTENDS Naturals

CONSTANTS Job        \* identifiers of the rows of somoim_automation_jobs

VARIABLES outcome,   \* [Job -> "none" | "open" | one of Final]
          presses    \* [Job -> Nat]: how often the button was pressed

contractVars == <<outcome, presses>>

Final == {"succeeded", "failed", "needs_manual_review"}

ContractInit ==
    /\ outcome = [j \in Job |-> "none"]
    /\ presses = [j \in Job |-> 0]

Open(j) ==
    /\ outcome[j] = "none"
    /\ outcome' = [outcome EXCEPT ![j] = "open"]
    /\ UNCHANGED presses

\* The press may come after the queue has given the job up: only the worker
\* knows that it is about to press, and nothing can call it back.
Press(j) ==
    /\ outcome[j] # "none"
    /\ presses[j] = 0
    /\ presses' = [presses EXCEPT ![j] = 1]
    /\ UNCHANGED outcome

\* One claim can give up several jobs at once.
Finish(S, o) ==
    /\ \A j \in S : outcome[j] = "open"
    /\ outcome' = [j \in Job |-> IF j \in S THEN o ELSE outcome[j]]
    /\ UNCHANGED presses

ContractNext ==
    \/ \E j \in Job : Open(j) \/ Press(j)
    \/ \E S \in SUBSET Job, o \in Final : Finish(S, o)

ContractSpec == ContractInit /\ [][ContractNext]_contractVars
=============================================================================
