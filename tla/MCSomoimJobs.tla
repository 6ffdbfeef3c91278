---------------------------- MODULE MCSomoimJobs ----------------------------
(* The queue on a small instance: one job with three attempts and two      *)
(* handlers of the API, so that a late answer meets a requeued job.        *)
EXTENDS SomoimJobs

CONSTANTS h1, h2
MCHandlers == {h1, h2}
=============================================================================
