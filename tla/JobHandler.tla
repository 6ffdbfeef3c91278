----------------------------- MODULE JobHandler -----------------------------
(***************************************************************************)
(* What the worker's main loop may expect of runJob, whatever the handler  *)
(* and the tablet do (worker/job-runner.js, worker/errors.js).  A dry run  *)
(* never marks and never presses; the irreversible button is pressed at    *)
(* most once, and only after the mark; "complete" is reported of a dry run *)
(* that did not press or of a submit that did; and another attempt is      *)
(* asked for only while nothing has been pressed.                          *)
(***************************************************************************)
VARIABLES phase,   \* "idle", "working", "marked" or "pressed"
          submit,  \* the mode of the job is submit, not dryRun
          report   \* the outcome of the last job, or "none" while one runs

handlerContractVars == <<phase, submit, report>>

Report == {"none", "complete", "retry", "manual"}

HandlerInit == phase = "idle" /\ submit \in BOOLEAN /\ report \in Report

Begin ==
    /\ phase = "idle"
    /\ phase' = "working" /\ submit' \in BOOLEAN /\ report' = "none"

Mark ==
    /\ phase = "working" /\ submit
    /\ phase' = "marked"
    /\ UNCHANGED <<submit, report>>

Press ==
    /\ phase = "marked"
    /\ phase' = "pressed"
    /\ UNCHANGED <<submit, report>>

MayReport(r) ==
    \/ r = "manual"
    \/ r = "retry" /\ phase = "working"
    \/ r = "complete" /\ phase = IF submit THEN "pressed" ELSE "working"

End ==
    /\ phase # "idle"
    /\ \E r \in Report : MayReport(r) /\ report' = r
    /\ phase' = "idle"
    /\ UNCHANGED submit

HandlerNext == Begin \/ Mark \/ Press \/ End

HandlerSpec == HandlerInit /\ [][HandlerNext]_handlerContractVars
=============================================================================
