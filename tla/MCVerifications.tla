-------------------------- MODULE MCVerifications --------------------------
(* One user with a few tickets and two requests at a time.                 *)
EXTENDS Verifications

CONSTANTS m1, m2, h1, h2
MCMeetups == {m1, m2}
MCHandlers == {h1, h2}
=============================================================================
