------------------------------ MODULE MCBadges ------------------------------
(* One user with a few generations and two requests at a time.             *)
EXTENDS Badges

CONSTANTS h1, h2
MCHandlers == {h1, h2}
=============================================================================
