------------------------ MODULE MCSomoimRegistration ------------------------
(* Registration on small instances: one meetup, one queue handler, and one *)
(* or two host requests at a time.                                         *)
EXTENDS SomoimRegistration

CONSTANTS m1, k1, h1, r1, r2
MCHandlers == {h1}
MCMeetups == {m1}
MCKeys == {k1}
MCKeyOf == [m \in {m1} |-> k1]
MCOneRequest == {r1}
MCTwoRequests == {r1, r2}
=============================================================================
