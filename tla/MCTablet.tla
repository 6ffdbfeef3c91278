------------------------------ MODULE MCTablet ------------------------------
EXTENDS Tablet
CONSTANTS m1, m2, t1
MCTitleOf == [m \in Meetups |-> t1]
=============================================================================
