----------------------------- MODULE MCMembers ------------------------------
EXTENDS Members
CONSTANTS ann, bo, e1, e2, refresh, script
=============================================================================
