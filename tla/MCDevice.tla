------------------------------ MODULE MCDevice ------------------------------
EXTENDS Device
CONSTANTS tablet, phone, h1, h2
=============================================================================
