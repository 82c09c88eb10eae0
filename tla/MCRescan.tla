------------------------------ MODULE MCRescan ------------------------------
EXTENDS Rescan
=============================================================================
