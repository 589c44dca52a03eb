------------------------------ MODULE MCLease ------------------------------
EXTENDS Lease
=============================================================================
