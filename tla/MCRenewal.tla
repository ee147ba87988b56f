----------------------------- MODULE MCRenewal -----------------------------
EXTENDS Renewal
BothNodes == {{1, 2}}
=============================================================================
