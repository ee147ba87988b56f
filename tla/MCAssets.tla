----------------------------- MODULE MCAssets -----------------------------
EXTENDS Assets
=============================================================================
