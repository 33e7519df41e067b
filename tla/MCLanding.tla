----------------------------- MODULE MCLanding -----------------------------
\* Landing on small instances, one per configuration file.
EXTENDS Landing
=============================================================================
