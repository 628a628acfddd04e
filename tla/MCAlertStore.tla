------------------------------ MODULE MCAlertStore ------------------------------
\* Model checking the alert documents.
EXTENDS AlertStore

CONSTANTS MaxReport  \* bound on the alerts of a run

\* A run may have to write the same alert twice.
SomeReports == BoundedSeq(Alerts, MaxReport)
=============================================================================
