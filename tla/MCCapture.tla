----------------------------- MODULE MCCapture -----------------------------
(* A bound for the runs of Capture with a firmware that may do anything.   *)
EXTENDS Capture

\* Two calls with one buffer, or one call with more: fills and calls are
\* the two steps no fairness condition asks for, so leaving some out leaves
\* the others as fair as they were.
FewSteps == calls' <= 1 \/ filled' <= 1
=============================================================================
