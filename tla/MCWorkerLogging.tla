-------------------------- MODULE MCWorkerLogging --------------------------
EXTENDS WorkerLogging

\* An error of DLT, and an ordinary record of another logger.
MCKinds == {[dlt |-> TRUE, error |-> TRUE], [dlt |-> FALSE, error |-> FALSE]}

=============================================================================
