------------------------------ MODULE MCTracer ------------------------------
EXTENDS Tracer
\* The second trace is of the flowfile of the first, or of another.
MCUuids == <<{"f"}, {"f", "g"}>>
=============================================================================
