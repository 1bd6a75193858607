------------------------- MODULE MCInstanceLifecycle -------------------------
\* InstanceLifecycle with short waits in the order of the real ones.
EXTENDS InstanceLifecycle

Waits == <<1, 2>>
=============================================================================
