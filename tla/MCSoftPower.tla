----------------------------- MODULE MCSoftPower -----------------------------
\* Soft power with every time scaled down to a few samples.
EXTENDS SoftPower
=============================================================================
