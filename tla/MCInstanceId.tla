---------------------------- MODULE MCInstanceId ----------------------------
EXTENDS InstanceId

\* No VPC id, or any string up to MaxFieldLen.
MCVpcs == BoundedSeq(Chars, MaxFieldLen)
=============================================================================
