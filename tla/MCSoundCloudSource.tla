------------------------ MODULE MCSoundCloudSource ------------------------
(* SoundCloudSource on small instances. *)
EXTENDS SoundCloudSource, TLC

CONSTANTS t1, t2, t3, m1, m2, d1, d2, d3, d4
=============================================================================
