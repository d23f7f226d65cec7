----------------------------- MODULE MCJobContext -----------------------------
(* Small instances of JobContext for TLC; the calls are model values.        *)
EXTENDS JobContext
CONSTANTS u1, u2
=============================================================================
