------------------------------- MODULE MCLink -------------------------------
(* Model-checking instance of Link.  The buffer's sizes are 1, 2, 3, 4, so  *)
(* that it doubles and then grows by a step.                                *)
EXTENDS Link

\* The empty frame, and one that makes the buffer grow.
TwoLens == {1, 3}
\* Every allocation may fail, but that of realloc_buffer.
OtherSites == {"start_new_frame", "new_frame", "enqueue_frame"}
ReallocSite == {"realloc_buffer"}
NewFrameSite == {"new_frame"}
=============================================================================
