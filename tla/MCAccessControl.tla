--------------------------- MODULE MCAccessControl ---------------------------
(* Model checking of AccessControl: the threads are model values.          *)
EXTENDS AccessControl
=============================================================================
