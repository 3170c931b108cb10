------------------------------ MODULE MCSurface -----------------------------
(* The instance of Surface that TLC checks; values in the .cfg files.      *)
EXTENDS Surface
=============================================================================
