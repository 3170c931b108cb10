------------------------------ MODULE MCMovie -------------------------------
(* The instance of Movie that TLC checks; values in MCMovie.cfg.           *)
EXTENDS Movie
=============================================================================
