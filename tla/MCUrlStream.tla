----------------------------- MODULE MCUrlStream ----------------------------
(* The instance of UrlStream that TLC checks; values in MCUrlStream.cfg.   *)
EXTENDS UrlStream
=============================================================================
