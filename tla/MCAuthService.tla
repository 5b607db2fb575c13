--------------------------- MODULE MCAuthService ---------------------------
(* AuthService for TLC: its constants are plain values, given in each .cfg.  *)
EXTENDS AuthService
=============================================================================
