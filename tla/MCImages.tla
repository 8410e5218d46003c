------------------------------ MODULE MCImages ------------------------------
(* Instance of Images for TLC.  Nothing is symmetric: the two names differ   *)
(* in whether they may be compressed, and one temporary file is enough.      *)
EXTENDS Images

=============================================================================
