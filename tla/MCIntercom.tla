---------------------------- MODULE MCIntercom ----------------------------
(* Model-checking instance of Intercom: one connection, whose constants    *)
(* the .cfg files give.                                                    *)
EXTENDS Intercom
=============================================================================
