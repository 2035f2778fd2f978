------------------------- MODULE MCSipRegistration -------------------------
(* Model-checking instance of SipRegistration: the .cfg files give the     *)
(* constants.                                                              *)
EXTENDS SipRegistration
=============================================================================
