------------------------ MODULE MCPortableActivation ------------------------
(* Two imports, the second of which does not validate. *)
EXTENDS PortableActivation
=============================================================================
