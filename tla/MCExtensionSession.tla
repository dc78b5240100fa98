------------------------ MODULE MCExtensionSession ------------------------
(* Model checking of ExtensionSession: the bounds are in the .cfg files.   *)
EXTENDS ExtensionSession
=============================================================================
