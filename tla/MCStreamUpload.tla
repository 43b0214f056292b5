--------------------------- MODULE MCStreamUpload ---------------------------
(***************************************************************************)
(* StreamUpload on small instances.                                        *)
(***************************************************************************)
EXTENDS StreamUpload
=============================================================================
