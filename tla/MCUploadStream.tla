--------------------------- MODULE MCUploadStream ---------------------------
(* TLC entry point for the upload direction. *)
EXTENDS UploadStream
=============================================================================
