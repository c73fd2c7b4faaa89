--------------------------- MODULE MCDescriptors ---------------------------
(***************************************************************************)
(* A small descriptor table: room for the whole sensor, for one scheduler  *)
(* and for the losses of a few episodes.                                   *)
(***************************************************************************)
EXTENDS Descriptors

=============================================================================
