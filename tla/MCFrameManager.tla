--------------------------- MODULE MCFrameManager ---------------------------
(* A small instance of FrameManager: a main frame, a frame below it and one  *)
(* request.                                                                 *)
EXTENDS FrameManager
=============================================================================
