--------------------------- MODULE MCNetworkManager ---------------------------
(* Small instances of NetworkManager: a request and the one it is redirected *)
(* to.                                                                       *)
EXTENDS NetworkManager
===============================================================================
