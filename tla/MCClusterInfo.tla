--------------------------- MODULE MCClusterInfo ---------------------------
(* ClusterInfo for TLC.  The number of goroutines needs no bound of its own:  *)
(* every one was started by an API that was found.                            *)
EXTENDS ClusterInfo
============================================================================
