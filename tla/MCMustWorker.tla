--------------------------- MODULE MCMustWorker ---------------------------
(* Model-checking instance of MustWorker: every timeout option enabled so  *)
(* that each timer races every other step, and a task that may exit with    *)
(* success, a plain error, a non-retriable error or a Status error.        *)
EXTENDS MustWorker

MCTaskResults == {"ok", "err", "nonRetriable", "cancelled"}
MCParentCauses == {"ok", "cancelled"}
=============================================================================
