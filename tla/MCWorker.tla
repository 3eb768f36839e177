------------------------------ MODULE MCWorker ------------------------------
(* The TLC instance of Worker.  Fewer descriptors than connections, so that *)
(* a closed descriptor is handed out again while other workers still run.   *)
EXTENDS Worker
=============================================================================
