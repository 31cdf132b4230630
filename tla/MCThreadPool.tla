----------------------------- MODULE MCThreadPool -----------------------------
(* ThreadPool on a small instance: the configuration sets its constants.   *)
EXTENDS ThreadPool
===============================================================================
