---------------------------- MODULE MCTokenCache ----------------------------
(* Two callers beside the refresher, in minutes of a short day.             *)
EXTENDS TokenCache
=============================================================================
