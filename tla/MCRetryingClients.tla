-------------------------- MODULE MCRetryingClients ---------------------------
(* Three tasks at one gate; a delay within and one beyond the backoff.    *)
EXTENDS RetryingClients

MCDelays == {3, 5}
===============================================================================
