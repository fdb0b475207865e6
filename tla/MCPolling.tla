----------------------------- MODULE MCPolling ------------------------------
(***************************************************************************)
(* Four reports, so that both toggles are used twice; three NAKs or two    *)
(* bus timeouts end a poll; three losses, so that polls are given up and a *)
(* report is sent again more than once; two keyboards after the first.     *)
(***************************************************************************)
EXTENDS Polling
=============================================================================
