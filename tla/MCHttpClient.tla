---------------------------- MODULE MCHttpClient ----------------------------
(* Instances of HttpClient for TLC.                                        *)
EXTENDS HttpClient, TLC

CONSTANTS gateway, direct

\* The client of the gateway, and one built with an explicit limit.
MCConfig == gateway :> [maxRetries |-> Undefined, byFactory |-> TRUE]
         @@ direct :> [maxRetries |-> 2, byFactory |-> FALSE]
=============================================================================
