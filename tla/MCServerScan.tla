---------------------------- MODULE MCServerScan ----------------------------
(* The instance of ServerScan that TLC checks: two clients, a server of the   *)
(* system in each stack, known to one source only, and a server that is none. *)
EXTENDS ServerScan, TLC

CONSTANTS own4, own6, other6

Interfaces == <<4, 6>>

Stacks == own4 :> 4 @@ own6 :> 6 @@ other6 :> 6

=============================================================================
