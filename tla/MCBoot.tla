------------------------------- MODULE MCBoot -------------------------------
(* Small sets for Boot. *)
EXTENDS Boot

MCServers == {"s1", "s2"}
OneServer == {"s1"}
MCOptions == {"router"}
\* With and without the option and the server's address.
MCCarried == {{}, {ServerId, "router"}}
WithServerId == {{ServerId}}
MCNear == {"near"}
MCFar == {"far"}
MCMacs == {"m1", "m2"}
=============================================================================
