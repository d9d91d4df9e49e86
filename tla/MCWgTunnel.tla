----------------------------- MODULE MCWgTunnel -----------------------------
(* One user's coroutine and the monitor's; two or three requests in all.    *)
EXTENDS WgTunnel
=============================================================================
