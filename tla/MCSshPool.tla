------------------------------- MODULE MCSshPool -------------------------------
(* A scheduled pull of a server, its log stream and an API request share one   *)
(* target.                                                                    *)
EXTENDS SshPool

CONSTANTS pull, stream, request

MCCallers == {pull, stream, request}
=============================================================================
