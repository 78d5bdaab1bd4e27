---------------------------- MODULE MCBrowserCore ----------------------------
(* TLC instances of BrowserCore.                                            *)
EXTENDS BrowserCore

CONSTANTS r1

(* All connections are with one identity.                                   *)
OneRemote == [c \in Conns |-> r1]

=============================================================================
