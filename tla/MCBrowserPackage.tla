-------------------------- MODULE MCBrowserPackage --------------------------
(* The TLC instance of BrowserPackage: no connections.                      *)
EXTENDS BrowserPackage

NoRemote == [c \in Conns |-> c]

=============================================================================
