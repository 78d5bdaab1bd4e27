------------------------- MODULE MCBrowserIdentity -------------------------
(* Instances of BrowserIdentity: one account.                               *)
EXTENDS BrowserIdentity, TLC

CONSTANTS t1, t2, alice, g1, g2, x1, x2, f1, d1, nothing

OneAccount == [k \in {x1, x2, f1} |-> alice]

MCEncodedLen(values) == Cardinality(Entries(values))

(* Two tabs: in the first the user signs in with Ring, in the second one    *)
(* restores and removes the identity; both go online with it.               *)
SignInAndRestore ==
  (t1 :> {"signIn", "cancel", "publish", "disconnect", "reopen"}) @@
  (t2 :> {"restore", "remove", "publish", "destroy"})

(* One tab, destroyed while it signs in again.                              *)
SignInAgain == (t1 :> {"signIn", "publish", "destroy", "reopen"})
=============================================================================
