----------------------------- MODULE MCAuthFlow -----------------------------
(***************************************************************************)
(* Instances of AuthFlow: Ann signs in, Cat's drive can be connected to    *)
(* hers.                                                                   *)
(***************************************************************************)
EXTENDS AuthFlow, TLC

CONSTANTS Ann, Cat, c1, c2

\* Every account is used with one client.
OneEach == (Ann :> {c1}) @@ (Cat :> {c1})

\* Ann changes to a second Google Cloud project.
AnnSwitches == (Ann :> {c1, c2}) @@ (Cat :> {c1})
=============================================================================
