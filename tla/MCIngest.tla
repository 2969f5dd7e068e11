------------------------------ MODULE MCIngest ------------------------------
(***************************************************************************)
(* Small instances of Ingest for TLC.                                      *)
(***************************************************************************)
EXTENDS Ingest, TLC

CONSTANTS e1, e2, hook1

\* Two events of two providers; the GitHub event is the only one of its hook.
MCEvents == {e1, e2}
MCMixed == (e1 :> "Github") @@ (e2 :> "Stripe")

\* Two events of GitHub, delivered by the same hook.
MCGithub == [e \in MCEvents |-> "Github"]
MCOneHook == [e \in MCEvents |-> hook1]

=============================================================================
