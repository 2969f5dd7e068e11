----------------------------- MODULE MCSessions -----------------------------
(***************************************************************************)
(* Sessions for TLC: one browser with two callers and one with a single    *)
(* caller.                                                                 *)
(***************************************************************************)
EXTENDS Sessions, TLC

CONSTANTS b1, b2, page, poll, other

MCBrowsers == {b1, b2}
MCCallers == {page, poll, other}
MCBrowser == (page :> b1) @@ (poll :> b1) @@ (other :> b2)

=============================================================================
