------------------------------ MODULE Sessions ------------------------------
(***************************************************************************)
(* Sessions of the one configured user: browsers that log in, renew their  *)
(* access token by rotating the refresh token, and log out, against the    *)
(* refresh_tokens table.  Several callers in a browser (pages, the poll,   *)
(* the stream) share its cookies and may renew at the same time.           *)
(*                                                                         *)
(* Sources: internal/auth/{service,refresh_token,cookie,middleware}.go,    *)
(* internal/api/handler/auth.go, migrations/00003, and the callers in      *)
(* frontend/src (lib/utils/auth.ts, routes/(private)/+layout.ts).          *)
(*                                                                         *)
(* Both tokens are signed claims made of the user's email and of times in  *)
(* whole seconds, so a token is the second it was issued in, and two       *)
(* tokens of one second are the same string.                               *)
(***************************************************************************)
EXTENDS Naturals, FiniteSets

CONSTANTS
  Browsers,    \* cookie jars
  Callers,     \* scripts that send requests, at most one each at a time
  Browser,     \* caller -> the browser it runs in
  AccessTTL,   \* in seconds
  RefreshTTL,  \* in seconds
  MaxTime,     \* bound on the clock
  MaxLogins,   \* bound on logins
  MaxFaults,   \* bound: calls that fail
  None         \* no cookie, no token

ASSUME SessionsAssumption ==
  /\ Browser \in [Callers -> Browsers]
  /\ AccessTTL \in Nat /\ RefreshTTL \in Nat
  /\ MaxTime \in Nat /\ MaxLogins \in Nat /\ MaxFaults \in Nat

ASSUME SessionsNone == None \notin Nat

VARIABLES
  now,       \* the clock
  tokens,    \* refresh_tokens
  access,    \* browser -> its access_token cookie
  refresh,   \* browser -> its refresh_token cookie
  pc,        \* caller -> where its request is
  held,      \* caller -> the refresh token its request presents
  issued,    \* caller -> the token its request issues
  faults,    \* faults so far
  logins,    \* history: logins so far
  unpaid,    \* history: rotations whose DELETE found no row
  stamp,     \* history: the last second in which tokens were generated
  collided,  \* history: two pairs of tokens were generated in one second
  hurt       \* history: browsers for which a call has failed

cookies == <<access, refresh>>
requests == <<pc, held, issued>>
minted == <<stamp, collided>>
history == <<logins, unpaid, minted, hurt>>
vars == <<now, tokens, cookies, requests, faults, history>>

Tokens == Nat \cup {None}

Labels == {"idle", "rejected", "checking", "revoking", "deleting", "generating",
           "creating", "answering", "leaving", "clearing"}

TypeOK ==
  /\ now \in Nat
  /\ tokens \subseteq Nat
  /\ access \in [Browsers -> Tokens] /\ refresh \in [Browsers -> Tokens]
  /\ pc \in [Callers -> Labels]
  /\ held \in [Callers -> Tokens] /\ issued \in [Callers -> Tokens]
  /\ \A c \in Callers : issued[c] # None <=> pc[c] \in {"creating", "answering"}
  /\ faults \in Nat /\ logins \in Nat /\ unpaid \in Nat
  /\ stamp \in Tokens /\ collided \in BOOLEAN
  /\ hurt \subseteq Browsers

Init ==
  /\ now = 0
  /\ tokens = {}
  /\ access = [b \in Browsers |-> None] /\ refresh = [b \in Browsers |-> None]
  /\ pc = [c \in Callers |-> "idle"]
  /\ held = [c \in Callers |-> None] /\ issued = [c \in Callers |-> None]
  /\ faults = 0 /\ logins = 0 /\ unpaid = 0
  /\ stamp = None /\ collided = FALSE
  /\ hurt = {}

-----------------------------------------------------------------------------

\* Something fails on the way to or from the database or the browser.
Fault(c) ==
  /\ faults < MaxFaults
  /\ faults' = faults + 1
  /\ hurt' = hurt \cup {Browser[c]}

\* exp has not been reached.
Valid(t, ttl) == t # None /\ now < t + ttl

\* What the middleware and /api/me look at.
Admitted(b) == Valid(access[b], AccessTTL)

Goto(c, label) == pc' = [pc EXCEPT ![c] = label] /\ UNCHANGED <<held, issued>>

\* The handler returns; the cookies of the browser stay as they are.
Return(c) ==
  /\ pc' = [pc EXCEPT ![c] = "idle"]
  /\ held' = [held EXCEPT ![c] = None]
  /\ issued' = [issued EXCEPT ![c] = None]

\* now := time.Now(), and both tokens are generated from it.
Generate(c) ==
  /\ pc' = [pc EXCEPT ![c] = "creating"]
  /\ issued' = [issued EXCEPT ![c] = now]
  /\ held' = [held EXCEPT ![c] = None]
  /\ stamp' = now
  /\ collided' = (collided \/ stamp = now)

\* Login with the right credentials; others are refused without a trace.
Login(c) ==
  /\ pc[c] = "idle"
  /\ logins < MaxLogins
  /\ logins' = logins + 1
  /\ Generate(c)
  /\ UNCHANGED <<now, tokens, cookies, faults, unpaid, hurt>>

\* A caller is answered 401 and is going to renew.
Reject(c) ==
  /\ pc[c] = "idle"
  /\ ~Admitted(Browser[c])
  /\ refresh[Browser[c]] # None
  /\ Goto(c, "rejected")
  /\ UNCHANGED <<now, tokens, cookies, faults, history>>

\* It sends POST /api/refresh with the cookie of this moment, or has none.
Refresh(c) ==
  /\ pc[c] = "rejected"
  /\ IF refresh[Browser[c]] = None
     THEN Return(c)
     ELSE /\ pc' = [pc EXCEPT ![c] = "checking"]
          /\ held' = [held EXCEPT ![c] = refresh[Browser[c]]]
          /\ UNCHANGED issued
  /\ UNCHANGED <<now, tokens, cookies, faults, history>>

\* validateRefreshToken: unknown tokens are refused, expired ones deleted too.
Exists(c) ==
  /\ pc[c] = "checking"
  /\ \/ held[c] \notin tokens /\ Return(c)
     \/ held[c] \in tokens /\ Valid(held[c], RefreshTTL) /\ Goto(c, "deleting")
     \/ held[c] \in tokens /\ ~Valid(held[c], RefreshTTL) /\ Goto(c, "revoking")
  /\ UNCHANGED <<now, tokens, cookies, faults, history>>

\* Any error but ErrTokenNotFound leads to the deletion of the token.
ExistsFails(c) ==
  /\ Fault(c)
  /\ pc[c] = "checking"
  /\ Goto(c, "revoking")
  /\ UNCHANGED <<now, tokens, cookies, logins, unpaid, minted>>

\* The deletion of a token that failed validation; its error is only logged.
Revoke(c) ==
  /\ pc[c] = "revoking"
  /\ tokens' = tokens \ {held[c]}
  /\ Return(c)
  /\ UNCHANGED <<now, cookies, faults, history>>

\* Mutant of Delete: every session of the user ends.
Delete_All(c) ==
  /\ pc[c] = "deleting"
  /\ tokens' = {}
  /\ unpaid' = IF held[c] \in tokens THEN unpaid ELSE unpaid + 1
  /\ Goto(c, "generating")
  /\ UNCHANGED <<now, cookies, faults, logins, minted, hurt>>

\* Mutant of Delete: the old token is left in the table.
Delete_Nothing(c) ==
  /\ pc[c] = "deleting"
  /\ Goto(c, "generating")
  /\ UNCHANGED <<now, tokens, cookies, faults, history>>

\* Mutant of Delete: the new pair is not generated.
Delete_NoPair(c) ==
  /\ pc[c] = "deleting"
  /\ tokens' = tokens \ {held[c]}
  /\ unpaid' = IF held[c] \in tokens THEN unpaid ELSE unpaid + 1
  /\ Goto(c, "creating")
  /\ UNCHANGED <<now, cookies, faults, logins, minted, hurt>>

\* RefreshToken deletes the old token, which need not be there any more.
Delete(c) ==
  /\ pc[c] = "deleting"
  /\ tokens' = tokens \ {held[c]}
  /\ unpaid' = IF held[c] \in tokens THEN unpaid ELSE unpaid + 1
  /\ Goto(c, "generating")
  /\ UNCHANGED <<now, cookies, faults, logins, minted, hurt>>

\* Then it reads the clock and generates the new pair.
NewPair(c) ==
  /\ pc[c] = "generating"
  /\ Generate(c)
  /\ UNCHANGED <<now, tokens, cookies, faults, logins, unpaid, hurt>>

\* Create.  The column is UNIQUE: a second token of one second is an error.
Create(c) ==
  /\ pc[c] = "creating"
  /\ IF issued[c] \in tokens
     THEN Return(c) /\ UNCHANGED tokens
     ELSE /\ tokens' = tokens \cup {issued[c]}
          /\ Goto(c, "answering")
  /\ UNCHANGED <<now, cookies, faults, history>>

\* The browser receives both cookies.
Answer(c) ==
  /\ pc[c] = "answering"
  /\ access' = [access EXCEPT ![Browser[c]] = issued[c]]
  /\ refresh' = [refresh EXCEPT ![Browser[c]] = issued[c]]
  /\ Return(c)
  /\ UNCHANGED <<now, tokens, faults, history>>

Logout(c) ==
  /\ pc[c] = "idle"
  /\ refresh[Browser[c]] # None
  /\ pc' = [pc EXCEPT ![c] = "leaving"]
  /\ held' = [held EXCEPT ![c] = refresh[Browser[c]]]
  /\ UNCHANGED <<now, tokens, cookies, issued, faults, history>>

DeleteRefreshToken(c) ==
  /\ pc[c] = "leaving"
  /\ tokens' = tokens \ {held[c]}
  /\ Goto(c, "clearing")
  /\ UNCHANGED <<now, cookies, faults, history>>

\* The browser receives the two expired cookies.
ClearCookies(c) ==
  /\ pc[c] = "clearing"
  /\ access' = [access EXCEPT ![Browser[c]] = None]
  /\ refresh' = [refresh EXCEPT ![Browser[c]] = None]
  /\ Return(c)
  /\ UNCHANGED <<now, tokens, faults, history>>

\* A statement that fails may have taken effect; an answer may be lost.
CallFails(c) ==
  /\ Fault(c)
  /\ \/ pc[c] \in {"revoking", "deleting", "leaving"}
        /\ tokens' \in {tokens, tokens \ {held[c]}}
     \/ pc[c] = "creating" /\ tokens' \in {tokens, tokens \cup {issued[c]}}
     \/ pc[c] \in {"answering", "clearing"} /\ UNCHANGED tokens
  /\ Return(c)
  /\ UNCHANGED <<now, cookies, logins, unpaid, minted>>

\* The browser drops cookies whose Max-Age, the token's lifetime, has passed.
DropCookies(b) ==
  LET Kept(t, ttl) == IF Valid(t, ttl) THEN t ELSE None IN
  /\ access' = [access EXCEPT ![b] = Kept(@, AccessTTL)]
  /\ refresh' = [refresh EXCEPT ![b] = Kept(@, RefreshTTL)]
  /\ UNCHANGED <<now, tokens, requests, faults, history>>

Tick ==
  /\ now < MaxTime
  /\ now' = now + 1
  /\ UNCHANGED <<tokens, cookies, requests, faults, history>>

RequestStep(c) ==
  \/ Reject(c) \/ Refresh(c) \/ Exists(c) \/ Revoke(c) \/ Delete(c)
  \/ NewPair(c) \/ Create(c) \/ Answer(c) \/ DeleteRefreshToken(c) \/ ClearCookies(c)

Next ==
  \/ \E c \in Callers : RequestStep(c) \/ Login(c) \/ Logout(c)
                        \/ ExistsFails(c) \/ CallFails(c)
  \/ \E b \in Browsers : DropCookies(b)
  \/ Tick

Spec == Init /\ [][Next]_vars

-----------------------------------------------------------------------------

\* However a browser's callers race to renew, and whatever happens to other
\* browsers, the refresh cookie a browser is left with is in the table: only a
\* failing call of its own, or two tokens of one second, costs a session.
SessionKept ==
  ~collided => \A b \in Browsers \ hurt :
    /\ Valid(refresh[b], RefreshTTL)
    /\ \A c \in Callers : Browser[c] = b => pc[c] \in {"idle", "rejected"}
    => refresh[b] \in tokens

\* Rotation deletes before it creates, so that the table grows with the logins
\* and only otherwise with rotations that overtook each other.
RowsAccounted == Cardinality(tokens) <= logins + unpaid

=============================================================================
