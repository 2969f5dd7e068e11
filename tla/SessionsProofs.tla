--------------------------- MODULE SessionsProofs ---------------------------
(***************************************************************************)
(* Proofs about sessions, for any number of browsers and of callers in     *)
(* them, and any lifetimes.                                                *)
(***************************************************************************)
EXTENDS Sessions, FiniteSetTheorems, TLAPS

LEMMA TypeInit == Init => TypeOK
<1> SUFFICES ASSUME Init PROVE TypeOK
  OBVIOUS
<1>1. collided \in BOOLEAN
  BY DEF Init
<1>2. \A c \in Callers : issued[c] # None <=> pc[c] \in {"creating", "answering"}
  BY DEF Init
<1> QED BY <1>1, <1>2 DEF Init, TypeOK, Tokens, Labels

\* What a step of one request does to the variables of the requests.
LEMMA Requests ==
  ASSUME TypeOK, NEW c \in Callers, RequestStep(c) \/ Login(c) \/ Logout(c)
                                    \/ ExistsFails(c) \/ CallFails(c)
  PROVE  /\ pc' = [pc EXCEPT ![c] = pc'[c]] /\ pc'[c] \in Labels
         /\ held' = [held EXCEPT ![c] = held'[c]] /\ held'[c] \in Tokens
         /\ issued' = [issued EXCEPT ![c] = issued'[c]] /\ issued'[c] \in Tokens
         /\ issued'[c] # None <=> pc'[c] \in {"creating", "answering"}
<1> USE SessionsAssumption, SessionsNone DEF TypeOK, Labels, Tokens
<1>1. CASE Reject(c) \/ Refresh(c) \/ Exists(c) \/ ExistsFails(c)
  BY <1>1 DEF Reject, Refresh, Exists, ExistsFails, Goto, Return
<1>2. CASE Revoke(c) \/ Delete(c) \/ DeleteRefreshToken(c) \/ ClearCookies(c) \/ Logout(c)
  BY <1>2 DEF Revoke, Delete, DeleteRefreshToken, ClearCookies, Logout, Goto, Return
<1>3. CASE Login(c) \/ NewPair(c)
  BY <1>3 DEF Login, NewPair, Generate
<1>4. CASE Create(c) \/ Answer(c) \/ CallFails(c)
  BY <1>4 DEF Create, Answer, CallFails, Goto, Return
<1> QED BY <1>1, <1>2, <1>3, <1>4 DEF RequestStep

\* The same for the cookies, the table and the counters.
LEMMA Others ==
  ASSUME TypeOK, [Next]_vars
  PROVE  /\ now' \in Nat /\ now' >= now
         /\ tokens' \subseteq Nat
         /\ access' \in [Browsers -> Tokens] /\ refresh' \in [Browsers -> Tokens]
         /\ faults' \in Nat /\ logins' \in Nat /\ unpaid' \in Nat
         /\ stamp' \in Tokens /\ collided' \in BOOLEAN
         /\ hurt' \subseteq Browsers /\ hurt \subseteq hurt'
<1> DEFINE
      Clock == now' \in Nat /\ now' >= now
      Table == tokens' \subseteq Nat
      Cookies == access' \in [Browsers -> Tokens] /\ refresh' \in [Browsers -> Tokens]
      Counts == faults' \in Nat /\ logins' \in Nat /\ unpaid' \in Nat
      Stamps == stamp' \in Tokens /\ collided' \in BOOLEAN
      Hurts == hurt' \subseteq Browsers /\ hurt \subseteq hurt'
      Good == Clock /\ Table /\ Cookies /\ Counts /\ Stamps /\ Hurts
<1> USE SessionsAssumption, SessionsNone DEF TypeOK, Tokens, cookies, requests, minted, history
<1>1. /\ UNCHANGED now => Clock
      /\ UNCHANGED tokens => Table
      /\ UNCHANGED <<access, refresh>> => Cookies
      /\ UNCHANGED <<faults, logins, unpaid>> => Counts
      /\ UNCHANGED hurt => Hurts
  <2>1. UNCHANGED now => Clock
    OBVIOUS
  <2>2. UNCHANGED hurt => Hurts
    OBVIOUS
  <2> QED BY <2>1, <2>2, Zenon
<1>2. UNCHANGED <<stamp, collided>> => Stamps
  BY Zenon
<1>3. ASSUME NEW c \in Callers, Fault(c) PROVE faults' \in Nat /\ Hurts
  BY <1>3 DEF Fault
<1> HIDE DEF Clock, Table, Cookies, Counts, Stamps, Hurts
<1>4. ASSUME NEW c \in Callers, Reject(c) \/ Refresh(c) \/ Exists(c) \/ Logout(c) PROVE Good
  BY <1>4, <1>1, <1>2 DEF Reject, Refresh, Exists, Logout
<1>5. ASSUME NEW c \in Callers, ExistsFails(c) PROVE Good
  BY <1>5, <1>1, <1>2, <1>3 DEF ExistsFails, Counts
<1>6. ASSUME NEW c \in Callers, Revoke(c) \/ Delete(c) \/ DeleteRefreshToken(c) PROVE Good
  <2>1. Table
    BY <1>6 DEF Revoke, Delete, DeleteRefreshToken, Table
  <2>2. Counts
    BY <1>6 DEF Revoke, Delete, DeleteRefreshToken, Counts
  <2> QED BY <1>6, <1>1, <1>2, <2>1, <2>2 DEF Revoke, Delete, DeleteRefreshToken
<1>7. ASSUME NEW c \in Callers, Login(c) \/ NewPair(c) PROVE Good
  <2>1. stamp' = now /\ collided' = (collided \/ stamp = now)
    BY <1>7 DEF Login, NewPair, Generate
  <2>2. Stamps
    <3>1. collided' \in BOOLEAN
      BY <2>1, Zenon
    <3> QED BY <2>1, <3>1 DEF Stamps
  <2> QED BY <1>7, <1>1, <2>2 DEF Login, NewPair, Counts
<1>8. ASSUME NEW c \in Callers, Create(c) PROVE Good
  <2>1. Table
    BY <1>8 DEF Create, Table
  <2> QED BY <1>8, <1>1, <1>2, <2>1 DEF Create
<1>9. ASSUME NEW c \in Callers, Answer(c) \/ ClearCookies(c) PROVE Good
  BY <1>9, <1>1, <1>2 DEF Answer, ClearCookies, Cookies
<1>10. ASSUME NEW c \in Callers, CallFails(c) PROVE Good
  <2>1. Table
    BY <1>10 DEF CallFails, Table
  <2> QED BY <1>10, <1>1, <1>2, <1>3, <2>1 DEF CallFails, Counts
<1>11. ASSUME NEW b \in Browsers, DropCookies(b) PROVE Good
  <2>1. /\ access' = [access EXCEPT ![b] = IF Valid(access[b], AccessTTL) THEN access[b] ELSE None]
        /\ refresh' = [refresh EXCEPT ![b] = IF Valid(refresh[b], RefreshTTL) THEN refresh[b]
                                                                             ELSE None]
    BY <1>11 DEF DropCookies
  <2> QED BY <1>11, <1>1, <1>2, <2>1 DEF DropCookies, Cookies
<1>12. ASSUME Tick PROVE Good
  BY <1>12, <1>1, <1>2 DEF Tick, Clock
<1>13. ASSUME UNCHANGED vars PROVE Good
  BY <1>13, <1>1, <1>2 DEF vars
<1>14. Good
  BY <1>4, <1>5, <1>6, <1>7, <1>8, <1>9, <1>10, <1>11, <1>12, <1>13, Zenon DEF Next, RequestStep
<1> QED BY <1>14, Zenon DEF Clock, Table, Cookies, Counts, Stamps, Hurts

LEMMA TypeNext == TypeOK /\ [Next]_vars => TypeOK'
<1> SUFFICES ASSUME TypeOK, [Next]_vars PROVE TypeOK'
  OBVIOUS
<1> DEFINE
      Good == /\ pc' \in [Callers -> Labels]
              /\ held' \in [Callers -> Tokens] /\ issued' \in [Callers -> Tokens]
              /\ \A c \in Callers : issued'[c] # None <=> pc'[c] \in {"creating", "answering"}
<1>1. ASSUME NEW c \in Callers, RequestStep(c) \/ Login(c) \/ Logout(c)
                                \/ ExistsFails(c) \/ CallFails(c)
      PROVE  Good
  BY <1>1, Requests DEF TypeOK
<1>2. ASSUME UNCHANGED requests PROVE Good
  BY <1>2 DEF requests, TypeOK
<1>3. \/ \E c \in Callers : RequestStep(c) \/ Login(c) \/ Logout(c)
                            \/ ExistsFails(c) \/ CallFails(c)
      \/ UNCHANGED requests
  BY DEF Next, DropCookies, Tick, vars
<1>4. Good
  BY <1>1, <1>2, <1>3, Zenon
<1> QED BY <1>4, Others, Zenon DEF TypeOK

\* Cookies, rows and requests hold what they are meant to hold, and a request
\* carries a pair of tokens exactly between generating and answering it.
THEOREM TypeCorrect == Spec => []TypeOK
  BY TypeInit, TypeNext, PTL DEF Spec

-----------------------------------------------------------------------------

\* t was generated no later than the last pair.
Minted(t) == t # None => stamp # None /\ t <= stamp

\* The clock does not go back, so what is generated is the newest token.
Ages ==
  /\ stamp # None => stamp <= now
  /\ \A t \in tokens : Minted(t)
  /\ \A b \in Browsers : Minted(refresh[b])
  /\ \A c \in Callers : Minted(held[c]) /\ Minted(issued[c])

\* Every token belongs to one browser, and a pair that has not been answered is
\* known to nobody else.
Apart ==
  /\ \A c, d \in Callers : issued[c] # None /\ issued[c] = issued[d] => c = d
  /\ \A c \in Callers : issued[c] # None =>
       /\ \A b \in Browsers : refresh[b] # issued[c]
       /\ \A d \in Callers : held[d] # issued[c]
       /\ issued[c] \in tokens <=> pc[c] = "answering"
  /\ \A a, b \in Browsers : refresh[a] # None /\ refresh[a] = refresh[b] => a = b
  /\ \A c \in Callers, b \in Browsers :
       held[c] # None /\ held[c] = refresh[b] => Browser[c] = b

\* Without a failure, validation only ever revokes a token that has expired.
Expired(c) == pc[c] = "revoking" /\ Browser[c] \notin hurt => ~Valid(held[c], RefreshTTL)

\* A request of the browser is going to replace its cookies, or to clear them.
Renewing(b) ==
  \E c \in Callers : Browser[c] = b /\ pc[c] \in {"generating", "creating", "answering", "clearing"}

\* Whoever takes a browser's token out of the table is going to replace it.
Kept(b) == b \notin hurt /\ Valid(refresh[b], RefreshTTL) => refresh[b] \in tokens \/ Renewing(b)

SessionInv ==
  /\ TypeOK /\ Ages
  /\ \A c \in Callers : Expired(c)
  /\ ~collided => Apart /\ \A b \in Browsers : Kept(b)

LEMMA SessionInit == Init => SessionInv
<1> SUFFICES ASSUME Init PROVE SessionInv
  OBVIOUS
<1>1. TypeOK
  BY TypeInit
<1>2. Ages
  BY DEF Init, Ages, Minted
<1>3. Apart
  BY DEF Init, Apart
<1>4. \A c \in Callers : Expired(c)
  BY DEF Init, Expired
<1>5. \A b \in Browsers : Kept(b)
  BY DEF Init, Kept, Valid
<1> QED BY <1>1, <1>2, <1>3, <1>4, <1>5 DEF SessionInv

LEMMA SessionEnd == SessionInv => SessionKept
<1> SUFFICES ASSUME SessionInv, ~collided, NEW b \in Browsers \ hurt,
                    Valid(refresh[b], RefreshTTL),
                    \A c \in Callers : Browser[c] = b => pc[c] \in {"idle", "rejected"}
             PROVE  refresh[b] \in tokens
  BY DEF SessionKept
<1>1. Kept(b)
  BY DEF SessionInv
<1>2. ~Renewing(b)
  BY DEF Renewing
<1> QED BY <1>1, <1>2 DEF Kept

\* A token that is valid now was valid before.
LEMMA ValidBefore ==
  ASSUME TypeOK, now' \in Nat, now' >= now, NEW t \in Tokens, NEW ttl \in Nat,
         t # None, now' < t + ttl
  PROVE  Valid(t, ttl)
  BY SessionsNone DEF TypeOK, Tokens, Valid

\* A new pair is newer than all tokens there are.
LEMMA GenerateStep ==
  ASSUME SessionInv, TypeOK', NEW c \in Callers, Login(c) \/ NewPair(c)
  PROVE  SessionInv'
<1> USE SessionsAssumption, SessionsNone
<1>1. /\ pc' = [pc EXCEPT ![c] = "creating"] /\ issued' = [issued EXCEPT ![c] = now]
      /\ held' = [held EXCEPT ![c] = None]
      /\ stamp' = now /\ collided' = (collided \/ stamp = now)
      /\ UNCHANGED <<now, tokens, refresh, hurt>>
  BY DEF Login, NewPair, Generate, cookies
<1>2. TypeOK /\ Ages /\ now \in Nat /\ stamp \in Tokens
  BY DEF SessionInv, TypeOK
<1>3. ASSUME NEW t \in Tokens, Minted(t)
      PROVE  /\ t # None => t <= now
             /\ t # None /\ stamp # now => t < now
  BY <1>2, <1>3 DEF Ages, Minted, Tokens
<1>4. Ages'
  BY <1>1, <1>2, <1>3 DEF Ages, Minted, TypeOK, Tokens
<1>5. \A d \in Callers : Expired(d)'
  BY <1>1, <1>2 DEF SessionInv, Expired, Valid, TypeOK
<1>6. ASSUME ~collided' PROVE Apart' /\ \A b \in Browsers : Kept(b)'
  <2>1. Apart /\ ~collided /\ stamp # now
    BY <1>1, <1>6 DEF SessionInv
  <2>2. /\ \A t \in tokens : t # now
        /\ \A b \in Browsers : refresh[b] # now
        /\ \A d \in Callers : held[d] # now /\ issued[d] # now
    <3>1. ASSUME NEW t \in Tokens, Minted(t) PROVE t # now
      BY <2>1, <1>2, <1>3, <3>1 DEF Tokens
    <3> QED BY <3>1, <1>2 DEF Ages, TypeOK, Tokens
  <2>3. pc[c] # "answering"
    BY DEF Login, NewPair
  <2>4. Apart'
    BY <2>1, <2>2, <1>1, <1>2 DEF Apart, TypeOK
  <2>5. ASSUME NEW b \in Browsers PROVE Kept(b)'
    <3>1. Kept(b)
      BY <2>1 DEF SessionInv
    <3>2. Renewing(b) => Renewing(b)'
      BY <1>1, <1>2 DEF Renewing, TypeOK
    <3> QED BY <3>1, <3>2, <1>1 DEF Kept, Valid
  <2> QED BY <2>4, <2>5
<1> QED BY <1>4, <1>5, <1>6 DEF SessionInv

\* A step that only moves a request on.
LEMMA MoveStep ==
  ASSUME SessionInv, TypeOK', NEW c \in Callers,
         Reject(c) \/ Refresh(c) \/ Exists(c) \/ ExistsFails(c) \/ Logout(c)
  PROVE  SessionInv'
<1> USE SessionsAssumption, SessionsNone
<1>1. TypeOK /\ Ages
  BY DEF SessionInv
<1>2. UNCHANGED <<now, tokens, refresh, stamp, collided>> /\ hurt \subseteq hurt'
  BY DEF Reject, Refresh, Exists, ExistsFails, Logout, Fault, cookies, history, minted
<1>3. /\ pc' = [pc EXCEPT ![c] = pc'[c]]
      /\ issued' = issued
      /\ \/ held' = held
         \/ held' = [held EXCEPT ![c] = None]
         \/ held' = [held EXCEPT ![c] = refresh[Browser[c]]]
      /\ pc[c] \in {"idle", "rejected", "checking"}
      /\ pc'[c] \notin {"creating", "answering"}
  BY <1>1 DEF Reject, Refresh, Exists, ExistsFails, Logout, Goto, Return, TypeOK
<1>4. \A d \in Callers : \/ held'[d] \in {held[d], None}
                         \/ held'[d] = refresh[Browser[d]]
  BY <1>1, <1>3 DEF TypeOK
<1>5. Ages'
  BY <1>1, <1>2, <1>3, <1>4 DEF Ages, Minted, TypeOK
<1>6. ASSUME NEW d \in Callers PROVE Expired(d)'
  <2>1. CASE d = c
    <3>1. CASE ExistsFails(c)
      BY <2>1, <3>1 DEF ExistsFails, Fault, Expired
    <3>2. CASE ~ExistsFails(c)
      <4>1. pc'[c] = "revoking" => ~Valid(held[c], RefreshTTL) /\ held' = held
        BY <3>2, <1>1 DEF Reject, Refresh, Exists, Logout, Goto, Return, TypeOK
      <4> QED BY <4>1, <2>1, <1>2 DEF Expired, Valid
    <3> QED BY <3>1, <3>2
  <2>2. CASE d # c
    <3>1. Expired(d) /\ pc'[d] = pc[d] /\ held'[d] = held[d]
      BY <2>2, <1>1, <1>3 DEF SessionInv, TypeOK
    <3> QED BY <3>1, <1>2 DEF Expired, Valid
  <2> QED BY <2>1, <2>2
<1>7. ASSUME ~collided' PROVE Apart' /\ \A b \in Browsers : Kept(b)'
  <2>1. Apart /\ ~collided
    BY <1>2, <1>7 DEF SessionInv
  <2>2. Apart'
    BY <2>1, <1>1, <1>2, <1>3, <1>4 DEF Apart, TypeOK
  <2>3. ASSUME NEW b \in Browsers PROVE Kept(b)'
    <3>1. Kept(b)
      BY <2>1 DEF SessionInv
    <3>2. Renewing(b) => Renewing(b)'
      BY <1>1, <1>3 DEF Renewing, TypeOK
    <3> QED BY <3>1, <3>2, <1>2 DEF Kept, Valid
  <2> QED BY <2>2, <2>3
<1> QED BY <1>5, <1>6, <1>7 DEF SessionInv

\* A token leaves the table.  It is of the caller's own browser, and has expired
\* unless the caller is going to replace or to clear the cookie.
LEMMA RemoveStep ==
  ASSUME SessionInv, TypeOK', NEW c \in Callers,
         Revoke(c) \/ Delete(c) \/ DeleteRefreshToken(c)
  PROVE  SessionInv'
<1> USE SessionsAssumption, SessionsNone
<1>1. TypeOK /\ Ages
  BY DEF SessionInv
<1>2. UNCHANGED <<now, refresh, stamp, collided, hurt>> /\ tokens' = tokens \ {held[c]}
  BY DEF Revoke, Delete, DeleteRefreshToken, cookies, history, minted
<1>3. /\ pc' = [pc EXCEPT ![c] = pc'[c]]
      /\ issued' = issued
      /\ held' = held \/ held' = [held EXCEPT ![c] = None]
      /\ \/ pc[c] = "revoking" /\ pc'[c] = "idle"
         \/ pc'[c] \in {"generating", "clearing"}
      /\ pc[c] \in {"revoking", "deleting", "leaving"}
  BY <1>1 DEF Revoke, Delete, DeleteRefreshToken, Goto, Return, TypeOK
<1>4. \A d \in Callers : held'[d] \in {held[d], None}
  BY <1>1, <1>3 DEF TypeOK
<1>5. Ages'
  BY <1>1, <1>2, <1>3, <1>4 DEF Ages, Minted
<1>6. ASSUME NEW d \in Callers PROVE Expired(d)'
  <2>1. CASE d = c
    BY <2>1, <1>3 DEF Expired
  <2>2. CASE d # c
    <3>1. Expired(d) /\ pc'[d] = pc[d] /\ held'[d] = held[d]
      BY <2>2, <1>1, <1>3 DEF SessionInv, TypeOK
    <3> QED BY <3>1, <1>2 DEF Expired, Valid
  <2> QED BY <2>1, <2>2
<1>7. ASSUME ~collided' PROVE Apart' /\ \A b \in Browsers : Kept(b)'
  <2>1. Apart /\ ~collided
    BY <1>2, <1>7 DEF SessionInv
  <2>2. Apart'
    BY <2>1, <1>1, <1>2, <1>3, <1>4 DEF Apart, TypeOK
  <2>3. ASSUME NEW b \in Browsers PROVE Kept(b)'
    <3>1. Kept(b) /\ Expired(c)
      BY <2>1 DEF SessionInv
    <3>2. Renewing(b) => Renewing(b)'
      BY <1>1, <1>3 DEF Renewing, TypeOK
    <3>3. CASE refresh[b] # held[c]
      BY <3>1, <3>2, <3>3, <1>2 DEF Kept, Valid
    <3>4. CASE refresh[b] = held[c]
      <4>1. CASE refresh[b] = None
        BY <4>1, <1>2 DEF Kept, Valid
      <4>2. CASE refresh[b] # None
        <5>1. Browser[c] = b
          BY <3>4, <4>2, <2>1 DEF Apart
        <5>2. CASE pc[c] = "revoking" /\ pc'[c] = "idle"
          BY <5>1, <5>2, <3>1, <3>4, <1>2 DEF Expired, Kept, Valid
        <5>3. CASE pc'[c] \in {"generating", "clearing"}
          <6>1. Renewing(b)'
            BY <5>1, <5>3 DEF Renewing
          <6> QED BY <6>1 DEF Kept
        <5> QED BY <5>2, <5>3, <1>3
      <4> QED BY <4>1, <4>2
    <3> QED BY <3>3, <3>4
  <2> QED BY <2>2, <2>3
<1> QED BY <1>5, <1>6, <1>7 DEF SessionInv

\* The new token enters the table, unless it is there.
LEMMA CreateStep ==
  ASSUME SessionInv, TypeOK', NEW c \in Callers, Create(c)
  PROVE  SessionInv'
<1> USE SessionsAssumption, SessionsNone
<1>1. TypeOK /\ Ages /\ pc[c] = "creating" /\ issued[c] # None
  BY DEF SessionInv, Create, TypeOK
<1>2. UNCHANGED <<now, refresh, stamp, collided, hurt>>
  BY DEF Create, cookies, history, minted
<1>3. /\ tokens' \in {tokens, tokens \cup {issued[c]}}
      /\ pc' = [pc EXCEPT ![c] = pc'[c]] /\ pc'[c] \in {"idle", "answering"}
      /\ held' \in {held, [held EXCEPT ![c] = None]}
      /\ issued' \in {issued, [issued EXCEPT ![c] = None]}
      /\ issued[c] \notin tokens => /\ tokens' = tokens \cup {issued[c]}
                                    /\ pc'[c] = "answering" /\ held' = held /\ issued' = issued
  BY <1>1 DEF Create, Goto, Return, TypeOK
<1>4. Ages'
  BY <1>1, <1>2, <1>3 DEF Ages, Minted, TypeOK
<1>5. ASSUME NEW d \in Callers PROVE Expired(d)'
  <2>1. CASE d = c
    BY <2>1, <1>3 DEF Expired
  <2>2. CASE d # c
    <3>1. Expired(d) /\ pc'[d] = pc[d] /\ held'[d] = held[d]
      BY <2>2, <1>1, <1>3 DEF SessionInv, TypeOK
    <3> QED BY <3>1, <1>2 DEF Expired, Valid
  <2> QED BY <2>1, <2>2
<1>6. ASSUME ~collided' PROVE Apart' /\ \A b \in Browsers : Kept(b)'
  <2>1. Apart /\ ~collided
    BY <1>2, <1>6 DEF SessionInv
  <2>2. /\ tokens' = tokens \cup {issued[c]}
        /\ pc'[c] = "answering" /\ held' = held /\ issued' = issued
    BY <2>1, <1>1, <1>3 DEF Apart
  <2>3. Apart'
    BY <2>1, <2>2, <1>1, <1>2, <1>3 DEF Apart, TypeOK
  <2>4. ASSUME NEW b \in Browsers PROVE Kept(b)'
    <3>1. Kept(b)
      BY <2>1 DEF SessionInv
    <3>2. Renewing(b) => Renewing(b)'
      BY <2>2, <1>1, <1>3 DEF Renewing, TypeOK
    <3> QED BY <3>1, <3>2, <2>2, <1>2 DEF Kept, Valid
  <2> QED BY <2>3, <2>4
<1> QED BY <1>4, <1>5, <1>6 DEF SessionInv

\* The browser gets the new cookies, which are in the table.
LEMMA AnswerStep ==
  ASSUME SessionInv, TypeOK', NEW c \in Callers, Answer(c)
  PROVE  SessionInv'
<1> USE SessionsAssumption, SessionsNone
<1>1. TypeOK /\ Ages /\ pc[c] = "answering" /\ issued[c] # None
  BY DEF SessionInv, Answer, TypeOK
<1>2. UNCHANGED <<now, tokens, stamp, collided, hurt>>
  BY DEF Answer, history, minted
<1>3. /\ pc' = [pc EXCEPT ![c] = "idle"] /\ held' = [held EXCEPT ![c] = None]
      /\ issued' = [issued EXCEPT ![c] = None]
      /\ refresh' = [refresh EXCEPT ![Browser[c]] = issued[c]]
  BY DEF Answer, Return
<1>4. Ages'
  BY <1>1, <1>2, <1>3 DEF Ages, Minted, TypeOK
<1>5. ASSUME NEW d \in Callers PROVE Expired(d)'
  BY <1>1, <1>2, <1>3 DEF SessionInv, Expired, Valid, TypeOK
<1>6. ASSUME ~collided' PROVE Apart' /\ \A b \in Browsers : Kept(b)'
  <2>1. Apart /\ ~collided
    BY <1>2, <1>6 DEF SessionInv
  <2>2. issued[c] \in tokens
    BY <2>1, <1>1 DEF Apart
  <2>3. Apart'
    BY <2>1, <2>2, <1>1, <1>2, <1>3 DEF Apart, TypeOK
  <2>4. ASSUME NEW b \in Browsers PROVE Kept(b)'
    <3>1. CASE b = Browser[c]
      BY <3>1, <2>2, <1>1, <1>2, <1>3 DEF Kept, TypeOK
    <3>2. CASE b # Browser[c]
      <4>1. Kept(b) /\ refresh'[b] = refresh[b]
        BY <3>2, <2>1, <1>1, <1>3 DEF SessionInv, TypeOK
      <4>2. Renewing(b) => Renewing(b)'
        BY <3>2, <1>1, <1>3 DEF Renewing, TypeOK
      <4> QED BY <4>1, <4>2, <1>2 DEF Kept, Valid
    <3> QED BY <3>1, <3>2
  <2> QED BY <2>3, <2>4
<1> QED BY <1>4, <1>5, <1>6 DEF SessionInv

\* The cookies of a browser are cleared by a logout, or dropped when they expire.
LEMMA ClearStep ==
  ASSUME SessionInv, TypeOK', NEW a \in Browsers,
         \/ DropCookies(a)
         \/ \E c \in Callers : Browser[c] = a /\ ClearCookies(c)
  PROVE  SessionInv'
<1> USE SessionsAssumption, SessionsNone
<1>1. TypeOK /\ Ages
  BY DEF SessionInv
<1>2. UNCHANGED <<now, tokens, stamp, collided, hurt>>
  BY DEF DropCookies, ClearCookies, history, minted
<1>3. /\ \A b \in Browsers : refresh'[b] \in {refresh[b], None}
      /\ \A b \in Browsers : b # a => refresh'[b] = refresh[b]
  <2>1. CASE DropCookies(a)
    <3>1. refresh' = [refresh EXCEPT ![a] = IF Valid(refresh[a], RefreshTTL) THEN refresh[a]
                                                                             ELSE None]
      BY <2>1 DEF DropCookies
    <3> QED BY <3>1, <1>1 DEF TypeOK
  <2>2. CASE ~DropCookies(a)
    BY <2>2, <1>1 DEF ClearCookies, TypeOK
  <2> QED BY <2>1, <2>2
<1> DEFINE Moved(d) ==
             /\ held'[d] \in {held[d], None} /\ issued'[d] = issued[d]
             /\ pc'[d] = pc[d] => held'[d] = held[d]
             /\ pc'[d] # pc[d] => /\ pc[d] = "clearing" /\ pc'[d] = "idle"
                                 /\ Browser[d] = a /\ refresh'[a] = None
<1>4. ASSUME NEW d \in Callers PROVE Moved(d)
  <2>1. CASE DropCookies(a)
    BY <2>1 DEF DropCookies, requests
  <2>2. ASSUME NEW c \in Callers, Browser[c] = a, ClearCookies(c)
        PROVE  Moved(d)
    <3>1. /\ pc[c] = "clearing" /\ pc' = [pc EXCEPT ![c] = "idle"]
          /\ held' = [held EXCEPT ![c] = None] /\ issued' = [issued EXCEPT ![c] = None]
          /\ issued[c] = None /\ refresh'[a] = None
      BY <2>2, <1>1 DEF ClearCookies, Return, TypeOK
    <3> QED BY <3>1, <2>2, <1>1 DEF TypeOK
  <2> QED BY <2>1, <2>2
<1>5. Ages'
  BY <1>1, <1>2, <1>3, <1>4 DEF Ages, Minted
<1>6. ASSUME NEW d \in Callers PROVE Expired(d)'
  <2>1. Expired(d)
    BY DEF SessionInv
  <2> QED BY <2>1, <1>2, <1>4 DEF Expired, Valid
<1>7. ASSUME ~collided' PROVE Apart' /\ \A b \in Browsers : Kept(b)'
  <2>1. Apart /\ ~collided
    BY <1>2, <1>7 DEF SessionInv
  <2>2. Apart'
    BY <2>1, <1>1, <1>2, <1>3, <1>4 DEF Apart, TypeOK
  <2>3. ASSUME NEW b \in Browsers, b \notin hurt', Valid(refresh[b], RefreshTTL)'
        PROVE  refresh'[b] \in tokens' \/ Renewing(b)'
    <3>1. Kept(b) /\ refresh'[b] # None
      BY <2>1, <2>3 DEF SessionInv, Valid
    <3>2. refresh'[b] = refresh[b]
      BY <3>1, <1>3
    <3>3. Valid(refresh[b], RefreshTTL)
      BY <2>3, <3>2, <1>2 DEF Valid
    <3>4. Renewing(b) => Renewing(b)'
      <4>1. ASSUME NEW d \in Callers, Browser[d] = b,
                   pc[d] \in {"generating", "creating", "answering", "clearing"}
            PROVE  pc'[d] = pc[d]
        BY <4>1, <3>1, <1>4
      <4> QED BY <4>1 DEF Renewing
    <3> QED BY <2>3, <3>1, <3>2, <3>3, <3>4, <1>2 DEF Kept
  <2> QED BY <2>2, <2>3 DEF Kept
<1> QED BY <1>5, <1>6, <1>7 DEF SessionInv

\* A call fails, which only the caller's own browser may suffer from.
LEMMA FailStep ==
  ASSUME SessionInv, TypeOK', NEW c \in Callers, CallFails(c)
  PROVE  SessionInv'
<1> USE SessionsAssumption, SessionsNone
<1>1. TypeOK /\ Ages
  BY DEF SessionInv
<1>2. UNCHANGED <<now, refresh, stamp, collided>> /\ hurt' = hurt \cup {Browser[c]}
  BY DEF CallFails, Fault, cookies, minted
<1>3. /\ pc' = [pc EXCEPT ![c] = "idle"] /\ held' = [held EXCEPT ![c] = None]
      /\ issued' = [issued EXCEPT ![c] = None]
  BY DEF CallFails, Return
<1>4. \/ tokens' = tokens
      \/ tokens' = tokens \ {held[c]}
      \/ issued[c] # None /\ tokens' = tokens \cup {issued[c]}
  BY <1>1 DEF CallFails, TypeOK
<1>5. Ages'
  BY <1>1, <1>2, <1>3, <1>4 DEF Ages, Minted, TypeOK
<1>6. ASSUME NEW d \in Callers PROVE Expired(d)'
  BY <1>1, <1>2, <1>3 DEF SessionInv, Expired, Valid, TypeOK
<1>7. ASSUME ~collided' PROVE Apart' /\ \A b \in Browsers : Kept(b)'
  <2>1. Apart /\ ~collided
    BY <1>2, <1>7 DEF SessionInv
  <2>2. Apart'
    BY <2>1, <1>1, <1>2, <1>3, <1>4 DEF Apart, TypeOK
  <2>3. ASSUME NEW b \in Browsers, b \notin hurt', Valid(refresh[b], RefreshTTL)'
        PROVE  refresh'[b] \in tokens' \/ Renewing(b)'
    <3>1. Kept(b) /\ b \notin hurt /\ b # Browser[c] /\ Valid(refresh[b], RefreshTTL)
      BY <2>1, <2>3, <1>2 DEF SessionInv, Valid
    <3>2. Renewing(b) => Renewing(b)'
      BY <3>1, <1>1, <1>3 DEF Renewing, TypeOK
    <3>3. refresh[b] # held[c]
      BY <3>1, <2>1 DEF Apart, Valid
    <3> QED BY <3>1, <3>2, <3>3, <1>2, <1>4 DEF Kept
  <2> QED BY <2>2, <2>3 DEF Kept
<1> QED BY <1>5, <1>6, <1>7 DEF SessionInv

\* Time passes, or nothing happens.
LEMMA TickStep ==
  ASSUME SessionInv, TypeOK', Tick \/ UNCHANGED vars
  PROVE  SessionInv'
<1> USE SessionsAssumption, SessionsNone
<1>1. TypeOK /\ Ages
  BY DEF SessionInv
<1>2. /\ UNCHANGED <<tokens, refresh, pc, held, issued, stamp, collided, hurt>>
      /\ now' \in Nat /\ now' >= now
  BY <1>1 DEF Tick, vars, cookies, requests, history, minted, TypeOK
<1>3. Ages'
  BY <1>1, <1>2 DEF Ages, Minted, TypeOK, Tokens
<1>4. ASSUME NEW d \in Callers PROVE Expired(d)'
  <2>1. Expired(d) /\ held[d] \in Tokens
    BY <1>1 DEF SessionInv, TypeOK
  <2> QED BY <2>1, <1>1, <1>2, ValidBefore DEF Expired, Valid
<1>5. ASSUME NEW b \in Browsers, Kept(b) PROVE Kept(b)'
  <2>1. refresh[b] \in Tokens
    BY <1>1 DEF TypeOK
  <2>2. Renewing(b)' = Renewing(b)
    BY <1>2 DEF Renewing
  <2> QED BY <2>1, <2>2, <1>1, <1>2, <1>5, ValidBefore DEF Kept, Valid
<1>6. Apart => Apart'
  BY <1>2 DEF Apart
<1> QED BY <1>2, <1>3, <1>4, <1>5, <1>6 DEF SessionInv

LEMMA SessionNext == SessionInv /\ [Next]_vars => SessionInv'
<1> SUFFICES ASSUME SessionInv, [Next]_vars PROVE SessionInv'
  OBVIOUS
<1>1. TypeOK'
  BY TypeNext DEF SessionInv
<1>2. ASSUME NEW c \in Callers, ClearCookies(c) PROVE SessionInv'
  BY <1>1, <1>2, ClearStep, SessionsAssumption
<1>3. ASSUME NEW c \in Callers, RequestStep(c) \/ Login(c) \/ Logout(c)
                                \/ ExistsFails(c) \/ CallFails(c)
      PROVE  SessionInv'
  BY <1>1, <1>2, <1>3, GenerateStep, MoveStep, RemoveStep, CreateStep, AnswerStep, FailStep, Zenon
     DEF RequestStep
<1> QED BY <1>1, <1>3, ClearStep, TickStep, Zenon DEF Next

\* However a browser's callers race to renew, and whatever happens to other
\* browsers, the refresh cookie a browser is left with is in the table, unless one
\* of its own calls failed or two pairs were generated in one second.
THEOREM SessionsAreKept == Spec => []SessionKept
  BY SessionInit, SessionNext, SessionEnd, PTL DEF Spec

-----------------------------------------------------------------------------

\* One element more, or less.
LEMMA Sizes ==
  ASSUME NEW S, IsFiniteSet(S), NEW x
  PROVE  /\ Cardinality(S) \in Nat
         /\ IsFiniteSet(S \cup {x}) /\ Cardinality(S \cup {x}) \in Nat
         /\ Cardinality(S \cup {x}) <= Cardinality(S) + 1
         /\ IsFiniteSet(S \ {x}) /\ Cardinality(S \ {x}) \in Nat
         /\ x \in S => Cardinality(S \ {x}) = Cardinality(S) - 1
         /\ Cardinality(S \ {x}) <= Cardinality(S)
<1>1. Cardinality(S) \in Nat
  BY FS_CardinalityType
<1>2. /\ IsFiniteSet(S \cup {x})
      /\ Cardinality(S \cup {x}) = Cardinality(S) \/ Cardinality(S \cup {x}) = Cardinality(S) + 1
  BY FS_AddElement
<1>3. /\ IsFiniteSet(S \ {x})
      /\ Cardinality(S \ {x}) = IF x \in S THEN Cardinality(S) - 1 ELSE Cardinality(S)
  BY FS_RemoveElement
<1>4. Cardinality(S \cup {x}) \in Nat /\ Cardinality(S \ {x}) \in Nat
  BY <1>2, <1>3, FS_CardinalityType
<1> QED BY <1>1, <1>2, <1>3, <1>4

\* Requests that have not stored the row they are accounted for.
Owing == {c \in Callers : pc[c] \in {"generating", "creating"}}

\* A login is accounted for when it starts, a rotation by the row it deletes.
Paid ==
  /\ TypeOK
  /\ IsFiniteSet(tokens) /\ IsFiniteSet(Owing)
  /\ Cardinality(tokens) + Cardinality(Owing) <= logins + unpaid

LEMMA PaidInit == Init => Paid
<1> SUFFICES ASSUME Init PROVE Paid
  OBVIOUS
<1>1. tokens = {} /\ Owing = {} /\ logins = 0 /\ unpaid = 0
  BY DEF Init, Owing
<1>2. IsFiniteSet(tokens) /\ IsFiniteSet(Owing) /\ Cardinality(tokens) = 0 /\ Cardinality(Owing) = 0
  BY <1>1, FS_EmptySet
<1> QED BY <1>1, <1>2, TypeInit DEF Paid

\* How the owing requests change when caller c moves on.
LEMMA OwingMoves ==
  ASSUME TypeOK, NEW c \in Callers, pc' = [pc EXCEPT ![c] = pc'[c]]
  PROVE  Owing' = IF pc'[c] \in {"generating", "creating"} THEN Owing \cup {c} ELSE Owing \ {c}
  BY DEF TypeOK, Owing

LEMMA PaidStep ==
  ASSUME Paid, TypeOK', NEW c \in Callers,
         RequestStep(c) \/ Login(c) \/ Logout(c) \/ ExistsFails(c) \/ CallFails(c)
  PROVE  Paid'
<1> USE SessionsAssumption, SessionsNone DEF cookies, history, minted
<1>1. /\ TypeOK /\ IsFiniteSet(tokens) /\ IsFiniteSet(Owing)
      /\ logins \in Nat /\ unpaid \in Nat
      /\ Cardinality(tokens) \in Nat /\ Cardinality(Owing) \in Nat
      /\ Cardinality(tokens) + Cardinality(Owing) <= logins + unpaid
  BY FS_CardinalityType DEF Paid, TypeOK
<1>2. pc' = [pc EXCEPT ![c] = pc'[c]]
  BY <1>1, Requests
<1>3. Owing' = IF pc'[c] \in {"generating", "creating"} THEN Owing \cup {c} ELSE Owing \ {c}
  BY <1>1, <1>2, OwingMoves
<1>4. c \in Owing <=> pc[c] \in {"generating", "creating"}
  BY DEF Owing
<1>5. ASSUME Owing' = Owing, UNCHANGED <<logins, unpaid>>,
             tokens' = tokens \/ \E x : tokens' = tokens \ {x}
      PROVE  Paid'
  <2>1. IsFiniteSet(tokens') /\ Cardinality(tokens') \in Nat /\ Cardinality(tokens') <= Cardinality(tokens)
    <3>1. ASSUME NEW x, tokens' = tokens \ {x}
          PROVE  IsFiniteSet(tokens') /\ Cardinality(tokens') \in Nat /\ Cardinality(tokens') <= Cardinality(tokens)
      BY <3>1, <1>1, Sizes
    <3> QED BY <1>1, <1>5, <3>1
  <2> QED BY <2>1, <1>1, <1>5 DEF Paid
<1>6. ASSUME c \in Owing, Owing' = Owing \ {c}, UNCHANGED <<logins, unpaid>>,
             tokens' = tokens \/ \E x : tokens' = tokens \cup {x}
      PROVE  Paid'
  <2>1. /\ IsFiniteSet(tokens') /\ Cardinality(tokens') \in Nat
        /\ Cardinality(tokens') <= Cardinality(tokens) + 1
    <3>1. ASSUME NEW x, tokens' = tokens \cup {x}
          PROVE  /\ IsFiniteSet(tokens') /\ Cardinality(tokens') \in Nat
                 /\ Cardinality(tokens') <= Cardinality(tokens) + 1
      BY <3>1, <1>1, Sizes
    <3>2. CASE tokens' = tokens
      BY <3>2, <1>1
    <3> QED BY <1>6, <3>1, <3>2
  <2>2. IsFiniteSet(Owing') /\ Cardinality(Owing') = Cardinality(Owing) - 1
    BY <1>1, <1>6, Sizes
  <2> QED BY <2>1, <2>2, <1>1, <1>6 DEF Paid
<1>7. CASE Reject(c) \/ Refresh(c) \/ Exists(c) \/ ExistsFails(c) \/ Logout(c) \/ Answer(c)
           \/ ClearCookies(c) \/ Revoke(c) \/ DeleteRefreshToken(c)
  <2>1. /\ pc[c] \notin {"generating", "creating"} /\ pc'[c] \notin {"generating", "creating"}
        /\ UNCHANGED <<logins, unpaid>>
        /\ tokens' = tokens \/ tokens' = tokens \ {held[c]}
    BY <1>7, <1>1 DEF Reject, Refresh, Exists, ExistsFails, Logout, Answer, ClearCookies,
                      Revoke, DeleteRefreshToken, Goto, Return, TypeOK
  <2>2. Owing' = Owing
    BY <2>1, <1>3, <1>4
  <2> QED BY <2>1, <2>2, <1>5
<1>8. CASE NewPair(c)
  <2>1. pc[c] = "generating" /\ pc'[c] = "creating" /\ UNCHANGED <<logins, unpaid, tokens>>
    BY <1>8, <1>1 DEF NewPair, Generate, TypeOK
  <2>2. Owing' = Owing
    BY <2>1, <1>3, <1>4
  <2> QED BY <2>1, <2>2, <1>5
<1>9. CASE Login(c)
  <2>1. pc'[c] = "creating" /\ logins' = logins + 1 /\ UNCHANGED <<unpaid, tokens>>
    BY <1>9, <1>1 DEF Login, Generate, TypeOK
  <2>2. IsFiniteSet(Owing') /\ Cardinality(Owing') \in Nat /\ Cardinality(Owing') <= Cardinality(Owing) + 1
    BY <2>1, <1>1, <1>3, Sizes
  <2> QED BY <2>1, <2>2, <1>1 DEF Paid
<1>10. CASE Delete(c)
  <2>1. /\ pc'[c] = "generating" /\ tokens' = tokens \ {held[c]} /\ UNCHANGED logins
        /\ unpaid' = IF held[c] \in tokens THEN unpaid ELSE unpaid + 1
    BY <1>10, <1>1 DEF Delete, Goto, TypeOK
  <2>2. IsFiniteSet(Owing') /\ Cardinality(Owing') \in Nat /\ Cardinality(Owing') <= Cardinality(Owing) + 1
    BY <2>1, <1>1, <1>3, Sizes
  <2>3. CASE held[c] \in tokens
    <3>1. IsFiniteSet(tokens') /\ Cardinality(tokens') = Cardinality(tokens) - 1
      BY <2>1, <2>3, <1>1, Sizes
    <3> QED BY <3>1, <2>1, <2>2, <2>3, <1>1 DEF Paid
  <2>4. CASE held[c] \notin tokens
    <3>1. tokens' = tokens /\ unpaid' = unpaid + 1
      BY <2>1, <2>4
    <3> QED BY <3>1, <2>1, <2>2, <1>1 DEF Paid
  <2> QED BY <2>3, <2>4
<1>11. CASE Create(c)
  <2>1. /\ pc[c] = "creating" /\ pc'[c] \in {"idle", "answering"} /\ UNCHANGED <<logins, unpaid>>
        /\ tokens' = tokens \/ tokens' = tokens \cup {issued[c]}
    BY <1>11, <1>1 DEF Create, Goto, Return, TypeOK
  <2>2. c \in Owing /\ Owing' = Owing \ {c}
    BY <2>1, <1>3, <1>4
  <2> QED BY <2>1, <2>2, <1>6
<1>12. CASE CallFails(c)
  <2>1. pc'[c] = "idle" /\ UNCHANGED <<logins, unpaid>>
    BY <1>12, <1>1 DEF CallFails, Return, TypeOK
  <2>2. CASE pc[c] = "creating"
    <3>1. c \in Owing /\ Owing' = Owing \ {c}
      BY <2>1, <2>2, <1>3, <1>4
    <3>2. tokens' = tokens \/ tokens' = tokens \cup {issued[c]}
      BY <1>12, <2>2 DEF CallFails
    <3> QED BY <2>1, <3>1, <3>2, <1>6
  <2>3. CASE pc[c] # "creating"
    <3>1. pc[c] # "generating" /\ (tokens' = tokens \/ tokens' = tokens \ {held[c]})
      BY <1>12, <2>3 DEF CallFails
    <3>2. Owing' = Owing
      BY <2>1, <2>3, <3>1, <1>3, <1>4
    <3> QED BY <2>1, <3>1, <3>2, <1>5
  <2> QED BY <2>2, <2>3
<1> QED BY <1>7, <1>8, <1>9, <1>10, <1>11, <1>12 DEF RequestStep

LEMMA PaidNext == Paid /\ [Next]_vars => Paid'
<1> SUFFICES ASSUME Paid, [Next]_vars PROVE Paid'
  OBVIOUS
<1>1. TypeOK'
  BY TypeNext DEF Paid
<1>2. ASSUME UNCHANGED <<tokens, pc, logins, unpaid>> PROVE Paid'
  BY <1>1, <1>2 DEF Paid, Owing
<1>3. ASSUME NEW b \in Browsers, DropCookies(b) PROVE Paid'
  BY <1>2, <1>3 DEF DropCookies, requests, history
<1>4. CASE Tick \/ UNCHANGED vars
  BY <1>2, <1>4 DEF Tick, vars, requests, history
<1> QED BY <1>1, <1>3, <1>4, PaidStep DEF Next

LEMMA PaidEnd == Paid => RowsAccounted
  BY FS_CardinalityType DEF Paid, RowsAccounted, TypeOK

\* The table of refresh tokens holds at most one row for each login and one for
\* each rotation that found its old token gone: rotating does not make it grow.
THEOREM RowsAreAccounted == Spec => []RowsAccounted
  BY PaidInit, PaidNext, PaidEnd, PTL DEF Spec

=============================================================================
