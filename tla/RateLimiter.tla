---------------------------- MODULE RateLimiter ----------------------------
(***************************************************************************)
(* The rate limiter of one destination: a leaky bucket kept in a Redis     *)
(* hash, changed by an atomic Lua script.  Every forwarding goroutine      *)
(* reads the provider's limit, then the clock, and runs the script with    *)
(* both later, so the script may see readings out of order and limits that *)
(* have been changed meanwhile.                                            *)
(*                                                                         *)
(* Source: internal/worker/limiter.go, and the call of Allow in            *)
(* internal/worker/service.go.                                             *)
(*                                                                         *)
(* The script computes with fractions of requests and of seconds.  Here a  *)
(* second is Second ticks and the level is counted in units of which a     *)
(* request adds Second and a tick of leaking removes the limit, so that    *)
(* all numbers are integers.                                               *)
(***************************************************************************)
EXTENDS Integers

CONSTANTS
  Callers,  \* goroutines of forwardEvent that call Allow
  Limits,   \* values of max_req_second that operators configure
  Second,   \* ticks in a second
  Skew,     \* the longest time from reading the clock to running the script
  Expiry,   \* EXPIRE, in ticks
  MaxTime,  \* bound on the clock
  Absent    \* no clock reading, no key

\* A context of 10 seconds covers the call; the key lives for 60 seconds.
ASSUME LimiterAssumption ==
  /\ Limits \subseteq Nat /\ Limits # {} /\ Second \in Nat \ {0} /\ Skew \in Nat /\ MaxTime \in Nat
  /\ Expiry \in Nat /\ Expiry >= Second + Skew

ASSUME LimiterAbsent == Absent \notin Int

VARIABLES
  limit,     \* max_req_second in the provider cache
  now,       \* the clock
  level,     \* "level" of the hash, scaled
  lastLeak,  \* "last_leak" of the hash, Absent before the first call
  touched,   \* when the script last ran, which sets the key's time to live
  limitOf,   \* caller -> the limit it runs the script with
  stamp,     \* caller -> the clock reading it runs the script with
  mark,      \* history: when the observed window was opened
  admitted,  \* history: requests admitted in the observed window
  used,      \* history: limits the script ran with in the observed window
  filled     \* history: limits the script ran with since the key was created

bucket == <<level, lastLeak, touched, filled>>
window == <<mark, admitted, used>>
limiterVars == <<limit, now, bucket, limitOf, stamp, window>>

LimiterTypeOK ==
  /\ limit \in Limits
  /\ limitOf \in [Callers -> Limits \cup {Absent}]
  /\ used \subseteq Limits /\ filled \subseteq Limits
  /\ now \in Nat
  /\ level \in Nat
  /\ lastLeak \in Nat \cup {Absent}
  /\ touched \in Nat
  /\ stamp \in [Callers -> Nat \cup {Absent}]
  /\ mark \in Nat
  /\ admitted \in Nat

LimiterInit ==
  /\ limit \in Limits
  /\ limitOf = [c \in Callers |-> Absent]
  /\ used = {} /\ filled = {}
  /\ now = 0
  /\ level = 0
  /\ lastLeak = Absent
  /\ touched = 0
  /\ stamp = [c \in Callers |-> Absent]
  /\ mark = 0
  /\ admitted = 0

-----------------------------------------------------------------------------

\* The key exists and has not expired.
Live == lastLeak # Absent /\ now < touched + Expiry

\* As Leaked, but the level is not floored at zero.
Leaked_NoFloor(m, s) ==
  IF Live THEN level - (s - lastLeak) * m ELSE 0

\* The level after leaking for the time since the last call.  A reading older
\* than last_leak makes the elapsed time negative and raises the level.
Leaked(m, s) ==
  LET rest == IF Live THEN level - (s - lastLeak) * m ELSE 0
  IN  IF rest < 0 THEN 0 ELSE rest

Room(m, s) == Leaked(m, s) + Second <= m * Second

Filled(m) == IF Live THEN filled \cup {m} ELSE {m}

\* As Store, but a call does not advance last_leak.
Store_SameLeak(m, s) ==
  /\ level' = IF Room(m, s) THEN Leaked(m, s) + Second ELSE Leaked(m, s)
  /\ lastLeak' = IF Live THEN lastLeak ELSE s
  /\ touched' = now
  /\ filled' = Filled(m)

\* As Store, but a request that is denied fills the bucket too.
Store_DeniedFills(m, s) ==
  /\ level' = Leaked(m, s) + Second
  /\ lastLeak' = s
  /\ touched' = now
  /\ filled' = Filled(m)

\* HSET and EXPIRE at the end of the script.
Store(m, s) ==
  /\ level' = IF Room(m, s) THEN Leaked(m, s) + Second ELSE Leaked(m, s)
  /\ lastLeak' = s
  /\ touched' = now
  /\ filled' = Filled(m)

\* Configure changes the cached limit, whatever is in the bucket.
SetLimit(m) ==
  /\ limit' = m
  /\ UNCHANGED <<now, bucket, limitOf, stamp, window>>

\* forwardEvent reads the provider from the cache.  Allow returns at once if it
\* admits no requests at all.
ReadLimit(c) ==
  /\ limitOf[c] = Absent
  /\ limit > 0
  /\ limitOf' = [limitOf EXCEPT ![c] = limit]
  /\ UNCHANGED <<limit, now, bucket, stamp, window>>

ReadClock(c) ==
  /\ limitOf[c] # Absent
  /\ stamp[c] = Absent
  /\ stamp' = [stamp EXCEPT ![c] = now]
  /\ UNCHANGED <<limit, now, bucket, limitOf, window>>

\* Allow returns.
Finish(c) ==
  /\ limitOf' = [limitOf EXCEPT ![c] = Absent]
  /\ stamp' = [stamp EXCEPT ![c] = Absent]

\* The script runs and its answer arrives.
RunScript(c) ==
  /\ stamp[c] # Absent
  /\ Store(limitOf[c], stamp[c])
  /\ admitted' = IF Room(limitOf[c], stamp[c]) THEN admitted + 1 ELSE admitted
  /\ used' = used \cup {limitOf[c]}
  /\ Finish(c)
  /\ UNCHANGED <<limit, now, mark>>

\* Allow returns an error: Redis did not run the script, or its answer is lost
\* and the bucket has been filled for a request that will not be sent.
ScriptFails(c) ==
  /\ stamp[c] # Absent
  /\ \/ Store(limitOf[c], stamp[c]) /\ used' = used \cup {limitOf[c]}
     \/ UNCHANGED <<bucket, used>>
  /\ Finish(c)
  /\ UNCHANGED <<limit, now, mark, admitted>>

\* An observer starts to count.
OpenWindow ==
  /\ mark' = now
  /\ admitted' = 0
  /\ used' = {}
  /\ UNCHANGED <<limit, now, bucket, limitOf, stamp>>

Tick ==
  /\ now < MaxTime
  /\ \A c \in Callers : stamp[c] # Absent => now < stamp[c] + Skew
  /\ now' = now + 1
  /\ UNCHANGED <<limit, bucket, limitOf, stamp, window>>

LimiterNext ==
  \/ \E c \in Callers : ReadLimit(c) \/ ReadClock(c) \/ RunScript(c) \/ ScriptFails(c)
  \/ \E m \in Limits : SetLimit(m)
  \/ OpenWindow
  \/ Tick

LimiterSpec == LimiterInit /\ [][LimiterNext]_limiterVars

-----------------------------------------------------------------------------

\* In any window whose calls all use one limit, however the calls are reordered,
\* lost or spread over the expiry of the key, and whatever limit the bucket was
\* filled under before, at most one bucketful is admitted on top of what leaks
\* during the window.
BurstBound ==
  \A m \in Limits : used \subseteq {m} =>
    admitted * Second <= m * (Second + (now - mark) + Skew)

\* If only one limit has been in use since the key was created, then after a
\* second without calls the bucket is empty and a request is admitted.
QuietThenAdmitted ==
  [][\A c \in Callers :
       /\ RunScript(c)
       /\ filled \subseteq {limitOf[c]}
       /\ stamp[c] >= touched + Second
       => admitted' = admitted + 1]_limiterVars

=============================================================================
