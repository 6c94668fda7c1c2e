----------------------------- MODULE LoginGuard -----------------------------
(***************************************************************************)
(* The login of the web UI (web/app.py, login_submit) behind LoginGuard    *)
(* (web/auth.py): failures counted per address, and a ban that expires     *)
(* lazily, when its address tries again.  Nothing is awaited between the   *)
(* ban check and the bookkeeping, so an attempt is one step.  The guard    *)
(* lives in the memory of the process.  Time is the wall clock, in ticks,  *)
(* and does not go back.                                                   *)
(***************************************************************************)
EXTENDS Integers

CONSTANTS
    Ip,             \* addresses that try to log in
    MaxFailures,    \* web_login_max_failures
    BanTime,        \* web_login_ban_minutes, in ticks
    MaxTime, MaxGuesses     \* bounds: the clock, guesses counted per address

ASSUME GuardIsOn == MaxFailures \in Nat \ {0} /\ BanTime \in Nat
ASSUME ClockIsBounded == MaxTime \in Nat /\ MaxGuesses \in Nat

VARIABLES
    now,        \* time.time()
    failures,   \* guard.failures: a dict, 0 for an address it does not have
    banned,     \* guard.banned_until: a dict
    guesses,    \* history: wrong guesses that were judged since the last success
    since       \* history: when the first of them was made

guardVars == <<now, failures, banned, guesses, since>>

GuardTypeOK ==
    /\ now \in 0 .. MaxTime
    /\ failures \in [Ip -> 0 .. MaxFailures]
    /\ DOMAIN banned \subseteq Ip
    /\ \A ip \in DOMAIN banned : banned[ip] \in Nat
    /\ guesses \in [Ip -> 0 .. MaxGuesses]
    /\ since \in [Ip -> 0 .. MaxTime]

NoFailures == [ip \in Ip |-> 0]

GuardInit ==
    /\ now = 0
    /\ failures = NoFailures /\ banned = <<>>
    /\ guesses = NoFailures /\ since = NoFailures

Tick ==
    /\ now < MaxTime
    /\ now' = now + 1
    /\ UNCHANGED <<failures, banned, guesses, since>>

(***************************************************************************)
(* LoginGuard                                                              *)
(***************************************************************************)

IsBanned(ip) == ip \in DOMAIN banned /\ now < banned[ip]

Banned(ip) ==
    [other \in DOMAIN banned \cup {ip} |->
        IF other = ip THEN now + BanTime ELSE banned[other]]
Unbanned(ip) == [other \in DOMAIN banned \ {ip} |-> banned[other]]

\* Mutant of FailuresAfterCheck: an expired ban leaves the count as it was.
BugKeepsCount(ip) == failures[ip]

\* is_banned() forgets an expired ban, and the failures that led to it.
FailuresAfterCheck(ip) == IF ip \in DOMAIN banned THEN 0 ELSE failures[ip]

\* Mutant of RegisterFailure: one guess too many.
BugOneGuessMore(ip) ==
    LET count == FailuresAfterCheck(ip) + 1 IN
    /\ failures' = [failures EXCEPT ![ip] = IF count > MaxFailures THEN MaxFailures ELSE count]
    /\ banned' = IF count > MaxFailures THEN Banned(ip)
                                        ELSE Unbanned(ip)

\* is_banned() let the attempt through, register_failure() counts it.
RegisterFailure(ip) ==
    LET count == FailuresAfterCheck(ip) + 1 IN
    /\ failures' = [failures EXCEPT ![ip] = count]
    /\ banned' = IF count >= MaxFailures THEN Banned(ip)
                                         ELSE Unbanned(ip)

\* Mutant of RegisterSuccess: the count of the address is kept.
BugSuccessKeepsCount(ip) ==
    /\ failures' = [failures EXCEPT ![ip] = FailuresAfterCheck(ip)]
    /\ banned' = Unbanned(ip)

RegisterSuccess(ip) ==
    /\ failures' = [failures EXCEPT ![ip] = 0]
    /\ banned' = Unbanned(ip)

(***************************************************************************)
(* login_submit                                                            *)
(***************************************************************************)

\* A wrong name or password, or any at all while no WEB_PASSWORD is set.
LoginFails(ip) ==
    /\ ~IsBanned(ip) /\ guesses[ip] < MaxGuesses
    /\ RegisterFailure(ip)
    /\ guesses' = [guesses EXCEPT ![ip] = @ + 1]
    /\ since' = [since EXCEPT ![ip] = IF guesses[ip] = 0 THEN now ELSE @]
    /\ UNCHANGED now

LoginSucceeds(ip) ==
    /\ ~IsBanned(ip)
    /\ RegisterSuccess(ip)
    /\ guesses' = [guesses EXCEPT ![ip] = 0]
    /\ UNCHANGED <<now, since>>

\* A new process has a new guard.
Restart ==
    /\ failures' = NoFailures /\ banned' = <<>>
    /\ guesses' = NoFailures
    /\ UNCHANGED <<now, since>>

GuardNext ==
    \/ Tick \/ Restart
    \/ \E ip \in Ip : LoginFails(ip) \/ LoginSucceeds(ip)

GuardSpec == GuardInit /\ [][GuardNext]_guardVars

(***************************************************************************)
(* Properties                                                              *)
(***************************************************************************)

\* The rate of guessing is bounded, however attempts, expiries and the lazy
\* forgetting interleave: more than k times MaxFailures wrong guesses from an
\* address, with no success and no restart among them, take k bans.
RateLimit ==
    \A ip \in Ip, k \in 1 .. MaxGuesses :
        guesses[ip] > k * MaxFailures => now - since[ip] >= k * BanTime

\* A ban is earned and ends: it stands only for an address with MaxFailures
\* wrong guesses of its own since its last success, and for no longer than
\* BanTime from now.
BanIsEarned ==
    \A ip \in DOMAIN banned :
        guesses[ip] >= MaxFailures /\ banned[ip] <= now + BanTime
=============================================================================
