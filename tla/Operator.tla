------------------------------ MODULE Operator ------------------------------
(***************************************************************************)
(* The operator's logins and browser sessions: app/auth, the handlers of   *)
(* httpapi/auth.go and the middleware before every other route, over the   *)
(* SQLite tables operator_credentials and operator_sessions and the        *)
(* in-memory challenges.  Each statement sent to the database is a step,   *)
(* so requests interleave between them.  `operator add` is a process of    *)
(* its own on the same database.  The WebAuthn library is external: it     *)
(* accepts or refuses.  Time is in TOTP steps.                             *)
(***************************************************************************)
EXTENDS Integers, FiniteSets, Functions

CONSTANTS
    Requests,      \* HTTP requests in progress
    Sids, Keys,    \* random tokens: session ids, challenge keys
    Adders,        \* runs of `operator add`
    CodeCount,     \* recovery codes of a run
    TTL,           \* sessionTTL
    Skew,          \* sessionRenewSkew
    ChallengeTTL,  \* challengeTTL
    MaxClock       \* bound

ASSUME OperatorAssumption ==
    /\ {CodeCount, TTL, Skew, ChallengeTTL, MaxClock} \subseteq Nat \ {0}
    /\ Keys \cap (Adders \X (1..CodeCount)) = {}    \* a challenge key is not a recovery code

VARIABLES
    clock,
    sessions,     \* operator_sessions: id to expires_at
    totp,         \* whose totp rows are stored
    lastStep,     \* last_used_at of the totp row
    codes,        \* the recovery rows: <<adder, i>>
    passkey,      \* whether a webauthn row is stored
    challenges,   \* ChallengeStore.entries: key to expiresAt
    req,          \* each request: where it is and what it holds
    add,          \* each run of `operator add`: codes saved, -1 before, then "done" or "dead"
    lastUse,      \* session to when it was last seen live (all ever created)
    source,       \* session to the one-shot credential that opened it, if any
    loggedOut,    \* sessions logged out
    issued,       \* challenge keys ever issued
    spent         \* recovery codes ever presented with success

operatorVars == <<clock, sessions, totp, lastStep, codes, passkey, challenges,
                  req, add, lastUse, source, loggedOut, issued, spent>>
dbVars    == <<sessions, totp, lastStep, codes, passkey>>
ghostVars == <<lastUse, source, loggedOut, issued, spent>>

Idle == [at |-> "idle"]
With(f, k, v) == [x \in DOMAIN f \cup {k} |-> IF x = k THEN v ELSE f[x]]
Without(f, k) == Restrict(f, DOMAIN f \ {k})
Moves(r, to)  == req' = [req EXCEPT ![r] = to]
Waiting(r, where) == req[r].at = where

OperatorInit ==
    /\ clock = 1
    /\ sessions = <<>> /\ totp = {} /\ lastStep = 0 /\ codes = {} /\ passkey = FALSE
    /\ challenges = <<>>
    /\ req = [r \in Requests |-> Idle]
    /\ add = [a \in Adders |-> -1]
    /\ lastUse = <<>> /\ source = <<>> /\ loggedOut = {} /\ issued = {} /\ spent = {}

-----------------------------------------------------------------------------
(* Logging in. *)

\* Matches: the step of now and one on either side.
StepsAround(now) == now - 1 .. now + 1

\* LoginTOTP reads the last step and compares; recording the step is a second
\* statement, creating the session a third.
LoginTOTP(r, step) ==
    /\ Waiting(r, "idle") /\ totp # {}
    /\ step \in StepsAround(clock) /\ step > lastStep
    /\ Moves(r, [at |-> "record", step |-> step])
    /\ UNCHANGED <<clock, dbVars, challenges, add, ghostVars>>
SetTOTPStep(r) ==
    /\ Waiting(r, "record")
    /\ lastStep' = req[r].step
    /\ Moves(r, [at |-> "create", source |-> {}])
    /\ UNCHANGED <<clock, sessions, totp, codes, passkey, challenges, add, ghostVars>>

\* LoginRecovery: ConsumeRecoveryCode is one DELETE.
Kept(c)  == codes                                  \* mutant: looked up, not deleted
Spent(c) == codes \ {c}
LoginRecovery(r, c) ==
    /\ Waiting(r, "idle") /\ c \in codes
    /\ codes' = Spent(c)
    /\ spent' = spent \cup {c}
    /\ Moves(r, [at |-> "create", source |-> {c}])
    /\ UNCHANGED <<clock, sessions, totp, lastStep, passkey, challenges, add,
                   lastUse, source, loggedOut, issued>>

\* newSession
NewSession(r, s) ==
    /\ Waiting(r, "create") /\ s \notin DOMAIN lastUse
    /\ sessions' = With(sessions, s, clock + TTL)
    /\ lastUse' = With(lastUse, s, clock)
    /\ source' = With(source, s, req[r].source)
    /\ Moves(r, Idle)
    /\ UNCHANGED <<clock, totp, lastStep, codes, passkey, challenges, add, loggedOut, issued, spent>>

-----------------------------------------------------------------------------
(* A session: ValidateSession, Logout. *)

\* The expiry a session would slide to.
SlidFrom(old) == old + TTL                         \* mutant: slides from its own expiry
Slid(old) == clock + TTL

\* ValidateSession: the row is read; the refresh, when due, is a second statement.
Validate(r, s) ==
    /\ Waiting(r, "idle") /\ s \in DOMAIN sessions /\ sessions[s] > clock
    /\ lastUse' = [lastUse EXCEPT ![s] = clock]
    /\ LET expiry == Slid(sessions[s])
       IN  Moves(r, IF expiry - sessions[s] < Skew THEN [at |-> "authed"]
                    ELSE [at |-> "refresh", sid |-> s, expiry |-> expiry])
    /\ UNCHANGED <<clock, dbVars, challenges, add, source, loggedOut, issued, spent>>

\* Refresh: an UPDATE, which leaves a session deleted meanwhile deleted.
UpsertedRow(r) == With(sessions, req[r].sid, req[r].expiry) \* mutant: inserts it again
UpdatedRow(r) == [s \in DOMAIN sessions |-> IF s = req[r].sid THEN req[r].expiry ELSE sessions[s]]
Refresh(r) ==
    /\ Waiting(r, "refresh")
    /\ sessions' \in {UpdatedRow(r), sessions}     \* a failed refresh is logged
    /\ Moves(r, [at |-> "authed"])
    /\ UNCHANGED <<clock, totp, lastStep, codes, passkey, challenges, add, ghostVars>>

\* The authenticated request is served: a handler of another component.
Served(r) ==
    /\ Waiting(r, "authed") /\ Moves(r, Idle)
    /\ UNCHANGED <<clock, dbVars, challenges, add, ghostVars>>

Logout(s) ==
    /\ sessions' = Without(sessions, s)
    /\ loggedOut' = loggedOut \cup {s}
    /\ UNCHANGED <<clock, totp, lastStep, codes, passkey, challenges, req, add,
                   lastUse, source, issued, spent>>

-----------------------------------------------------------------------------
(* Passkeys. *)

\* BeginPasskeyLogin, BeginPasskeyRegistration (behind the middleware): Put.
BeginPasskey(r, k) ==
    /\ Waiting(r, "authed") \/ (Waiting(r, "idle") /\ passkey)
    /\ k \notin issued
    /\ challenges' = With(challenges, k, clock + ChallengeTTL)
    /\ issued' = issued \cup {k}
    /\ Moves(r, Idle)
    /\ UNCHANGED <<clock, dbVars, add, lastUse, source, loggedOut, spent>>

\* Take: deleted first, then its expiry is looked at.
Take(r, k, then) ==
    /\ k \in DOMAIN challenges
    /\ challenges' = Without(challenges, k)
    /\ Moves(r, IF clock >= challenges[k] THEN Idle ELSE then)
    /\ UNCHANGED <<clock, dbVars, add, ghostVars>>
FinishPasskeyLogin(r, k) == Waiting(r, "idle") /\ Take(r, k, [at |-> "assert", source |-> {k}])
FinishPasskeyRegistration(r, k) == Waiting(r, "authed") /\ Take(r, k, [at |-> "attest"])

\* WebAuthn: FinishLogin, FinishRegistration
Asserted(r) ==
    /\ Waiting(r, "assert")
    /\ \/ passkey /\ Moves(r, [at |-> "create", source |-> req[r].source])
       \/ Moves(r, Idle)
    /\ UNCHANGED <<clock, dbVars, challenges, add, ghostVars>>
Attested(r) ==
    /\ Waiting(r, "attest") /\ Moves(r, Idle)
    /\ passkey' \in {TRUE, passkey}
    /\ UNCHANGED <<clock, sessions, totp, lastStep, codes, challenges, add, ghostVars>>

-----------------------------------------------------------------------------
(* `operator add`: BootstrapTOTP.  Every row is an INSERT of its own, the   *)
(* codes first, and the run may die between two of them.                   *)

HasOperator == totp # {}
CodesOf(a) == {a} \X (1..CodeCount)
AddBegin(a) ==
    /\ add[a] = -1 /\ ~HasOperator
    /\ add' = [add EXCEPT ![a] = 0]
    /\ UNCHANGED <<clock, dbVars, challenges, req, ghostVars>>
SaveRecoveryCode(a) ==
    /\ add[a] \in 0..CodeCount - 1
    /\ codes' = codes \cup {<<a, add[a] + 1>>}
    /\ add' = [add EXCEPT ![a] = @ + 1]
    /\ UNCHANGED <<clock, sessions, totp, lastStep, passkey, challenges, req, ghostVars>>
Ready(a) == add[a] = CodeCount
SaveTOTP(a) ==
    /\ Ready(a)
    /\ totp' = totp \cup {a}
    /\ add' = [add EXCEPT ![a] = CodeCount + 1]    \* prints the secret and the codes
    /\ UNCHANGED <<clock, sessions, lastStep, codes, passkey, challenges, req, ghostVars>>
AddDies(a) ==
    /\ add[a] \in 0..CodeCount
    /\ add' = [add EXCEPT ![a] = CodeCount + 2]
    /\ UNCHANGED <<clock, dbVars, challenges, req, ghostVars>>

-----------------------------------------------------------------------------
\* The hub is restarted: requests and challenges are gone, the tables stay.
Restart ==
    /\ challenges' = <<>> /\ req' = [r \in Requests |-> Idle]
    /\ UNCHANGED <<clock, dbVars, add, ghostVars>>
Tick ==
    /\ clock < MaxClock /\ clock' = clock + 1
    /\ UNCHANGED <<dbVars, challenges, req, add, ghostVars>>

OperatorNext ==
    \/ \E r \in Requests :
          \/ \E step \in StepsAround(clock) : LoginTOTP(r, step)
          \/ SetTOTPStep(r)
          \/ \E c \in codes : LoginRecovery(r, c)
          \/ \E s \in Sids : NewSession(r, s)
          \/ \E s \in DOMAIN sessions : Validate(r, s)
          \/ Refresh(r) \/ Served(r)
          \/ \E k \in Keys : \/ BeginPasskey(r, k)
                             \/ FinishPasskeyLogin(r, k) \/ FinishPasskeyRegistration(r, k)
          \/ Asserted(r) \/ Attested(r)
    \/ \E s \in DOMAIN lastUse : Logout(s)
    \/ \E a \in Adders : AddBegin(a) \/ SaveRecoveryCode(a) \/ SaveTOTP(a) \/ AddDies(a)
    \/ Restart \/ Tick

OperatorSpec == OperatorInit /\ [][OperatorNext]_operatorVars

-----------------------------------------------------------------------------
(* Properties. *)

OperatorTypeOK ==
    /\ clock \in 1..MaxClock
    /\ DOMAIN lastUse \subseteq Sids /\ DOMAIN source = DOMAIN lastUse
    /\ DOMAIN sessions \subseteq DOMAIN lastUse
    /\ totp \subseteq Adders /\ lastStep \in 0..clock + 1
    /\ codes \subseteq Adders \X (1..CodeCount)
    /\ passkey \in BOOLEAN
    /\ DOMAIN challenges \subseteq issued /\ issued \subseteq Keys
    /\ add \in [Adders -> -1..CodeCount + 2]

\* A session that was logged out stays out, also when a request that had read
\* it as live refreshes it after the logout (usecase.go:164-187).
LogoutIsFinal == loggedOut \cap DOMAIN sessions = {}

\* A session nobody used for the session's lifetime has expired, whatever the
\* order in which refreshes reach the table (usecase.go:173-177).
IdleSessionExpires == \A s \in DOMAIN sessions : sessions[s] <= lastUse[s] + TTL

\* A recovery code, or a passkey challenge, opens one session at most, however
\* many requests present it at once (operator_store.go:75, challenge_store.go:38);
\* and an operator that exists has the codes that were made with it, apart from
\* those used: a run of `operator add` that dies earlier leaves no operator, and
\* may be repeated (usecase.go:100-105).
CodesAccountedFor ==
    /\ OperatorTypeOK
    /\ \A s, t \in DOMAIN source : source[s] \cap source[t] # {} => s = t
    /\ \A a \in totp : CodesOf(a) \subseteq codes \cup spent
=============================================================================
