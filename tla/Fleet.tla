-------------------------------- MODULE Fleet --------------------------------
(***************************************************************************)
(* Machines joining and leaving: app/enroll over the SQLite tables         *)
(* enroll_tokens, machines and machine_credentials, `constellate-agent     *)
(* enroll`, `reset` and the dial of `connect` on one agent, and the hub's  *)
(* check of a dial before its control loop.  Each statement sent to the    *)
(* database is a step, and so is each file the agent writes.               *)
(***************************************************************************)
EXTENDS Integers, FiniteSets, Functions

CONSTANTS
    Tokens,       \* enrolment tokens
    Tries,        \* runs of `enroll`; a run's key pair is named by the run
    Machines,     \* machine ids, fresh ones from newID
    Dials,        \* connections being authenticated or online at the hub
    TokenTTL,     \* tokenTTL
    SkewMax,      \* agentTokenSkew
    MaxNow,       \* bound on time
    none

ASSUME FleetAssumption ==
    /\ {TokenTTL, MaxNow} \subseteq Nat \ {0} /\ SkewMax \in Nat
    /\ none \notin Tokens \cup Tries \cup Machines

VARIABLES
    now,
    token,      \* enroll_tokens: token to [expires, used]
    row,        \* machines: id to whether revoked_at is set
    cred,       \* machine_credentials: id to public key
    try,        \* each enrolment: its step, its token and the id it was given
    files,      \* the agent's id and credential files
    held,       \* what the running `connect` read from them
    dial,       \* each connection: its step and the id, key and time of its token
    deleting,   \* ids an admin's Delete has found revoked
    barred,     \* ids revoked or deleted, and not unrevoked since
    everDeleted,
    writer      \* the run that wrote the id file last

fleetVars == <<now, token, row, cred, try, files, held, dial, deleting,
               barred, everDeleted, writer>>
tableVars == <<token, row, cred>>
adminVars == <<deleting, barred, everDeleted>>
agentVars == <<files, held, writer>>

NoFiles == [id |-> none, key |-> none]
Started == [at |-> "idle", token |-> none, id |-> none]
Closed  == [at |-> "closed", id |-> none, key |-> none, ts |-> 0, saved |-> none, late |-> FALSE]
Put(f, k, v) == [x \in DOMAIN f \cup {k} |-> IF x = k THEN v ELSE f[x]]
Drop(f, k)   == Restrict(f, DOMAIN f \ {k})

FleetInit ==
    /\ now = 0
    /\ token = <<>> /\ row = <<>> /\ cred = <<>>
    /\ try = [t \in Tries |-> Started]
    /\ files = NoFiles /\ held = NoFiles /\ writer = none
    /\ dial = [d \in Dials |-> Closed]
    /\ deleting = {} /\ barred = {} /\ everDeleted = {}

-----------------------------------------------------------------------------
(* Enrolment. *)

\* MintToken, run by `hub enroll-token`
MintToken(k) ==
    /\ k \notin DOMAIN token
    /\ token' = Put(token, k, [expires |-> now + TokenTTL, used |-> FALSE])
    /\ UNCHANGED <<now, row, cred, try, agentVars, dial, adminVars>>

At(t, where) == try[t].at = where
Advance(t, where) == try' = [try EXCEPT ![t].at = where]

\* Consume: one UPDATE over the three conditions.
ValidOnce(k) == token[k].expires > now             \* mutant: used_at is not looked at
Valid(k) == ~token[k].used /\ token[k].expires > now
Consume(t, k) ==
    /\ At(t, "idle")
    /\ Valid(k)
    /\ token' = [token EXCEPT ![k].used = TRUE]
    /\ try' = [try EXCEPT ![t] = [at |-> "consumed", token |-> k, id |-> none]]
    /\ UNCHANGED <<now, row, cred, agentVars, dial, adminVars>>
\* Upsert of a machine with an id of its own
Enrolled(t, m) ==
    /\ At(t, "consumed") /\ m \notin {try[u].id : u \in Tries}
    /\ row' = Put(row, m, FALSE)
    /\ try' = [try EXCEPT ![t].at = "upserted", ![t].id = m]
    /\ UNCHANGED <<now, token, cred, agentVars, dial, adminVars>>
\* Save: the row it refers to may be gone, and the foreign key then refuses.
HasMachine(m) == m \in DOMAIN row
SaveCredential(t) ==
    /\ At(t, "upserted")
    /\ \/ /\ HasMachine(try[t].id)
          /\ cred' = Put(cred, try[t].id, t)
          /\ Advance(t, "saved")
       \/ ~HasMachine(try[t].id) /\ Advance(t, "failed") /\ UNCHANGED cred
    /\ UNCHANGED <<now, token, row, agentVars, dial, adminVars>>
\* The response reaches the agent.
ReplyEarly(t) == At(t, "upserted") \/ At(t, "saved")  \* mutant: replies before Save
Reply(t) == At(t, "saved")
Answer(t) ==
    /\ Reply(t) /\ Advance(t, "answered")
    /\ UNCHANGED <<now, tableVars, agentVars, dial, adminVars>>
\* cmdEnroll writes the id file, then the key.  One run at a time writes them:
\* runs that overlap are of other agents, followed here up to their answer.
WriteId(t) ==
    /\ At(t, "answered") /\ ~\E u \in Tries : At(u, "named")
    /\ files' = [files EXCEPT !.id = try[t].id] /\ writer' = t
    /\ Advance(t, "named")
    /\ UNCHANGED <<now, tableVars, held, dial, adminVars>>
WriteKey(t) ==
    /\ At(t, "named")
    /\ files' = [files EXCEPT !.key = t]
    /\ Advance(t, "done")
    /\ UNCHANGED <<now, tableVars, held, writer, dial, adminVars>>
\* The hub stops, the response is lost or the agent is killed.
EnrollDies(t) ==
    /\ try[t].at \in {"consumed", "upserted", "saved", "answered", "named"}
    /\ Advance(t, "failed")
    /\ UNCHANGED <<now, tableVars, agentVars, dial, adminVars>>
\* cmdReset removes the id file first, and may stop at an error.
Reset ==
    /\ ~\E t \in Tries : At(t, "named")
    /\ files' \in {NoFiles, [files EXCEPT !.id = none]} /\ writer' = none
    /\ UNCHANGED <<now, tableVars, held, try, dial, adminVars>>

-----------------------------------------------------------------------------
(* Dialling home. *)

\* cmdConnect reads both files, or exits.
Connect ==
    /\ files.id # none /\ files.key # none /\ held' = files
    /\ UNCHANGED <<now, tableVars, try, files, writer, dial, adminVars>>
\* connectOnce signs id and time; the hub receives it.
Dial(d) ==
    /\ dial[d].at = "closed" /\ held.id # none
    /\ dial' = [dial EXCEPT ![d] = [Closed EXCEPT !.at = "asked", !.id = held.id, !.key = held.key,
                                    !.ts = now, !.late = held.id \in barred]]
    /\ UNCHANGED <<now, tableVars, try, agentVars, adminVars>>
\* Authenticate: the public key, then the machine and the signature, then Hello
\* (whose id connectOnce takes from the same file) and Register's Upsert, which
\* leaves revoked_at alone and brings back a row deleted meanwhile.
PublicKey(d) ==
    /\ dial[d].at = "asked"
    /\ IF dial[d].id \in DOMAIN cred
       THEN dial' = [dial EXCEPT ![d].at = "key", ![d].saved = cred[dial[d].id]]
       ELSE dial' = [dial EXCEPT ![d] = Closed]
    /\ UNCHANGED <<now, tableVars, try, agentVars, adminVars>>
Admitted(d) ==
    /\ dial[d].id \in DOMAIN row /\ ~row[dial[d].id]
    /\ dial[d].saved = dial[d].key /\ now - dial[d].ts <= SkewMax
Authenticate(d) ==
    /\ dial[d].at = "key"
    /\ dial' = IF Admitted(d) THEN [dial EXCEPT ![d].at = "hello"] ELSE [dial EXCEPT ![d] = Closed]
    /\ UNCHANGED <<now, tableVars, try, agentVars, adminVars>>
Replaced(m) == Put(row, m, FALSE)                  \* mutant: the upsert clears revoked_at
Upserted(m) == Put(row, m, m \in DOMAIN row /\ row[m])
Register(d) ==
    /\ dial[d].at = "hello"
    /\ row' = Upserted(dial[d].id)
    /\ dial' = [dial EXCEPT ![d].at = "online"]
    /\ UNCHANGED <<now, token, cred, try, agentVars, adminVars>>
HangUp(d) ==
    /\ dial[d].at # "closed" /\ dial' = [dial EXCEPT ![d] = Closed]
    /\ UNCHANGED <<now, tableVars, try, agentVars, adminVars>>

-----------------------------------------------------------------------------
(* The operator's machine actions. *)

\* For RevokedStaysOut: dials of m under way are no longer counted as late.
Pardoned(m) ==
    [d \in Dials |-> IF dial[d].id = m THEN [dial[d] EXCEPT !.late = FALSE] ELSE dial[d]]
Revoke(m) ==
    /\ m \in DOMAIN row
    /\ row' = [row EXCEPT ![m] = TRUE] /\ barred' = barred \cup {m}
    /\ UNCHANGED <<now, token, cred, try, agentVars, dial, deleting, everDeleted>>
Unrevoke(m) ==
    /\ m \in DOMAIN row
    /\ row' = [row EXCEPT ![m] = FALSE] /\ barred' = barred \ {m}
    /\ dial' = Pardoned(m)
    /\ UNCHANGED <<now, token, cred, try, agentVars, deleting, everDeleted>>
\* Delete: found revoked, then deleted with all that refers to it in one transaction.
DeleteChecks(m) ==
    /\ m \in DOMAIN row /\ row[m] /\ m \notin deleting
    /\ deleting' = deleting \cup {m}
    /\ UNCHANGED <<now, tableVars, try, agentVars, dial, barred, everDeleted>>
DeleteMachine(m) ==
    /\ m \in deleting /\ deleting' = deleting \ {m}
    /\ row' = Drop(row, m) /\ cred' = Drop(cred, m)
    /\ barred' = barred \cup {m} /\ everDeleted' = everDeleted \cup {m}
    /\ dial' = Pardoned(m)
    /\ UNCHANGED <<now, token, try, agentVars>>

FleetTick ==
    /\ now < MaxNow /\ now' = now + 1
    /\ UNCHANGED <<tableVars, try, agentVars, dial, adminVars>>

FleetNext ==
    \/ \E k \in Tokens : MintToken(k)
    \/ \E t \in Tries :
          \/ \E k \in DOMAIN token : Consume(t, k)
          \/ \E m \in Machines : Enrolled(t, m)
          \/ SaveCredential(t) \/ Answer(t) \/ WriteId(t) \/ WriteKey(t) \/ EnrollDies(t)
    \/ Reset \/ Connect
    \/ \E d \in Dials : Dial(d) \/ PublicKey(d) \/ Authenticate(d) \/ Register(d) \/ HangUp(d)
    \/ \E m \in Machines : Revoke(m) \/ Unrevoke(m) \/ DeleteChecks(m) \/ DeleteMachine(m)
    \/ FleetTick

FleetSpec == FleetInit /\ [][FleetNext]_fleetVars

-----------------------------------------------------------------------------
(* Properties. *)

FleetTypeOK ==
    /\ now \in 0..MaxNow /\ DOMAIN token \subseteq Tokens
    /\ DOMAIN row \subseteq Machines /\ DOMAIN cred \subseteq DOMAIN row
    /\ files.id \in Machines \cup {none} /\ files.key \in Tries \cup {none}
    /\ held.id \in Machines \cup {none} /\ held.key \in Tries \cup {none}

\* A token enrols one machine at most, however many runs present it at once
\* (enroll_token_store.go:35).
TokenOnce ==
    /\ FleetTypeOK
    /\ \A t, u \in Tries : try[t].token = try[u].token /\ try[t].token # none => t = u

\* A machine that was revoked, or revoked and deleted, does not come online with
\* a dial it began afterwards, unless it was unrevoked or deleted while that
\* dial was under way, whatever other connection of it was being registered at
\* the time (usecase.go:115-181).
RevokedStaysOut == \A d \in Dials : dial[d].at \in {"hello", "online"} => ~dial[d].late

\* After an `enroll` that reported success the agent's two files are a pair the
\* hub knows, until the machine is deleted or the agent enrols again or resets
\* (main.go:588-602, usecase.go:98-110).
EnrolledCanDial ==
    \A t \in Tries : At(t, "done") /\ writer = t =>
        /\ files = [id |-> try[t].id, key |-> t]
        /\ try[t].id \in everDeleted \/ (try[t].id \in DOMAIN cred /\ cred[try[t].id] = t)
=============================================================================
