----------------------------- MODULE DatabaseSwitch -----------------------------
(***************************************************************************)
(* Moving the application to another PostgreSQL database. The endpoint     *)
(* checks the target and leaves the rest to a task of the web process; no  *)
(* lock keeps a second switch from starting. The task migrates the schema, *)
(* may copy the data to the target, writes the target's URL to config.json *)
(* and reports in the one status file. The next start reads the URL, unless    *)
(* the environment has one, and migrates the database it names.            *)
(***************************************************************************)
EXTENDS Naturals, FiniteSets

CONSTANTS
    Switch,         \* accepted requests
    Database,
    LocalDatabase,  \* the bundled one, in use at first
    MaxStarts       \* bound on the starts of the process

ASSUME SwitchAssumption ==
    LocalDatabase \in Database /\ MaxStarts \in Nat \ {0}

VARIABLES
    fromEnv,    \* whether the environment names a database, too (the local one)
    activeUrl,     \* the database the process uses: settings.DATABASE_URL
    configUrl,     \* DATABASE_URL in config.json
    schema,     \* databases with the schema
    copied,     \* [Database -> databases whose data were copied to it]
    switch,     \* [Switch -> [step, target, source, copy]]
    statusFile,     \* the status file: [phase, host]
    starts

switchVars == <<fromEnv, activeUrl, configUrl, schema, copied, switch, statusFile, starts>>

NoSwitch == [step |-> "none", target |-> LocalDatabase, source |-> LocalDatabase, copy |-> FALSE]
SwitchOver == {"completed", "failed"}

SwitchInit ==
    /\ fromEnv \in BOOLEAN
    /\ activeUrl = LocalDatabase /\ configUrl = LocalDatabase
    /\ schema \in SUBSET Database /\ LocalDatabase \in schema
    /\ copied = [d \in Database |-> {}]
    /\ switch = [w \in Switch |-> NoSwitch]
    /\ statusFile = [phase |-> "idle", host |-> LocalDatabase]
    /\ starts = 1

(* status.phase, written by whoever writes last.                            *)
SetPhase(w, p) ==
    /\ switch' = [switch EXCEPT ![w].step = p]
    /\ statusFile' = [phase |-> p, host |-> switch[w].target]

-----------------------------------------------------------------------------
start_switch(w, d, copy) ==
    /\ switch[w].step = "none"
    /\ switch' = [switch EXCEPT ![w] = [step |-> "accepted", target |-> d,
                                        source |-> activeUrl, copy |-> copy]]
    /\ UNCHANGED <<fromEnv, activeUrl, configUrl, schema, copied, statusFile, starts>>

(* Connection, extension and privileges: the target is not changed.         *)
CheckTarget(w) ==
    /\ \/ switch[w].step = "accepted" /\ SetPhase(w, "validating")
       \/ switch[w].step = "validating" /\ SetPhase(w, "checking_pgvector")
       \/ switch[w].step = "checking_pgvector" /\ SetPhase(w, "preflight")
       \/ switch[w].step = "preflight" /\ SetPhase(w, "migrating_schema")
    /\ UNCHANGED <<fromEnv, activeUrl, configUrl, schema, copied, starts>>

(* In a thread, and then whatever follows. alembic/env.py replaces the URL  *)
(* it is given by that of the settings: what is migrated is the database in *)
(* use, which was migrated at the start.                                    *)
run_alembic_upgrade(w) ==
    /\ switch[w].step = "migrating_schema"
    /\ schema' = schema \cup {activeUrl}
    /\ IF switch[w].copy THEN SetPhase(w, "migrating_data")
       ELSE switch' = [switch EXCEPT ![w].step = "ready"] /\ UNCHANGED statusFile
    /\ UNCHANGED <<fromEnv, activeUrl, configUrl, copied, starts>>

(* Data only: there must be tables to restore them to.                      *)
copy_data(w) ==
    /\ switch[w].step = "migrating_data" /\ switch[w].target \in schema
    /\ copied' = [copied EXCEPT ![switch[w].target] = @ \cup {switch[w].source}]
    /\ switch' = [switch EXCEPT ![w].step = "ready"]
    /\ UNCHANGED <<fromEnv, activeUrl, configUrl, schema, statusFile, starts>>

PersistUrl_BeforeCopy(w) ==
    /\ switch[w].step \in {"migrating_data", "ready"}
    /\ configUrl' = switch[w].target
    /\ SetPhase(w, "completed")
    /\ UNCHANGED <<fromEnv, activeUrl, schema, copied, starts>>

(* The URL and the last status are written without an await between them.   *)
PersistUrl(w) ==
    /\ switch[w].step = "ready"
    /\ configUrl' = switch[w].target
    /\ SetPhase(w, "completed")
    /\ UNCHANGED <<fromEnv, activeUrl, schema, copied, starts>>

(* A check, the migration, the copy or a write of a file raises; the last   *)
(* one to be written comes after the URL.                                   *)
SwitchFails(w) ==
    /\ switch[w].step \in {"validating", "checking_pgvector", "preflight",
                           "migrating_schema", "migrating_data", "ready"}
    /\ SetPhase(w, "failed")
    /\ \/ UNCHANGED configUrl
       \/ switch[w].step = "ready" /\ configUrl' = switch[w].target
    /\ UNCHANGED <<fromEnv, activeUrl, schema, copied, starts>>

(* SIGTERM two seconds after a completed switch, or any other restart: the  *)
(* switches under way end where they are.                                   *)
RestartProcess ==
    /\ starts < MaxStarts /\ starts' = starts + 1
    /\ activeUrl' = IF fromEnv THEN LocalDatabase ELSE configUrl
    /\ schema' = schema \cup {activeUrl'}
    /\ switch' = [w \in Switch |->
                   IF switch[w].step \in {"none"} \cup SwitchOver THEN switch[w]
                   ELSE [switch[w] EXCEPT !.step = "killed"]]
    /\ UNCHANGED <<fromEnv, configUrl, copied, statusFile>>

perform_switch(w) ==
    \/ CheckTarget(w) \/ run_alembic_upgrade(w) \/ copy_data(w)
    \/ PersistUrl(w) \/ SwitchFails(w)

SwitchNext ==
    \/ \E w \in Switch : perform_switch(w)
    \/ \E w \in Switch, d \in Database, copy \in BOOLEAN : start_switch(w, d, copy)
    \/ RestartProcess

SwitchSpec == SwitchInit /\ [][SwitchNext]_switchVars

-----------------------------------------------------------------------------
SwitchTypeOK ==
    LET Phases == {"none", "accepted", "validating", "checking_pgvector", "preflight",
                   "migrating_schema", "migrating_data", "ready", "killed"} \cup SwitchOver
    IN
    /\ fromEnv \in BOOLEAN
    /\ activeUrl \in Database /\ configUrl \in Database /\ schema \subseteq Database
    /\ copied \in [Database -> SUBSET Database]
    /\ switch \in [Switch -> [step : Phases, target : Database, source : Database,
                              copy : BOOLEAN]]
    /\ statusFile \in [phase : Phases \cup {"idle"}, host : Database]
    /\ starts \in 1 .. MaxStarts

(* Whatever switches run at once, fail or are cut short: a switch that was  *)
(* asked to copy completes only with the data, and so the schema, of the    *)
(* database it was to leave on its target; a status "completed" names the   *)
(* database in config.json; and the one in use has the schema.              *)
CompletedIsCopied ==
    /\ \A w \in Switch : switch[w].step = "completed" /\ switch[w].copy =>
         /\ switch[w].source \in copied[switch[w].target]
         /\ switch[w].target \in schema
    /\ statusFile.phase = "completed" => statusFile.host = configUrl
    /\ activeUrl \in schema
=============================================================================
