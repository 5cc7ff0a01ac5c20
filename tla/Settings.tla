------------------------------ MODULE Settings ------------------------------
(***************************************************************************)
(* The configuration of the server: the fields of type handlers, which the *)
(* settings form changes, the client built from them, and the .env file    *)
(* they are kept in and that the server is started with                    *)
(* (internal/server/settings.go, server.go, cmd/pikvm/main.go).            *)
(*                                                                         *)
(* h.mu protects the fields and h.kvm, but settingsSave takes it twice and *)
(* rewrites .env without it: a save is five steps, and two saves           *)
(* interleave. The process may be killed between any two of them; a        *)
(* SIGTERM is no better, as Run returns without waiting for srv.Shutdown.  *)
(*                                                                         *)
(* Three fields stand for the six: "host"; "pass", persisted and with a    *)
(* default, as user is; "ssh" for ssh_pass, ssh_user and ssh_key_path,     *)
(* which the form changes in memory only. Hosts are machines: main.go puts *)
(* https:// before the name it loads, and New and SetSSH do not mind.      *)
(*                                                                         *)
(* A save writes KEY="value" as it was typed, and scripts/reload.sh has    *)
(* bash source the file, which changes a password that holds $, a quote, a *)
(* backtick or a backslash, or stops at it. What bash reads of a value is  *)
(* the constant Sourced.                                                   *)
(***************************************************************************)

CONSTANTS
    Savers,     \* requests POST /api/settings that may be under way
    Hosts,
    Secrets,
    admin,      \* the default password
    None,       \* an empty field, an absent line, no client
    Forms,      \* what is submitted
    Files,      \* what .env holds at first, or after a vault pull or a repair
    Sourced     \* what bash reads of a value, None when the script stops there

Settable == [host : Hosts \cup {None}, pass : Secrets \cup {None},
             ssh : Secrets \cup {None}]

Fields == [host : Hosts \cup {None}, pass : Secrets, ssh : Secrets]

(* The lines of .env; "ssh" is one of the lines no save ever writes. *)
Contents == Settable

(* reload.sh gets to the end of the file. *)
Sourceable(lines) ==
    \A v \in {lines.pass, lines.ssh} \ {None} : Sourced[v] # None

ASSUME SettingsAssumption ==
    /\ admin \in Secrets /\ None \notin Hosts \cup Secrets \cup Fields \cup Contents
    /\ Forms \subseteq Settable /\ Files \subseteq Contents
    /\ Sourced \in [Secrets -> Secrets \cup {None}]
    /\ \A lines \in Files : Sourceable(lines)

VARIABLES
    fields,    \* h.host, h.pass, h.sshPass, ...
    kvm,       \* what h.kvm was built from, or None
    env,       \* the file
    spc,       \* per save: its next step
    form,      \* per save: what was submitted
    work,      \* per save: the snapshot for the client, then the new lines
    met,       \* history: saves under way that overlapped another
    clientDue, \* history: a save alone has to come before kvm can be relied on
    saved      \* history: the lines saves were answered for; None once two saves
               \* met, or one failed to write the file

settingsVars == <<fields, kvm, env, spc, form, work, met, clientDue, saved>>

Empty == [host |-> None, pass |-> None, ssh |-> None]

(* The value of a line in the environment, and with its default. *)
Read(v) == IF v = None THEN None ELSE Sourced[v]
OrElse(v, default) == IF v = None THEN default ELSE v

(* reload.sh sources the file, main.go and Run fill in the defaults; the   *)
(* SSH password falls back to the web password.                            *)
Loaded(lines) ==
    LET pass == OrElse(Read(lines.pass), admin)
    IN  [host |-> lines.host, pass |-> pass, ssh |-> OrElse(Read(lines.ssh), pass)]

(* client.New and SetSSH, when there is a host. *)
ClientOf(f) == IF f.host = None THEN None ELSE f

NoSave == [s \in Savers |-> "idle"]
NoData == [s \in Savers |-> Empty]

SettingsInit ==
    /\ env \in Files
    /\ fields = Loaded(env) /\ kvm = ClientOf(fields)
    /\ spc = NoSave /\ form = NoData /\ work = NoData /\ met = {}
    /\ clientDue = FALSE /\ saved = env

Saving == {s \in Savers : spc[s] # "idle"}

-----------------------------------------------------------------------------
(* settingsSave.                                                           *)

(* Mutant: an empty field clears the value. *)
MergeBlank(old, f) == f

(* A field left empty keeps its value. *)
Keep(old, new) == IF new = None THEN old ELSE new

Merge(old, f) == [host |-> Keep(old.host, f.host), pass |-> Keep(old.pass, f.pass),
                  ssh  |-> Keep(old.ssh, f.ssh)]

Persisted(f) == [host |-> f.host, pass |-> f.pass, ssh |-> None]

(* Mutant: the old client is dropped with the old fields. *)
SaveFieldsDrops(s) ==
    /\ spc[s] = "idle"
    /\ \E f \in Forms :
        /\ fields' = Merge(fields, f)
        /\ form' = [form EXCEPT ![s] = f]
    /\ work' = [work EXCEPT ![s] = fields'] /\ kvm' = None
    /\ spc' = [spc EXCEPT ![s] = IF fields'.host = None THEN "open" ELSE "build"]
    /\ UNCHANGED <<env, met, clientDue, saved>>

(* The first critical section: the fields, and the snapshot of all. *)
SaveFields(s) ==
    /\ spc[s] = "idle"
    /\ \E f \in Forms :
        /\ fields' = Merge(fields, f)
        /\ form' = [form EXCEPT ![s] = f]
    /\ work' = [work EXCEPT ![s] = fields']
    /\ spc' = [spc EXCEPT ![s] = IF fields'.host = None THEN "open" ELSE "build"]
    /\ IF Saving = {}
       THEN UNCHANGED <<met, clientDue, saved>>
       ELSE met' = met \cup Saving \cup {s} /\ clientDue' = TRUE /\ saved' = None
    /\ UNCHANGED <<kvm, env>>

(* Mutant: only a new host calls for a new client. *)
BuildForNewHost(s) ==
    /\ spc[s] = "build"
    /\ kvm' = IF form[s].host = None THEN kvm ELSE work[s]
    /\ clientDue' = (s \in met)
    /\ spc' = [spc EXCEPT ![s] = "open"]
    /\ UNCHANGED <<fields, env, form, work, met, saved>>

(* The second one: the client of the snapshot. *)
BuildClient(s) ==
    /\ spc[s] = "build"
    /\ kvm' = work[s]
    /\ clientDue' = (s \in met)
    /\ spc' = [spc EXCEPT ![s] = "open"]
    /\ UNCHANGED <<fields, env, form, work, met, saved>>

(* The answer is "settings saved" in every case. *)
Answer(s) ==
    /\ spc' = [spc EXCEPT ![s] = "idle"]
    /\ form' = [form EXCEPT ![s] = Empty] /\ work' = [work EXCEPT ![s] = Empty]
    /\ met' = met \ {s}
    /\ UNCHANGED <<fields, kvm, clientDue>>

NothingToPersist(s) ==
    /\ spc[s] = "open" /\ Persisted(form[s]) = Empty
    /\ Answer(s) /\ UNCHANGED <<env, saved>>

(* Mutant: a key without a line in the file is not appended. *)
ReadEnvNoAppend(s) ==
    /\ spc[s] = "open" /\ Persisted(form[s]) # Empty
    /\ LET lines == Merge(env, Persisted(form[s]))
       IN  work' = [work EXCEPT ![s] =
                        [lines EXCEPT !.pass = IF env.pass = None THEN None ELSE @]]
    /\ spc' = [spc EXCEPT ![s] = "write"]
    /\ UNCHANGED <<fields, kvm, env, form, met, clientDue, saved>>

(* updateEnvFile replaces or appends the lines of the form and keeps all   *)
(* others.                                                                 *)
ReadEnv(s) ==
    /\ spc[s] = "open" /\ Persisted(form[s]) # Empty
    /\ work' = [work EXCEPT ![s] = Merge(env, Persisted(form[s]))]
    /\ spc' = [spc EXCEPT ![s] = "write"]
    /\ UNCHANGED <<fields, kvm, env, form, met, clientDue, saved>>

(* No .env, as in a container, or none that can be read: logged only. *)
ReadFails(s) ==
    /\ spc[s] = "open" /\ Persisted(form[s]) # Empty
    /\ Answer(s) /\ saved' = None /\ UNCHANGED env

(* os.WriteFile opens the file with O_TRUNC, ... *)
Truncate(s) ==
    /\ spc[s] = "write"
    /\ env' = Empty
    /\ spc' = [spc EXCEPT ![s] = "written"]
    /\ UNCHANGED <<fields, kvm, form, work, met, clientDue, saved>>

(* ... or fails to, ... *)
OpenFails(s) ==
    /\ spc[s] = "write"
    /\ Answer(s) /\ saved' = None /\ UNCHANGED env

(* Lines that come from either of two texts. *)
Mixtures(a, b) ==
    {[host |-> h, pass |-> p, ssh |-> q] : h \in {a.host, b.host},
                                           p \in {a.pass, b.pass},
                                           q \in {a.ssh, b.ssh}}

(* ... and writes from the start: of what another writer has put into the  *)
(* file meanwhile, the end may remain.                                     *)
Write(s) ==
    /\ spc[s] = "written"
    /\ env' \in IF env = Empty THEN {work[s]} ELSE Mixtures(work[s], env)
    /\ saved' = IF saved = None THEN None ELSE Merge(saved, Persisted(form[s]))
    /\ Answer(s)

(* The disk is full: a part of the lines at most. *)
WriteFails(s) ==
    /\ spc[s] = "written"
    /\ env' \in Mixtures(work[s], env)
    /\ Answer(s) /\ saved' = None

-----------------------------------------------------------------------------
(* The process ends, by a signal or a crash, and reload.sh starts it anew: *)
(* on the file as it is, when bash can read it, or on one that the vault   *)
(* or a hand has written before. A file that a save was just rewriting is  *)
(* cut.                                                                    *)
Restart ==
    /\ env' \in Files \cup {lines \in {env} : Sourceable(lines)}
    /\ fields' = Loaded(env')
    /\ kvm' = ClientOf(fields')
    /\ spc' = NoSave /\ form' = NoData /\ work' = NoData /\ met' = {}
    /\ clientDue' = FALSE
    /\ saved' = IF env' = env /\ saved # None /\ \A s \in Savers : spc[s] # "written"
                THEN saved ELSE env'

SaveStep(s) ==
    \/ SaveFields(s) \/ BuildClient(s) \/ NothingToPersist(s) \/ ReadEnv(s)
    \/ ReadFails(s) \/ Truncate(s) \/ OpenFails(s) \/ Write(s) \/ WriteFails(s)

SettingsNext == Restart \/ \E s \in Savers : SaveStep(s)

SettingsSpec == SettingsInit /\ [][SettingsNext]_settingsVars

-----------------------------------------------------------------------------
(* Properties.                                                             *)

(* Type invariant. *)
SettingsTypeOK ==
    /\ fields \in Fields /\ kvm \in Fields \cup {None}
    /\ env \in Contents
    /\ spc \in [Savers -> {"idle", "build", "open", "write", "written"}]
    /\ form \in [Savers -> Settable] /\ work \in [Savers -> Settable]
    /\ met \subseteq Savers
    /\ clientDue \in BOOLEAN /\ saved \in Contents \cup {None}

(* Requests go to the host, and with the credentials, that the settings    *)
(* show (h.host is also where the live preview comes from). Two saves at a *)
(* time may break this for good; one save that meets no other repairs it,  *)
(* whichever fields it changes.                                            *)
ClientCurrent ==
    clientDue \/ (\E s \in Savers : spc[s] = "build") \/ kvm = ClientOf(fields)

(* The file holds what the last saves were answered for and every other    *)
(* line as it was, whatever the file held before and wherever a restart    *)
(* cut a save, unless it cut one that had truncated the file, two saves    *)
(* met, or one failed to write it. So the server would start again with    *)
(* the host and the password it has now, the password as bash reads it.    *)
RestartKeepsSettings ==
    saved # None /\ Saving = {} =>
        /\ env = saved
        /\ Loaded(env).host = fields.host
        /\ fields.pass \in {OrElse(env.pass, admin), Loaded(env).pass}
=============================================================================
