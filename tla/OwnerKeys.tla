----------------------------- MODULE OwnerKeys -----------------------------
(***************************************************************************)
(* Who owns one published benchmark: the owner key in the vault of the     *)
(* operating system, the record that binds the submission to a body, the   *)
(* intent staged before a key is minted and the recovery backups           *)
(* (commands/benchmark_sharing.rs, benchmark/sharing/registry.rs).         *)
(* Application instances share all of it; any of them can be killed        *)
(* between two writes, and the vault can refuse or lose a key.             *)
(***************************************************************************)
EXTENDS Naturals, FiniteSets

CONSTANTS Instances, \* application instances
          Bodies,    \* request bodies, by their hash
          Origins,   \* services the configuration may name
          Keys,      \* owner secrets, each drawn at most once
          Unknown,   \* UNKNOWN_BODY
          Nothing

Bindings == [body : Bodies \cup {Unknown}, origin : Origins]

ASSUME KeyNames == /\ Unknown \notin Bodies /\ Origins # {} /\ Instances # {}
                   /\ Nothing \notin Keys \cup Instances \cup Bindings

VARIABLES
    key,     \* the vault's secret of the submission
    record,  \* owners/<id>.json
    pending, \* owners/<id>.pending.json
    legacy,  \* the entry of the submission in registry.json
    holder,  \* the instance holding the lock file of the submission
    at,      \* at[p]: where the command of instance p is
    backups, \* recovery files that were exported
    drawn,   \* history: secrets drawn so far
    used,    \* history: what signed requests and exports were made with
    lost,    \* history: whether the vault lost the key or the user the records
    unmoved  \* history: whether registry.json was put aside without a record of its entry

keyFiles   == <<key, record, pending, legacy>>
keyHistory == <<backups, drawn, used, lost, unmoved>>
keyVars    == <<keyFiles, holder, at, keyHistory>>

Stages == {"idle", "prepare", "staged", "minted", "committed", "bound",
           "import", "imported", "cleared", "using"}

KeysTypeOK ==
    /\ key \in Keys \cup {Nothing}
    /\ {record, pending, legacy} \subseteq Bindings \cup {Nothing}
    /\ holder \in Instances \cup {Nothing}
    /\ at \in [Instances -> [stage : Stages, body : Bodies \cup {Unknown},
                             origin : Origins, secret : Keys \cup {Nothing}]]
    /\ backups \subseteq [secret : Keys, origin : Origins]
    /\ drawn \subseteq Keys
    /\ used \subseteq [secret : Keys, body : Bodies \cup {Unknown}]
    /\ lost \in BOOLEAN /\ unmoved \in BOOLEAN

Idle == [stage |-> "idle", body |-> Unknown, origin |-> CHOOSE o \in Origins : TRUE,
         secret |-> Nothing]

KeysInit ==
    /\ record = Nothing /\ pending = Nothing
    /\ \/ legacy = Nothing /\ key = Nothing /\ drawn = {}
       \/ /\ legacy \in Bindings \* of an earlier version, with its key
          /\ key \in Keys /\ drawn = {key}
    /\ holder = Nothing
    /\ at = [p \in Instances |-> Idle]
    /\ backups = {} /\ used = {} /\ lost = FALSE /\ unmoved = FALSE

-----------------------------------------------------------------------------
(* Commands *)

Move(p, to) == at' = [at EXCEPT ![p].stage = to] /\ UNCHANGED holder

\* The command returns, with an answer or an error, and its lock is released.
Return(p) ==
    /\ at' = [at EXCEPT ![p] = Idle]
    /\ holder' = IF holder = p THEN Nothing ELSE holder

\* ensure_migrated: a record of the present layout is never overwritten.  An error of
\* the write is ignored and registry.json renamed aside all the same; when the rename
\* fails or the instance is killed before it, the next command migrates again.
Migrated == IF record = Nothing THEN legacy ELSE record

MigrateLegacy(p) ==
    /\ legacy # Nothing
    /\ at[p].stage = "idle"
    /\ record' \in {record, Migrated}
    /\ legacy' \in {legacy, Nothing}
    /\ unmoved' = (unmoved \/ {record', legacy'} = {Nothing})
    /\ UNCHANGED <<key, pending, holder, at, backups, drawn, used, lost>>

\* submission_lock, taken for the whole of prepare_inner and import_path_inner.
Lock(p, command) ==
    /\ at[p].stage = "idle" /\ legacy = Nothing
    /\ holder = Nothing
    /\ holder' = p
    /\ at' = [at EXCEPT ![p] = command]
    /\ UNCHANGED <<keyFiles, keyHistory>>

Prepare(p, b, o) ==
    Lock(p, [stage |-> "prepare", body |-> b, origin |-> o, secret |-> Nothing])

\* ensure_record: a bound submission keeps its record, whatever became of its key.
UnboundKey == Nothing \in {record, key}
Unbound == record = Nothing

FindRecord(p) ==
    /\ at[p].stage = "prepare"
    /\ ~Unbound
    /\ Move(p, "bound")
    /\ UNCHANGED <<keyFiles, keyHistory>>

\* A key without an intent, or with that of another service, is not adopted.
Refuse(p) ==
    /\ at[p].stage = "prepare"
    /\ Unbound /\ key # Nothing
    /\ IF pending = Nothing THEN TRUE ELSE pending.origin # at[p].origin
    /\ Return(p)
    /\ UNCHANGED <<keyFiles, keyHistory>>

\* An interrupted commit is finished with the intent's own values.
Resume(p) ==
    /\ at[p].stage = "prepare"
    /\ Unbound /\ key # Nothing
    /\ pending # Nothing /\ pending.origin = at[p].origin
    /\ Move(p, "minted")
    /\ UNCHANGED <<keyFiles, keyHistory>>

\* The intent is written before the key.
StagedNothing(p) == pending
Staged(p) == [body |-> at[p].body, origin |-> at[p].origin]

Stage(p) ==
    /\ at[p].stage = "prepare"
    /\ Unbound /\ key = Nothing
    /\ pending' = Staged(p)
    /\ Move(p, "staged")
    /\ UNCHANGED <<key, record, legacy, keyHistory>>

\* The vault takes the new secret, or reports an error having taken it or not.
Mint(p) ==
    /\ at[p].stage = "staged"
    /\ \E k \in Keys \ drawn :
          /\ drawn' = drawn \cup {k}
          /\ \/ key' = k /\ (Move(p, "minted") \/ Return(p))
             \/ key' = key /\ Return(p)
    /\ UNCHANGED <<record, pending, legacy, backups, used, lost, unmoved>>

\* commit_pending
CommitStaged(p) ==
    /\ at[p].stage = "minted"
    /\ record' = pending
    /\ Move(p, "committed")
    /\ UNCHANGED <<key, pending, legacy, keyHistory>>

ClearStaged(p) ==
    /\ at[p].stage = "committed"
    /\ pending' \in {Nothing, pending}
    /\ Move(p, "bound")
    /\ UNCHANGED <<key, record, legacy, keyHistory>>

\* complete_bound: a record restored from a backup adopts the body; any other must name
\* it; and the key must be there.
AdoptedAnyway(p) == [record EXCEPT !.body = at[p].body]
Adopted(p) ==
    IF record.body = Unknown /\ key # Nothing THEN [record EXCEPT !.body = at[p].body]
    ELSE record

Complete(p) ==
    /\ at[p].stage = "bound"
    /\ record' = Adopted(p)
    /\ Return(p)
    /\ UNCHANGED <<key, pending, legacy, keyHistory>>

-----------------------------------------------------------------------------
(* Backups *)

\* load_bound_secret reads the record and then the vault, without the lock; for a
\* signed request or for an export.
ReadBinding(p, o) ==
    /\ at[p].stage = "idle" /\ legacy = Nothing
    /\ record # Nothing /\ record.origin = o
    /\ at' = [at EXCEPT ![p] = [Idle EXCEPT !.stage = "using", !.body = record.body,
                                            !.origin = o]]
    /\ UNCHANGED <<keyFiles, holder, keyHistory>>

ReadKey(p) ==
    /\ at[p].stage = "using"
    /\ Return(p)
    /\ IF key = Nothing THEN UNCHANGED <<used, backups>>
       ELSE /\ used' = used \cup {[secret |-> key, body |-> at[p].body]}
            /\ backups' \in {backups,
                             backups \cup {[secret |-> key, origin |-> at[p].origin]}}
    /\ UNCHANGED <<keyFiles, drawn, lost, unmoved>>

Import(p, backup) ==
    /\ backup \in backups
    /\ Lock(p, [stage |-> "import", body |-> Unknown, origin |-> backup.origin,
                secret |-> backup.secret])

\* A different key in the vault is never overwritten.
MayRestore(p) == key \in {Nothing, at[p].secret}

RestoreKey(p) ==
    /\ at[p].stage = "import"
    /\ IF MayRestore(p)
       THEN key' = at[p].secret /\ Move(p, "imported")
       ELSE key' = key /\ Return(p)
    /\ UNCHANGED <<record, pending, legacy, keyHistory>>

\* The import has authority of its own: an intent is dropped, if it can be; then the
\* record is written unless there is one.
DropIntent(p) ==
    /\ at[p].stage = "imported"
    /\ pending' \in (IF record = Nothing \/ record.origin = at[p].origin
                     THEN {Nothing, pending} ELSE {pending})
    /\ IF record = Nothing THEN Move(p, "cleared") ELSE Return(p)
    /\ UNCHANGED <<key, record, legacy, keyHistory>>

InsertBinding(p) ==
    /\ at[p].stage = "cleared"
    /\ record' = [body |-> Unknown, origin |-> at[p].origin]
    /\ Return(p)
    /\ UNCHANGED <<key, pending, legacy, keyHistory>>

-----------------------------------------------------------------------------
(* Faults *)

\* A write fails and the command reports it, or the instance is killed.
Interrupted(p) ==
    /\ at[p].stage # "idle"
    /\ Return(p)
    /\ UNCHANGED <<keyFiles, keyHistory>>

\* The vault loses the key, or the user the files; not both, which is a new device.
Loss ==
    /\ ~lost /\ lost' = TRUE
    /\ \/ key' = Nothing /\ UNCHANGED <<record, pending, legacy>>
       \/ /\ record' = Nothing /\ pending' = Nothing /\ legacy' = Nothing
          /\ record # Nothing \/ legacy # Nothing
          /\ \A p \in Instances : at[p].stage = "idle"
          /\ UNCHANGED key
    /\ UNCHANGED <<holder, at, backups, drawn, used, unmoved>>

KeysNext ==
    \/ \E p \in Instances :
          \/ MigrateLegacy(p)
          \/ \E o \in Origins : ReadBinding(p, o) \/ \E b \in Bodies : Prepare(p, b, o)
          \/ FindRecord(p) \/ Refuse(p) \/ Resume(p) \/ Stage(p) \/ Mint(p)
          \/ CommitStaged(p) \/ ClearStaged(p) \/ Complete(p) \/ ReadKey(p)
          \/ \E backup \in backups : Import(p, backup)
          \/ RestoreKey(p) \/ DropIntent(p) \/ InsertBinding(p) \/ Interrupted(p)
    \/ Loss

KeysSpec == KeysInit /\ [][KeysNext]_keyVars

-----------------------------------------------------------------------------
(* Properties *)

\* Everything ever signed or exported for a submission is under one key: a lost key is
\* never replaced by a new one, and two instances never mint two
\* (commands/benchmark_sharing.rs:280-284, 344-346).
OneAuthority ==
    \A u, v \in {x.secret : x \in used} \cup {x.secret : x \in backups} : u = v

KeyHasTrace ==
    \/ record # Nothing \/ pending # Nothing \/ legacy # Nothing
    \/ key \in {x.secret : x \in backups}

\* A key in the vault can be completed or restored: its record, its intent or a backup
\* exists, whatever was interrupted (registry.rs:13-15).  Except for a key of an earlier
\* version whose record could not be written when registry.json was put aside.
NoOrphanKey == key # Nothing /\ ~lost /\ ~unmoved => KeyHasTrace

\* The same with the migration, which preserves every valid entry (registry.rs:247-249).
MigrationKeepsTrace == key # Nothing /\ ~lost => KeyHasTrace

\* A record that names a body names it for good; one restored from a backup is completed
\* once (registry.rs:399-402).
BindingNeverDrifts ==
    [][record # Nothing /\ record' # record /\ lost' = lost =>
          /\ record' # Nothing /\ record'.origin = record.origin
          /\ record.body = Unknown]_keyVars
=============================================================================
