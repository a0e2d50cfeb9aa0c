--------------------------- MODULE UpdateContract ---------------------------
(***************************************************************************)
(* What the update system promises (docs/systems/update-and-startup.md,    *)
(* "Server deployment state machine"), with the directories, the files,    *)
(* the processes and the timers taken away: an installation is a release   *)
(* and a database schema; while an update awaits confirmation the pair it  *)
(* replaced is kept, and a rollback brings back both halves of that pair.  *)
(***************************************************************************)
EXTENDS Integers

CONSTANT Releases

Nothing == [release |-> -1, schema |-> -1]

VARIABLES
    release,   \* the release in current/
    schema,    \* the schema of data.db
    kept       \* the pair an unconfirmed update replaced, or Nothing

contractVars == <<release, schema, kept>>

ContractInit == release = 0 /\ schema = 0 /\ kept = Nothing

\* The server of the installed release migrates the database when it boots.
Migrate == schema < release /\ schema' = release /\ UNCHANGED <<release, kept>>

\* One unconfirmed update at a time.
Apply ==
    /\ kept = Nothing
    /\ kept' = [release |-> release, schema |-> schema]
    /\ release' \in {r \in Releases : r > release}
    /\ UNCHANGED schema

Confirm == kept # Nothing /\ kept' = Nothing /\ UNCHANGED <<release, schema>>

RollBack ==
    /\ kept # Nothing
    /\ release' = kept.release /\ schema' = kept.schema
    /\ kept' = Nothing

ContractNext == Migrate \/ Apply \/ Confirm \/ RollBack

ContractSpec == ContractInit /\ [][ContractNext]_contractVars
=============================================================================
