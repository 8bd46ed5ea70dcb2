----------------------------- MODULE MCMigrate -----------------------------
(***************************************************************************)
(* MCSync's machine that moves between buckets, with `remote migrate`.     *)
(***************************************************************************)
EXTENDS Migrate, MCSync

InitMigrating == (InitShared \/ InitClone) /\ mig = [m \in Machine |-> NoMigration]

NextMigrating ==
  \/ Migrating(me, "idle") /\ NextMoving /\ UNCHANGED mig
  \/ MigrateStep(me)

SpecMigrating == InitMigrating /\ [][NextMigrating]_allVars
=============================================================================
