------------------------------ MODULE Migrations ------------------------------
(***************************************************************************)
(* How a database gets its schema: the files of db/migrations, applied in  *)
(* the order of their names by Kysely's Migrator (db/migrate_raw.ts), and  *)
(* then the rows of db/seed.ts.  The Migrator takes its lock and applies   *)
(* every pending file in one transaction, which the first statement that   *)
(* fails rolls back.  The schema is the set of the tables, types, columns  *)
(* and constraints that are there; of a table's first columns only those   *)
(* that another statement names are spelled out.                           *)
(***************************************************************************)
EXTENDS Naturals, Sequences

CONSTANT Runs      \* the times somebody starts db:migrate, maybe at once

VARIABLES
    schema,        \* the objects of the database, committed
    applied,       \* how many files kysely_migration has
    run,           \* [Runs -> state of the migrator's transaction]
    seed           \* "none", "done" or "failed"

vars == <<schema, applied, run, seed>>

\* A statement adds or drops objects; `lenient`: with IF [NOT] EXISTS.
Add(objects) == [does |-> "add", what |-> objects, lenient |-> FALSE]
AddIfMissing(objects) == [does |-> "add", what |-> objects, lenient |-> TRUE]
Drop(objects) == [does |-> "drop", what |-> objects, lenient |-> FALSE]
DropIfThere(objects) == [does |-> "drop", what |-> objects, lenient |-> TRUE]

InitialSchema == <<
    Add({"payment_status", "payment_channel", "shift_status", "ledger_entry_type",
         "refund_status", "terminal_status", "payment_method_type"}),
    Add({"payment_methods", "terminals", "shifts", "shifts.expected_cash",
         "shifts.actual_cash", "cash_drops", "payments", "refunds", "payment_ledger"})>>

GatewayAndSettlement == <<
    Add({"dispute_status", "settlement_status"}),
    Add({"webhook_events", "disputes", "fee_schedules", "settlements"})>>

QrisAndReconciliation == <<
    AddIfMissing({"payment_method_type.QRIS", "ledger_entry_type.DISPUTED"}),
    Add({"shifts.ending_cash_expected", "shifts.ending_cash_actual",
         "shifts.total_cash_drops"}),
    AddIfMissing({"daily_reconciliations"})>>

FeeSnapshotColumns ==
    {"payments.fee_schedule_id", "payments.snap_flat_fee", "payments.snap_percentage_fee",
     "payments.snap_vat_rate", "payments.total_fee_deducted", "payments.net_payout"}

FeeTerms == {"fee_schedules.channel_code", "fee_schedules.vat_rate",
             "fee_schedules.min_fee", "fee_schedules.max_fee"}

\* Named for a settlement status, which it does not add.
FailedSettlementStatus == <<
    Add(FeeTerms), Add({"uq_fee_schedule_method_channel"}),
    Add(FeeSnapshotColumns), Add({"idx_payments_fee_schedule_id"})>>

ByProvider == {"fee_schedules.provider", "fee_schedules.method_type"}

ProviderAndMethodType == <<
    DropIfThere({"uq_fee_schedule_method_channel"}),
    AddIfMissing(FeeTerms \cup ByProvider),
    DropIfThere({"uq_fee_schedule_provider_method_channel"}),
    Add({"uq_fee_schedule_provider_method_channel"})>>

CleanUp == <<
    Drop({"shifts.expected_cash", "shifts.actual_cash"}),
    Add({"payments.location_id"}), Add({"payment_methods.provider"}),
    DropIfThere({"uq_fee_schedule_provider_method_channel"}),
    Drop(ByProvider), Add({"fee_schedules.is_active"}),
    Add({"uq_fee_schedule_method_channel"})>>

FeeSnapshots == <<Add(FeeSnapshotColumns)>>

MethodChannel == <<
    Add({"payment_channel_code"}), Add({"payment_methods.channel_code"}),
    Add({"idx_payment_methods_type_channel"})>>

Files == <<InitialSchema, GatewayAndSettlement, QrisAndReconciliation,
           FailedSettlementStatus, ProviderAndMethodType, CleanUp, FeeSnapshots,
           MethodChannel>>

\* An object that is there cannot be added, one that is not cannot be dropped.
Succeeds(s, objects) ==
    \/ s.lenient
    \/ s.does = "add" /\ s.what \cap objects = {}
    \/ s.does = "drop" /\ s.what \subseteq objects

Effect(s, objects) == IF s.does = "add" THEN objects \cup s.what ELSE objects \ s.what

\* A run waits for the lock, is at a statement of a file, or has ended.
Waiting == [at |-> "waiting"]
Ended(how) == [at |-> how]

Init ==
    /\ schema = {}
    /\ applied = 0
    /\ run = [r \in Runs |-> Waiting]
    /\ seed = "none"

Migrating(r) == run[r].at = "running"

\* kysely_migration_lock; what is applied is read under the lock.
Lock(r) ==
    /\ run[r] = Waiting
    /\ \A q \in Runs : ~Migrating(q)
    /\ run' = [run EXCEPT ![r] = [at |-> "running", file |-> applied + 1, statement |-> 1,
                                  schema |-> schema]]
    /\ UNCHANGED <<schema, applied, seed>>

Current(r) == Files[run[r].file][run[r].statement]

Execute(r) ==
    /\ Migrating(r)
    /\ run[r].file =< Len(Files)
    /\ IF ~Succeeds(Current(r), run[r].schema)
       THEN run' = [run EXCEPT ![r] = Ended("failed")]
       ELSE LET last == run[r].statement = Len(Files[run[r].file])
            IN  run' = [run EXCEPT ![r] = [at |-> "running",
                    file |-> IF last THEN @.file + 1 ELSE @.file,
                    statement |-> IF last THEN 1 ELSE @.statement + 1,
                    schema |-> Effect(Current(r), @.schema)]]
    /\ UNCHANGED <<schema, applied, seed>>

Commit(r) ==
    /\ Migrating(r)
    /\ run[r].file > Len(Files)
    /\ schema' = run[r].schema
    /\ applied' = Len(Files)
    /\ run' = [run EXCEPT ![r] = Ended("migrated")]
    /\ UNCHANGED seed

\* The process or its connection is lost: the transaction never was.
Crash(r) ==
    /\ Migrating(r)
    /\ run' = [run EXCEPT ![r] = Waiting]
    /\ UNCHANGED <<schema, applied, seed>>

\* The tables, and the later columns, that the INSERTs of the seed name.
Seeded == {"payment_methods", "fee_schedules", "terminals", "shifts",
           "shifts.expected_cash", "shifts.actual_cash", "cash_drops", "payments",
           "payment_ledger", "refunds", "settlements"}

\* db:seed, one transaction, after a migration that succeeded.
Seed ==
    /\ seed = "none"
    /\ \E r \in Runs : run[r] = Ended("migrated")
    /\ seed' = IF Seeded \subseteq schema THEN "done" ELSE "failed"
    /\ UNCHANGED <<schema, applied, run>>

Next == Seed \/ \E r \in Runs : Lock(r) \/ Execute(r) \/ Commit(r) \/ Crash(r)

Spec == Init /\ [][Next]_vars
-----------------------------------------------------------------------------
(***************************************************************************)
(* README.md:76, "Start fresh database: pnpm run db:fresh": on an empty    *)
(* database the files of db/migrations, and then the seed, go through.     *)
(***************************************************************************)
FreshDatabaseStarts ==
    /\ \A r \in Runs : run[r] # Ended("failed")
    /\ seed # "failed"
=============================================================================
