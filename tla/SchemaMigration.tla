-------------------------- MODULE SchemaMigration --------------------------
(***************************************************************************)
(* How `aether init` and every command that opens the site database bring  *)
(* aether.db to the current schema: init_database runs the migrations that *)
(* user_version says are outstanding, stamps the version at the very end,  *)
(* creates what is missing and replaces the routing triggers.              *)
(*                                                                         *)
(* Processes may open the database at the same time, and any of them may   *)
(* die between two statements.  A migration that runs in one SQLite        *)
(* transaction is one step; v1, which does not, is one step a statement.   *)
(* A table is modelled by the shape the migrations tell apart and by the   *)
(* rows they copy.                                                         *)
(***************************************************************************)
EXTENDS Naturals, Sequences, FiniteSets, SequencesExt

CONSTANTS
  Openers,         \* the processes that call init_database
  LegacyVersions,  \* the versions a database is found at
  LegacyRows,      \* what the rows of a legacy table are drawn from
  MaxAttempts      \* how often the database is opened

VARIABLES
  db,              \* the database file
  legacy,          \* the database as it was found
  opener,          \* where each process is in init_database
  attempts

schemaVars == <<db, legacy, opener, attempts>>

SCHEMA_VERSION == 12
NoTable == "no table"
Idle == [at |-> 0, seen |-> 0, v1 |-> FALSE]

---------------------------------------------------------------------------
(* The databases the migrations are written for. *)

(* A table that is there from version v on has the current shape from      *)
(* version w on.                                                           *)
Since(v, w, d) == IF d >= w THEN "current" ELSE IF d >= v THEN "old" ELSE NoTable

(* A database of version v with the given rows; `trouble` is what the      *)
(* owner has to repair before it can be upgraded.                          *)
DatabaseOf(v, rows, orphans, trouble) ==
  [ version   |-> v,
    products  |-> v < 1,
    instances |-> [shape |-> IF v < 1 THEN "products" ELSE IF v < 5 THEN "json" ELSE "current",
                   rows |-> rows],
    staging   |-> [shape |-> NoTable, rows |-> {}],
    rules     |-> [shape |-> IF v < 1 /\ "text" \in trouble THEN "text"
                             ELSE Since(0, 6, v),
                   trigger |-> v >= 4, rows |-> rows],
    history   |-> [shape |-> Since(0, 6, v), rows |-> IF v < 6 THEN rows \cup orphans ELSE rows],
    templates |-> [shape |-> Since(3, 6, v), rows |-> IF v < 3 THEN {} ELSE rows],
    points    |-> [shape |-> Since(0, 7, v), rows |-> rows, limits |-> v >= 8],
    channels  |-> [revision |-> IF v >= 9 THEN 1 ELSE 0, guarded |-> v >= 10],
    mappings  |-> IF v >= 12 THEN NoTable ELSE IF "unsound" \in trouble THEN "unsound" ELSE "m",
    inline    |-> IF v >= 12 THEN "m" ELSE IF "conflict" \in trouble THEN "other" ELSE "empty",
    heads     |-> v >= 11,
    triggers  |-> "stale",
    trouble   |-> trouble ]

Legacies ==
  {DatabaseOf(v, rows, orphans, trouble) :
     v \in LegacyVersions, rows \in {{}, LegacyRows}, orphans \in {{"orphan"}},
     trouble \in {{}, {"text"}, {"properties"}, {"backup", "routes"}, {"conflict"}, {"unsound"}}}

SchemaInit ==
  /\ db \in Legacies
  /\ legacy = db
  /\ opener = [p \in Openers |-> Idle]
  /\ attempts = 0

---------------------------------------------------------------------------
(* The migrations: each takes the database to what it leaves, or refuses. *)

Refused == [refused |-> TRUE]
Rebuilt(t) == [t EXCEPT !.shape = "current"]

(* v0 drops the rules of the prototype, whose key was a text. *)
migrate_v0(d) ==
  IF d.rules.shape # "text" THEN d
  ELSE [d EXCEPT !.history = [shape |-> NoTable, rows |-> {}],
                 !.rules   = [shape |-> NoTable, trigger |-> FALSE, rows |-> {}]]

(* v1 rebuilds `instances` without the products key: five statements on a  *)
(* connection with no transaction open.                                    *)
HasProducts(d) == d.products

CreateStaging(d) ==
  IF d.staging.shape = NoTable
  THEN [d EXCEPT !.staging = [shape |-> "json", rows |-> {}]] ELSE d

CopyInstances(d) ==
  IF \/ d.instances.shape \notin {"products", "json"}      \* no such table or column
     \/ d.staging.shape = NoTable
     \/ d.staging.rows \cap d.instances.rows # {}          \* primary key
  THEN Refused
  ELSE [d EXCEPT !.staging.rows = @ \cup d.instances.rows]

DropInstances(d) ==
  IF d.instances.shape = NoTable THEN Refused
  ELSE [d EXCEPT !.instances = [shape |-> NoTable, rows |-> {}]]

RenameStaging(d) ==
  IF d.staging.shape = NoTable \/ d.instances.shape # NoTable THEN Refused
  ELSE [d EXCEPT !.instances = d.staging, !.staging = [shape |-> NoTable, rows |-> {}]]

DropProducts(d) == [d EXCEPT !.products = FALSE]

migrate_v3(d) ==
  IF d.templates.shape = NoTable
  THEN [d EXCEPT !.templates = [shape |-> "current", rows |-> {}]] ELSE d

migrate_v4(d) ==
  IF d.rules.shape = NoTable THEN d ELSE [d EXCEPT !.rules.trigger = TRUE]

(* v5 drops the properties column, and refuses to while it holds anything. *)
migrate_v5(d) ==
  IF d.instances.shape \notin {"products", "json"} THEN d
  ELSE IF "properties" \in d.trouble \/ d.staging.shape # NoTable THEN Refused
  ELSE [d EXCEPT !.instances = Rebuilt(@)]

(* v6 rebuilds rules, history and templates; history without a rule goes,  *)
(* a template of a channel that is gone loses the reference.               *)
migrate_v6(d) ==
  [d EXCEPT
     !.rules     = IF d.rules.shape = NoTable THEN @ ELSE Rebuilt(@),
     !.history   = IF d.history.shape # "old" THEN @
                   ELSE [shape |-> "current", rows |-> @.rows \cap d.rules.rows],
     !.templates = IF @.shape # "old" THEN @ ELSE Rebuilt(@)]

(* v7 rebuilds the four point tables with their cascading key, in one      *)
(* immediate transaction that refuses leftovers of older installers.       *)
ensure_no_legacy_point_backups(d) == "backup" \notin d.trouble

point_table_has_cascade(t) == t.shape = "current"

POINT_TABLE_MIGRATIONS(t) == [shape |-> "current", rows |-> t.rows, limits |-> FALSE]

migrate_v7(d) ==
  IF ~ensure_no_legacy_point_backups(d) THEN Refused
  ELSE IF point_table_has_cascade(d.points) THEN d
  ELSE [d EXCEPT !.points = POINT_TABLE_MIGRATIONS(@)]

migrate_v8(d) == [d EXCEPT !.points.limits = TRUE]

migrate_v9(d) == [d EXCEPT !.channels.revision = IF @ = 0 THEN 1 ELSE @]

(* v10 raises every revision, so that no token of before it stays good. *)
migrate_v10(d) ==
  IF d.channels.revision = 0 THEN Refused
  ELSE [d EXCEPT !.channels = [revision |-> @.revision + 1, guarded |-> TRUE]]

migrate_v11(d) == [d EXCEPT !.heads = TRUE]

(* v12 moves every legacy JSON mapping into its point, all or none: the    *)
(* mapping must have a canonical form, and must not contradict what the    *)
(* point already says of itself.                                           *)
HasCanonicalForm(m) == m # "unsound"

migrate_legacy_json_mapping(m, inline) ==
  IF HasCanonicalForm(m) /\ inline \in {"empty", m} THEN m ELSE "refused"

migrate_v12(d) ==
  IF d.mappings = NoTable THEN d
  ELSE IF migrate_legacy_json_mapping(d.mappings, d.inline) = "refused" THEN Refused
  ELSE [d EXCEPT !.mappings = NoTable, !.inline = migrate_legacy_json_mapping(d.mappings, @)]

Stamp(d) == [d EXCEPT !.version = SCHEMA_VERSION]

(* The rest of init_database creates the tables that are missing... *)
CreateTables(d) ==
  [d EXCEPT
     !.rules     = IF @.shape = NoTable THEN [shape |-> "current", trigger |-> TRUE, rows |-> {}] ELSE @,
     !.history   = IF @.shape = NoTable THEN [shape |-> "current", rows |-> {}] ELSE @,
     !.instances = IF @.shape = NoTable THEN [shape |-> "current", rows |-> {}] ELSE @,
     !.heads     = TRUE]

(* ...and replaces the triggers, once every stored route is known valid. *)
validate_existing_logical_routing(d) == "routes" \notin d.trouble

create_triggers(d) ==
  IF ~validate_existing_logical_routing(d) THEN Refused ELSE [d EXCEPT !.triggers = "current"]

StampedFirst ==
  << [below |-> 1,  name |-> "v0"],     [below |-> 1,  name |-> "has_products"],
     [below |-> 1,  name |-> "create"], [below |-> 1,  name |-> "copy"],
     [below |-> 1,  name |-> "drop"],   [below |-> 1,  name |-> "rename"],
     [below |-> 1,  name |-> "products"],
     [below |-> 12, name |-> "stamp"],
     [below |-> 3,  name |-> "v3"],     [below |-> 4,  name |-> "v4"],
     [below |-> 5,  name |-> "v5"],     [below |-> 6,  name |-> "v6"],
     [below |-> 7,  name |-> "v7"],     [below |-> 8,  name |-> "v8"],
     [below |-> 9,  name |-> "v9"],     [below |-> 10, name |-> "v10"],
     [below |-> 11, name |-> "v11"],    [below |-> 12, name |-> "v12"],
     [below |-> 99, name |-> "tables"], [below |-> 99, name |-> "triggers"] >>

(* init_database, statement by statement or transaction by transaction:    *)
(* the version below which it runs and what it does.                       *)
Plan ==
  << [below |-> 1,  name |-> "v0"],     [below |-> 1,  name |-> "has_products"],
     [below |-> 1,  name |-> "create"], [below |-> 1,  name |-> "copy"],
     [below |-> 1,  name |-> "drop"],   [below |-> 1,  name |-> "rename"],
     [below |-> 1,  name |-> "products"],
     [below |-> 3,  name |-> "v3"],     [below |-> 4,  name |-> "v4"],
     [below |-> 5,  name |-> "v5"],     [below |-> 6,  name |-> "v6"],
     [below |-> 7,  name |-> "v7"],     [below |-> 8,  name |-> "v8"],
     [below |-> 9,  name |-> "v9"],     [below |-> 10, name |-> "v10"],
     [below |-> 11, name |-> "v11"],    [below |-> 12, name |-> "v12"],
     [below |-> 12, name |-> "stamp"],  [below |-> 99, name |-> "tables"],
     [below |-> 99, name |-> "triggers"] >>

Effect(name, d) ==
  CASE name = "v0"       -> migrate_v0(d)
    [] name = "create"   -> CreateStaging(d)
    [] name = "copy"     -> CopyInstances(d)
    [] name = "drop"     -> DropInstances(d)
    [] name = "rename"   -> RenameStaging(d)
    [] name = "products" -> DropProducts(d)
    [] name = "v3"       -> migrate_v3(d)
    [] name = "v4"       -> migrate_v4(d)
    [] name = "v5"       -> migrate_v5(d)
    [] name = "v6"       -> migrate_v6(d)
    [] name = "v7"       -> migrate_v7(d)
    [] name = "v8"       -> migrate_v8(d)
    [] name = "v9"       -> migrate_v9(d)
    [] name = "v10"      -> migrate_v10(d)
    [] name = "v11"      -> migrate_v11(d)
    [] name = "v12"      -> migrate_v12(d)
    [] name = "stamp"    -> Stamp(d)
    [] name = "tables"   -> CreateTables(d)
    [] name = "triggers" -> create_triggers(d)
    [] OTHER             -> d

V1Statements == {"create", "copy", "drop", "rename", "products"}

(* What a process does at a place of the plan: skip what its reading of    *)
(* user_version, or of the products table, says is done.                   *)
Due(o, i) ==
  /\ o.seen < Plan[i].below
  /\ Plan[i].name \in V1Statements => o.v1

---------------------------------------------------------------------------
(* The processes. *)

Begin(p) ==
  /\ opener[p].at = 0 /\ attempts < MaxAttempts
  /\ attempts' = attempts + 1
  /\ opener' = [opener EXCEPT ![p] = [at |-> 1, seen |-> db.version, v1 |-> FALSE]]
  /\ UNCHANGED <<db, legacy>>

run_migrations(p) ==
  LET o == opener[p]
      i == CHOOSE j \in o.at..Len(Plan) : Due(o, j) /\ \A k \in o.at..(j - 1) : ~Due(o, k)
      after == Effect(Plan[i].name, db)
  IN  /\ o.at > 0
      /\ IF after = Refused
         THEN db' = db /\ opener' = [opener EXCEPT ![p] = Idle]
         ELSE /\ db' = after
              /\ opener' = [opener EXCEPT ![p] =
                   IF i = Len(Plan) THEN Idle
                   ELSE [o EXCEPT !.at = i + 1,
                                  !.v1 = IF Plan[i].name = "has_products" THEN HasProducts(db) ELSE @]]
      /\ UNCHANGED <<legacy, attempts>>

Dies(p) ==
  /\ opener[p].at > 0
  /\ opener' = [opener EXCEPT ![p] = Idle]
  /\ UNCHANGED <<db, legacy, attempts>>

SchemaNext == \E p \in Openers : Begin(p) \/ run_migrations(p) \/ Dies(p)

SchemaSpec == SchemaInit /\ [][SchemaNext]_schemaVars

---------------------------------------------------------------------------
(* Properties. *)

SchemaTypeOK ==
  /\ db.version \in {legacy.version, SCHEMA_VERSION}
  /\ db.instances.shape \in {"products", "json", "current", NoTable}
  /\ db.instances.rows \subseteq LegacyRows /\ db.staging.rows \subseteq LegacyRows
  /\ opener \in [Openers -> [at : 0..Len(Plan), seen : 0..SCHEMA_VERSION, v1 : BOOLEAN]]
  /\ attempts \in 0..MaxAttempts

(* However the processes interleave and wherever they die, no row the      *)
(* schema still has a place for is lost: instances are in the table or in  *)
(* its staging copy, and rules, points, and the history and templates that *)
(* refer to something are kept.  Only the prototype's text-keyed rules go. *)
RowsSurvive ==
  /\ legacy.instances.rows \subseteq db.instances.rows \cup db.staging.rows
  /\ db.points.rows = legacy.points.rows
  /\ legacy.rules.shape # "text" =>
       /\ db.rules.rows = legacy.rules.rows
       /\ legacy.history.rows \cap legacy.rules.rows \subseteq db.history.rows
  /\ legacy.templates.rows \subseteq db.templates.rows

(* A stamped version is the truth: once user_version says the schema is    *)
(* current, nothing skipped by a later init_database is still old, however *)
(* many processes upgraded a database of version 1 or later together.      *)
StampedIsCurrent ==
  db.version = SCHEMA_VERSION /\ legacy.version >= 1 =>
    /\ ~db.products /\ db.mappings = NoTable /\ db.inline = "m" /\ db.heads
    /\ db.instances.shape = "current" /\ db.staging.shape = NoTable
    /\ db.rules.shape \in {"current", NoTable} /\ (db.rules.shape = "current" => db.rules.trigger)
    /\ db.history.shape \in {"current", NoTable}
    /\ db.templates.shape = "current" /\ db.points.shape = "current" /\ db.points.limits
    /\ db.channels.guarded

(* A revision handed out before v10 never matches the row again. *)
OldTokensDie ==
  db.channels.guarded /\ legacy.version \in {9} => db.channels.revision > legacy.channels.revision

(* What a database with nothing in flight becomes when a process opens it  *)
(* and is left alone.                                                      *)
Opened(d) ==
  LET first == migrate_v0(d)
      step(e, s) ==
        IF e = Refused THEN Refused
        ELSE IF /\ d.version < s.below
                /\ s.name \in V1Statements => HasProducts(first)
             THEN Effect(s.name, e) ELSE e
  IN  FoldLeft(step, d, Plan)

NeedsRepair == {"properties", "backup", "conflict", "unsound", "routes"}

(* A death is never final: whatever a process that died has left of a      *)
(* database of version 1 or later, opening it again completes the upgrade  *)
(* unless there is something the owner has to repair first.                *)
ReopeningCompletes ==
  /\ \A p \in Openers : opener[p].at = 0
  /\ legacy.version >= 1
  /\ legacy.trouble \cap NeedsRepair = {}
  => Opened(db) # Refused

(* The same of every database.  It does not hold: v1 is five statements    *)
(* without a transaction, and a process that dies after copying the        *)
(* instances leaves a staging table the next attempt fails on.  For the    *)
(* same reason two processes that upgrade a database of version 0 together *)
(* can stamp it with its instances still in the staging table.             *)
EveryReopeningCompletes ==
  /\ \A p \in Openers : opener[p].at = 0
  /\ legacy.trouble \cap NeedsRepair = {}
  => Opened(db) # Refused
=============================================================================
