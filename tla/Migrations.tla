----------------------------- MODULE Migrations -----------------------------
(***************************************************************************)
(* The Alembic chain of src/alembic/versions as data, what a command of    *)
(* alembic does with it, and the tables the ORM models expect.             *)
(*                                                                         *)
(* A table is what inserts and reads depend on: its NOT NULL columns, its  *)
(* nullable ones, its unique keys and its foreign keys.  Plain indexes,    *)
(* lengths and scales are left out.                                        *)
(*                                                                         *)
(* env.py runs a command inside one transaction and PostgreSQL's DDL is    *)
(* transactional: a command that fails anywhere changes nothing.           *)
(***************************************************************************)
EXTENDS Integers, Sequences

CONSTANT
  TrgmInstalled  \* whether the database has the extension pg_trgm

ASSUME MigrationsAssumption == TrgmInstalled \in BOOLEAN

VARIABLES
  revision,  \* alembic_version, as a position in Chain; 0 is "base"
  schema,    \* the tables: name -> [required, optional, unique, refs]
  types      \* the enum types

migrations == <<revision, schema, types>>

-----------------------------------------------------------------------------
(* Tables                                                                  *)

Cascade(column, table) == <<column, table, "CASCADE">>
SetNull(column, table) == <<column, table, "SET NULL">>

\* A table with a primary key "id"; the keys are further unique columns.
Entity(required, optional, keys, refs) ==
  [required |-> {"id"} \cup required, optional |-> optional,
   unique |-> {{"id"}} \cup {{k} : k \in keys}, refs |-> refs]

Timestamps == {"created_at", "updated_at"}

\* A many-to-many table: both columns are the key.
Association(a, aTable, b, bTable) ==
  [required |-> {a, b}, optional |-> {}, unique |-> {{a, b}},
   refs |-> {Cascade(a, aTable), Cascade(b, bTable)}]

OwnedByUser == {Cascade("user_id", "users")}

Drop(f, names) == [t \in DOMAIN f \ names |-> f[t]]

-----------------------------------------------------------------------------
(* The revisions                                                           *)

\* upgrade(): enum types and tables created, in order, columns added and
\* columns dropped, and whether an index needs pg_trgm.
\* downgrade(): tables dropped, in order, NOT NULL columns added back, and
\* whether it names no constraint to drop.
NoChange ==
  [types |-> {}, creates |-> <<>>, adds |-> {}, removes |-> {}, trgm |-> FALSE,
   drops |-> <<>>, restores |-> {}, unnamed |-> FALSE]

InitOwners == <<
  <<"cuisine_categories", Entity({"name", "is_active"}, {"description"}, {"name"}, {})>>,
  <<"equipment",
    Entity({"name", "is_active"}, {"description", "category"}, {"name"}, {})>>,
  <<"users",
    Entity({"email", "hashed_password", "role", "subscription_tier", "is_active",
            "is_verified"} \cup Timestamps, {"full_name"}, {"email"}, {})>>,
  <<"ai_scan_logs",
    Entity({"user_id", "scan_type", "status", "created_at"}, {"image_url", "result"}, {},
           OwnedByUser)>>,
  <<"inventory_items",
    Entity({"user_id", "name", "quantity_level", "is_packaged"} \cup Timestamps,
           {"category", "quantity", "quantity_unit", "barcode", "brand", "image_url", "notes"},
           {}, OwnedByUser)>>,
  <<"recipes",
    Entity({"title", "servings", "difficulty", "source", "instructions", "is_premium"}
             \cup Timestamps,
           {"user_id", "description", "cuisine_type", "prep_time_minutes",
            "cook_time_minutes", "source_url", "tags"},
           {}, {SetNull("user_id", "users")})>>,
  <<"shopping_lists",
    Entity({"user_id", "title", "is_active"} \cup Timestamps, {}, {}, OwnedByUser)>>,
  <<"subscriptions",
    Entity({"user_id", "tier", "starts_at", "is_active"} \cup Timestamps,
           {"expires_at", "payment_reference"}, {"user_id"}, OwnedByUser)>> >>

\* The tables that refer to those.
InitDetails == <<
  <<"user_equipment", Association("user_id", "users", "equipment_id", "equipment")>>,
  <<"expiry_tracking",
    Entity({"inventory_item_id", "user_id", "expiry_date", "notification_sent", "created_at"},
           {"notification_sent_at"}, {"inventory_item_id"},
           OwnedByUser \cup {Cascade("inventory_item_id", "inventory_items")})>>,
  <<"recipe_ingredients",
    Entity({"recipe_id", "name", "is_optional"}, {"quantity", "unit", "notes"}, {},
           {Cascade("recipe_id", "recipes")})>>,
  <<"shopping_list_items",
    Entity({"shopping_list_id", "ingredient_name", "is_purchased", "created_at"},
           {"quantity", "unit", "notes"}, {},
           {Cascade("shopping_list_id", "shopping_lists")})>> >>

InitTables == InitOwners \o InitDetails

InitTypes ==
  {"user_role", "subscription_tier", "scan_type", "scan_status", "quantity_level",
   "recipe_difficulty", "recipe_source", "subscription_tier_sub"}

\* The downgrade drops the tables and leaves the types.
InitDrops ==
  <<"shopping_list_items", "recipe_ingredients", "expiry_tracking", "user_equipment",
    "subscriptions", "shopping_lists", "recipes", "inventory_items", "ai_scan_logs",
    "users", "equipment", "cuisine_categories">>

CategoryTables == <<
  <<"categories",
    Entity({"name", "is_active"} \cup Timestamps, {"description"}, {"name"}, {})>>,
  <<"email_verification_tokens",
    Entity({"user_id", "token", "expires_at", "created_at"}, {}, {"user_id", "token"},
           OwnedByUser)>>,
  <<"password_reset_tokens",
    Entity({"user_id", "token", "expires_at", "created_at"}, {"used_at"}, {"token"},
           OwnedByUser)>>,
  <<"revoked_tokens",
    Entity({"jti", "user_id", "token_type", "expires_at", "revoked_at"}, {}, {"jti"},
           OwnedByUser)>>,
  <<"inventory_item_categories",
    Association("inventory_item_id", "inventory_items", "category_id", "categories")>>,
  <<"recipe_categories", Association("recipe_id", "recipes", "category_id", "categories")>> >>

CategoryDrops ==
  <<"recipe_categories", "inventory_item_categories", "revoked_tokens",
    "password_reset_tokens", "email_verification_tokens", "categories">>

UnitTables == <<
  <<"units",
    Entity({"name", "short_code", "type", "is_active"} \cup Timestamps,
           {"base_unit", "conversion_factor"}, {"name", "short_code"}, {})>>,
  <<"category_units",
    LET table == Entity({"category_id", "unit_id"} \cup Timestamps, {}, {},
                        {Cascade("category_id", "categories"), Cascade("unit_id", "units")})
    IN  [table EXCEPT !.unique = @ \cup {{"category_id", "unit_id"}}]>> >>

UnitDrops == <<"category_units", "units">>

Init_e093f8711acd ==
  [NoChange EXCEPT !.types = InitTypes, !.creates = InitTables, !.drops = InitDrops]

TierColumn == [table |-> "users", column |-> "subscription_tier", refs |-> {}]

\* Faulty variant: the column stays.
AddCategoriesOnly ==
  [NoChange EXCEPT !.creates = CategoryTables, !.drops = CategoryDrops]

AddCategories_2b6601049b08 ==
  [NoChange EXCEPT !.creates = CategoryTables, !.removes = {TierColumn},
                   !.drops = CategoryDrops, !.restores = {TierColumn}]

ParentColumn ==
  [table |-> "categories", column |-> "parent_id",
   refs |-> {SetNull("parent_id", "categories")}]

\* create_foreign_key(None, ...) lets the database name the constraint, but
\* drop_constraint(None, ...) has no name to drop and raises.
AddParent_96153f250b24 ==
  [NoChange EXCEPT !.adds = {ParentColumn}, !.trgm = TRUE, !.unnamed = TRUE]

AddUnits_3d4275ecfd3e ==
  [NoChange EXCEPT !.types = {"unit_type"}, !.creates = UnitTables, !.drops = UnitDrops]

Chain == <<
  Init_e093f8711acd,
  NoChange,                     \* 4b5c6109ec87
  AddCategories_2b6601049b08,
  NoChange,                     \* 2147b2182688
  NoChange,                     \* 72c7ec9b5ea8
  AddParent_96153f250b24,
  NoChange,                     \* b6945e8c7872
  AddUnits_3d4275ecfd3e >>

BaseRevision == 0
HeadRevision == Len(Chain)

-----------------------------------------------------------------------------
(* What one upgrade() or downgrade() does to a database d                  *)

Created(r) == {r.creates[k][1] : k \in DOMAIN r.creates}
Definition(r, name) == (CHOOSE c \in {r.creates[k] : k \in DOMAIN r.creates} : c[1] = name)[2]

ColumnsOf(changes, name) == {c.column : c \in {x \in changes : x.table = name}}
RefsOf(changes, name) == UNION {c.refs : c \in {x \in changes : x.table = name}}

\* A column added by an upgrade is nullable.
WithAdded(table, name, adds) ==
  [table EXCEPT !.optional = @ \cup ColumnsOf(adds, name), !.refs = @ \cup RefsOf(adds, name)]

WithRemoved(table, name, removes) ==
  [table EXCEPT !.required = @ \ ColumnsOf(removes, name)]

WithRestored(table, name, restores) ==
  [table EXCEPT !.required = @ \cup ColumnsOf(restores, name)]

\* CREATE TYPE and CREATE TABLE refuse a name that is taken, a foreign key a
\* table that is not there yet, the trigram index a missing operator class.
CanUpgrade(r, d) ==
  /\ r.types \cap d.types = {}
  /\ Created(r) \cap DOMAIN d.schema = {}
  /\ \A k \in DOMAIN r.creates :
       \A ref \in r.creates[k][2].refs :
         ref[2] \in DOMAIN d.schema \cup {r.creates[j][1] : j \in 1..k}
  /\ r.trgm => TrgmInstalled

Upgraded(r, d) ==
  [schema |-> [t \in DOMAIN d.schema \cup Created(r) |->
                 IF t \in Created(r) THEN Definition(r, t)
                 ELSE WithAdded(WithRemoved(d.schema[t], t, r.removes), t, r.adds)],
   types  |-> d.types \cup r.types]

\* drop_constraint needs a name.
ConstraintsNamed(r) == ~r.unnamed

\* DROP TABLE refuses a table that another one refers to.
DropsInOrder(r, d) ==
  \A k \in DOMAIN r.drops :
    \A t \in DOMAIN d.schema \ {r.drops[j] : j \in 1..k} :
      \A ref \in d.schema[t].refs : ref[2] # r.drops[k]

\* Faulty variant: the column is added back with a server default.
RestoredWithDefault(r, populated) == TRUE

\* ADD COLUMN NOT NULL without a default refuses a table with rows.
Restorable(r, populated) == \A c \in r.restores : c.table \notin populated

CanDowngrade(r, d, populated) ==
  ConstraintsNamed(r) /\ DropsInOrder(r, d) /\ Restorable(r, populated)

Dropped(r) == {r.drops[k] : k \in DOMAIN r.drops}

\* Faulty variant: the downgrade does not bring the column back.
DowngradedForgetful(r, d) == [d EXCEPT !.schema = Drop(@, Dropped(r))]

\* Faulty variant: the enum types go with the tables that use them.
DowngradedTypes(r, d) ==
  LET left == Drop(d.schema, Dropped(r))
  IN  [schema |-> [t \in DOMAIN left |-> WithRestored(left[t], t, r.restores)],
       types  |-> d.types \ r.types]

\* The enum types stay.
Downgraded(r, d) ==
  LET left == Drop(d.schema, Dropped(r))
  IN  [d EXCEPT !.schema = [t \in DOMAIN left |-> WithRestored(left[t], t, r.restores)]]

-----------------------------------------------------------------------------
(* alembic upgrade and downgrade                                           *)

Database == [schema |-> schema, types |-> types]

\* The database after the revisions up to k, and whether none of them failed.
Upgrading(d, from, to) ==
  LET after[k \in from..HeadRevision] ==
        IF k = from THEN [ok |-> TRUE, db |-> d]
        ELSE LET prev == after[k - 1]
             IN  IF prev.ok /\ CanUpgrade(Chain[k], prev.db)
                 THEN [ok |-> TRUE, db |-> Upgraded(Chain[k], prev.db)]
                 ELSE [ok |-> FALSE, db |-> d]
  IN  after[to]

Downgrading(d, from, to, populated) ==
  LET after[k \in BaseRevision..from] ==
        IF k = from THEN [ok |-> TRUE, db |-> d]
        ELSE LET prev == after[k + 1]
             IN  IF prev.ok /\ CanDowngrade(Chain[k + 1], prev.db, populated)
                 THEN [ok |-> TRUE, db |-> Downgraded(Chain[k + 1], prev.db)]
                 ELSE [ok |-> FALSE, db |-> d]
  IN  after[to]

Becomes(to, result) ==
  /\ result.ok
  /\ revision' = to
  /\ schema' = result.db.schema
  /\ types' = result.db.types

UpgradeTo(to) == revision < to /\ Becomes(to, Upgrading(Database, revision, to))

DowngradeTo(to, populated) ==
  revision > to /\ Becomes(to, Downgrading(Database, revision, to, populated))

MigrationsInit == revision = BaseRevision /\ schema = <<>> /\ types = {}

HasTables(names) == names \subseteq DOMAIN schema

-----------------------------------------------------------------------------
(* What the models map                                                     *)

UserModels ==
  [users |->
     Entity({"email", "hashed_password", "role", "is_active", "is_verified"} \cup Timestamps,
            {"full_name"}, {"email"}, {}),
   user_equipment |-> Association("user_id", "users", "equipment_id", "equipment")]

SubscriptionModel ==
  [subscriptions |->
     Entity({"user_id", "tier", "starts_at", "is_active"} \cup Timestamps,
            {"expires_at", "payment_reference"}, {"user_id"}, OwnedByUser)]

EquipmentModels ==
  [equipment |-> Entity({"name", "is_active"}, {"description", "category"}, {"name"}, {}),
   cuisine_categories |-> Entity({"name", "is_active"}, {"description"}, {"name"}, {})]

InventoryModels ==
  [inventory_items |->
     Entity({"user_id", "name", "quantity_level", "is_packaged"} \cup Timestamps,
            {"category", "quantity", "quantity_unit", "barcode", "brand", "image_url", "notes"},
            {}, OwnedByUser),
   expiry_tracking |->
     Entity({"inventory_item_id", "user_id", "expiry_date", "notification_sent", "created_at"},
            {"notification_sent_at"}, {"inventory_item_id"},
            OwnedByUser \cup {Cascade("inventory_item_id", "inventory_items")}),
   ai_scan_logs |->
     Entity({"user_id", "scan_type", "status", "created_at"}, {"image_url", "result"}, {},
            OwnedByUser)]

RecipeModels ==
  [recipes |->
     Entity({"title", "servings", "difficulty", "source", "instructions", "is_premium"}
              \cup Timestamps,
            {"user_id", "description", "cuisine_type", "prep_time_minutes",
             "cook_time_minutes", "source_url", "tags"}, {}, {SetNull("user_id", "users")}),
   recipe_ingredients |->
     Entity({"recipe_id", "name", "is_optional"}, {"quantity", "unit", "notes"}, {},
            {Cascade("recipe_id", "recipes")})]

ShoppingModels ==
  [shopping_lists |->
     Entity({"user_id", "title", "is_active"} \cup Timestamps, {}, {}, OwnedByUser),
   shopping_list_items |->
     Entity({"shopping_list_id", "ingredient_name", "is_purchased", "created_at"},
            {"quantity", "unit", "notes"}, {}, {Cascade("shopping_list_id", "shopping_lists")})]

CategoryModels ==
  [categories |->
     Entity({"name", "is_active"} \cup Timestamps, {"description", "parent_id"}, {"name"},
            {SetNull("parent_id", "categories")}),
   recipe_categories |-> Association("recipe_id", "recipes", "category_id", "categories"),
   inventory_item_categories |->
     Association("inventory_item_id", "inventory_items", "category_id", "categories")]

UnitModels ==
  [units |->
     Entity({"name", "short_code", "type", "is_active"} \cup Timestamps,
            {"base_unit", "conversion_factor"}, {"name", "short_code"}, {}),
   category_units |->
     [Entity({"category_id", "unit_id"} \cup Timestamps, {}, {},
             {Cascade("category_id", "categories"), Cascade("unit_id", "units")})
        EXCEPT !.unique = @ \cup {{"category_id", "unit_id"}}]]

TokenModels ==
  [revoked_tokens |->
     Entity({"jti", "user_id", "token_type", "expires_at", "revoked_at"}, {}, {"jti"},
            OwnedByUser),
   email_verification_tokens |->
     Entity({"user_id", "token", "expires_at", "created_at"}, {}, {"user_id", "token"},
            OwnedByUser),
   password_reset_tokens |->
     Entity({"user_id", "token", "expires_at", "created_at"}, {"used_at"}, {"token"},
            OwnedByUser)]

UsageModel ==
  [ai_usage_logs |->
     Entity({"user_id", "created_at", "model", "prompt_tokens", "completion_tokens",
             "total_tokens", "cost_usd", "latency_ms", "cache_hit", "success"},
            {"error_code"}, {}, {})]

\* Every model: those that importing app.models and db/base.py registers, and
\* AIUsageLog, which the recipe engine imports when it logs.
Metadata ==
  {UserModels, SubscriptionModel, EquipmentModels, InventoryModels, RecipeModels,
   ShoppingModels, CategoryModels, UnitModels, TokenModels, UsageModel}

=============================================================================
