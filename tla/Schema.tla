-------------------------------- MODULE Schema --------------------------------
(***************************************************************************)
(* Schema: the PostgreSQL schema of the four migrations.  Of a table it    *)
(* keeps what decides whether a statement succeeds and what else it        *)
(* changes: foreign keys and their ON DELETE rule, unique keys, enum types *)
(* and triggers.  Rows live in db, a function from <<table, n>> to the     *)
(* row's foreign keys and keys; NULL is Null.                              *)
(*                                                                         *)
(* The DDL of a migration is a sequence of statements over named objects.  *)
(***************************************************************************)
EXTENDS Naturals, Sequences, FiniteSets, SequencesExt, Functions, TLC

Null == <<>>

CascadesTo(parent)  == [to |-> parent, rule |-> "CASCADE"]
NulledWith(parent)  == [to |-> parent, rule |-> "SET NULL"]

\* The columns with a REFERENCES clause, the unique keys and the enum types.
Table(refs, keys, types) == [refs |-> refs, keys |-> keys, types |-> types]
NoRefs == <<>>

-----------------------------------------------------------------------------
(* The tables.                                                             *)

IdentityTables ==
    [users |-> Table(NoRefs, {{"email"}}, {}),
     admin_users |-> Table([created_by_id |-> NulledWith("admin_users")],
                           {{"email"}}, {"admin_role_enum"})]

CatalogTables ==
    [certificates |-> Table(NoRefs, {}, {}),
     learning_modules |-> Table([cert_id |-> CascadesTo("certificates")], {}, {}),
     lessons |-> Table([module_id |-> CascadesTo("learning_modules")], {}, {}),
     lesson_quizzes |-> Table([lesson_id |-> CascadesTo("lessons")], {}, {}),
     quiz_questions |-> Table([quiz_id |-> CascadesTo("lesson_quizzes")], {}, {})]

ExamTables ==
    [exams |-> Table([cert_id |-> CascadesTo("certificates")],
                     {{"cert_id", "exam_order"}}, {"exam_status_enum"}),
     exam_questions |-> Table([exam_id |-> CascadesTo("exams")], {},
                              {"question_type_enum"}),
     exam_question_options |-> Table([question_id |-> CascadesTo("exam_questions")],
                                     {}, {}),
     exam_access_codes |-> Table([user_id |-> CascadesTo("users"),
                                  exam_id |-> CascadesTo("exams"),
                                  cert_id |-> CascadesTo("certificates")], {}, {}),
     exam_attempts |-> Table([user_id |-> CascadesTo("users"),
                              exam_id |-> CascadesTo("exams"),
                              cert_id |-> CascadesTo("certificates")], {},
                             {"attempt_status_enum"}),
     test_sessions |-> Table([user_id |-> CascadesTo("users"),
                              exam_id |-> CascadesTo("exams")], {},
                             {"test_session_status_enum"})]

\* issued_certificates.cert_id has a unique index besides; set_cert_sequence
\* draws its value from a sequence, so no insert ever meets it.
CommerceTables ==
    [student_purchases |-> Table([user_id |-> CascadesTo("users"),
                                  cert_id |-> CascadesTo("certificates")],
                                 {{"user_id", "cert_id"}}, {"payment_type_enum"}),
     student_progress |-> Table([user_id |-> CascadesTo("users"),
                                 lesson_id |-> CascadesTo("lessons")],
                                {{"user_id", "lesson_id"}}, {}),
     promo_codes |-> Table([created_by_id |-> NulledWith("admin_users")],
                           {{"code"}}, {"discount_type_enum"}),
     transactions |-> Table([user_id |-> CascadesTo("users"),
                             cert_id |-> CascadesTo("certificates"),
                             promo_code_id |-> NulledWith("promo_codes")],
                            {{"stripe_session_id"}}, {"transaction_status_enum"}),
     issued_certificates |-> Table([user_id |-> CascadesTo("users"),
                                    certificate_id |-> CascadesTo("certificates"),
                                    exam_attempt_id |-> CascadesTo("exam_attempts")],
                                   {}, {})]

InternalTables ==
    [processed_webhooks |-> Table(NoRefs, {{"event_id"}}, {}),
     admin_audit_logs |-> Table([actor_id |-> CascadesTo("admin_users")], {}, {}),
     notification_templates |-> Table(NoRefs, {{"type", "locale"}}, {}),
     notification_queue |-> Table([user_id |-> CascadesTo("users")], {},
                                  {"notification_status_enum"}),
     refresh_tokens |-> Table([user_id |-> CascadesTo("users"),
                               admin_id |-> CascadesTo("admin_users")], {},
                              {"token_owner_type_enum"}),
     rate_limit_blocks |-> Table(NoRefs, {}, {}),
     blog_articles |-> Table([author_id |-> NulledWith("admin_users")],
                             {{"slug"}}, {"blog_status_enum"}),
     auth_tokens |-> Table([user_id |-> CascadesTo("users")], {},
                           {"auth_token_purpose_enum"})]

Joined(f, g) ==
    [x \in DOMAIN f \cup DOMAIN g |-> IF x \in DOMAIN f THEN f[x] ELSE g[x]]

TableOf ==
    Joined(IdentityTables,
           Joined(CatalogTables, Joined(ExamTables, Joined(CommerceTables, InternalTables))))

-----------------------------------------------------------------------------
(* Rows.                                                                   *)

Row(table, n, cols) == [id |-> <<table, n>>, cols |-> cols]

Refs(id) == TableOf[id[1]].refs
Keys(id) == TableOf[id[1]].keys

\* The foreign keys name rows, and no other row of the table has its keys.
CanInsert(db, id, cols) ==
    /\ id \notin DOMAIN db
    /\ \A c \in DOMAIN Refs(id) : cols[c] = Null \/ cols[c] \in DOMAIN db
    /\ \A key \in Keys(id), other \in DOMAIN db :
           ~(other[1] = id[1] /\ \A c \in key : db[other][c] = cols[c])

\* Mutant: the trigger is missing.
CountNothing(db, id, cols) == db

\* trg_update_promo_usage_count: a transaction with a promo code counts as a
\* use of the code, in the same statement.
CountUse(db, id, cols) ==
    IF id[1] = "transactions" /\ cols.promo_code_id # Null
    THEN [db EXCEPT ![cols.promo_code_id].usage_count = @ + 1]
    ELSE db

With(db, id, cols) == [i \in DOMAIN db \cup {id} |-> IF i = id THEN cols ELSE db[i]]

InsertRow(db, id, cols) == CountUse(With(db, id, cols), id, cols)

\* The rows that ON DELETE CASCADE removes when those of gone are, and in turn
\* the rows it removes then.
CascadesFrom(db, gone) ==
    {i \in DOMAIN db \ gone :
        \E c \in DOMAIN Refs(i) : Refs(i)[c].rule = "CASCADE" /\ db[i][c] \in gone}

Cascade(db, doomed) ==
    LET all[gone \in SUBSET DOMAIN db] ==
            IF CascadesFrom(db, gone) = {} THEN gone ELSE all[gone \cup CascadesFrom(db, gone)]
    IN  all[doomed]

\* The rows that lose a reference by ON DELETE SET NULL, an UPDATE of the row.
Loses(db, gone, i, c) ==
    c \in DOMAIN Refs(i) /\ Refs(i)[c].rule = "SET NULL" /\ db[i][c] \in gone

Nulled(db, gone) ==
    {i \in DOMAIN db \ gone : \E c \in DOMAIN Refs(i) : Loses(db, gone, i, c)}

\* trg_protect_super_admin: no DELETE and no UPDATE of a super_admin.
SuperAdmins(db) == {i \in DOMAIN db : i[1] = "admin_users" /\ db[i].role = "super_admin"}

CanDelete(db, ids) ==
    LET gone == Cascade(db, ids \cap DOMAIN db)
    IN  SuperAdmins(db) \cap (gone \cup Nulled(db, gone)) = {}

DeleteRows(db, ids) ==
    LET gone == Cascade(db, ids \cap DOMAIN db)
    IN  [i \in DOMAIN db \ gone |->
            IF i \in Nulled(db, gone)
            THEN [c \in DOMAIN db[i] |-> IF Loses(db, gone, i, c) THEN Null ELSE db[i][c]]
            ELSE db[i]]

-----------------------------------------------------------------------------
(* Objects of the schema, <<kind, name>>, and the objects each refers to.  *)

CertSequences == <<"cert_seq_psm", "cert_seq_pspo", "cert_seq_psd",
                   "cert_seq_pal", "cert_seq_sps", "cert_seq_pmp">>

FunctionOf ==
    [trg_protect_super_admin |-> "protect_super_admin_role",
     trg_update_promo_usage_count |-> "update_promo_usage_count",
     trg_audit_certificates |-> "audit_admin_action",
     trg_audit_exams |-> "audit_admin_action",
     trg_audit_admin_users |-> "audit_admin_action",
     trg_set_cert_sequence |-> "set_cert_sequence"]

TriggerOn ==
    [trg_protect_super_admin |-> "admin_users",
     trg_update_promo_usage_count |-> "transactions",
     trg_audit_certificates |-> "certificates",
     trg_audit_exams |-> "exams",
     trg_audit_admin_users |-> "admin_users",
     trg_set_cert_sequence |-> "issued_certificates"]

PolicyOn ==
    [student_purchases_isolation |-> "student_purchases",
     exam_attempts_isolation |-> "exam_attempts",
     issued_certificates_isolation |-> "issued_certificates",
     transactions_isolation |-> "transactions",
     admin_audit_logs_deny_select |-> "admin_audit_logs",
     admin_audit_logs_allow_insert |-> "admin_audit_logs"]

Needs(o) ==
    LET on(t) == <<"table", t>>
        column(t, c) == <<"column", t, c>>
    IN  CASE o[1] = "table" ->
                 ({on(Refs(<<o[2]>>)[c].to) : c \in DOMAIN Refs(<<o[2]>>)} \ {o})
                    \cup {<<"type", e>> : e \in TableOf[o[2]].types}
          [] o[1] = "trigger" -> {on(TriggerOn[o[2]]), <<"function", FunctionOf[o[2]]>>}
          [] o[1] = "policy"  -> {on(PolicyOn[o[2]])}
          [] o[1] = "column"  -> {on(o[2])} \cup
                                 IF o[3] = "level" THEN {<<"type", "certificates_level_enum">>}
                                                   ELSE {}
          [] o[1] = "check"   -> {on(o[2])} \cup
                                 IF o[2] = "admin_users" THEN {column(o[2], "locale")} ELSE {}
          [] o[1] = "index"   -> {on(o[2]), column(o[2], o[3])} \cup
                                 IF o[3] = "translations" THEN {<<"extension", "pg_trgm">>}
                                                          ELSE {}
          [] OTHER -> {}

-----------------------------------------------------------------------------
(* DDL statements.  A failing one aborts the transaction it runs in.       *)

Create(o)            == [op |-> "CREATE", object |-> o]
CreateIfNotExists(o) == [op |-> "CREATE IF NOT EXISTS", object |-> o]
CreateOrReplace(o)   == CreateIfNotExists(o)
Drop(o)              == [op |-> "DROP", object |-> o]
DropIfExists(o)      == [op |-> "DROP IF EXISTS", object |-> o]
DropCascade(o)       == [op |-> "DROP CASCADE", object |-> o]

All(Stmt(_), kind, names) == [i \in DOMAIN names |-> Stmt(<<kind, names[i]>>)]
OnEach(Stmt(_), kind, tables, name) ==
    [i \in DOMAIN tables |-> Stmt(<<kind, tables[i], name>>)]

Dependents(objects, o) == {d \in objects : o \in Needs(d)}

\* A table dropped with CASCADE takes with it what is on the table; a table that
\* refers to it loses the constraint only.  A column takes its indexes with it.
Swept(objects, o) == {d \in Dependents(objects, o) : d[1] # "table"}

Succeeds(objects, s) ==
    CASE s.op = "CREATE" -> s.object \notin objects /\ Needs(s.object) \subseteq objects
      [] s.op = "CREATE IF NOT EXISTS" -> Needs(s.object) \subseteq objects
      [] s.op = "DROP" -> s.object \in objects /\ Dependents(objects, s.object) = {}
      [] s.op = "DROP IF EXISTS" -> Dependents(objects, s.object) = {}
      [] s.op = "DROP CASCADE" -> TRUE

After(objects, s) ==
    CASE s.op \in {"CREATE", "CREATE IF NOT EXISTS"} -> objects \cup {s.object}
      [] s.op \in {"DROP", "DROP IF EXISTS"} -> objects \ {s.object}
      [] s.op = "DROP CASCADE" -> objects \ ({s.object} \cup Swept(objects, s.object))

-----------------------------------------------------------------------------
(* The migrations, in timestamp order.                                     *)

EnumTypes ==
    <<"admin_role_enum", "exam_status_enum", "question_type_enum",
      "attempt_status_enum", "test_session_status_enum", "payment_type_enum",
      "transaction_status_enum", "discount_type_enum", "notification_status_enum",
      "token_owner_type_enum", "blog_status_enum", "auth_token_purpose_enum">>

TablesUp ==
    <<"users", "admin_users", "certificates", "learning_modules", "lessons",
      "lesson_quizzes", "quiz_questions", "exams", "exam_questions",
      "exam_question_options", "exam_access_codes", "exam_attempts", "test_sessions",
      "student_purchases", "student_progress", "promo_codes", "transactions",
      "issued_certificates", "processed_webhooks", "admin_audit_logs",
      "notification_templates", "notification_queue", "refresh_tokens",
      "rate_limit_blocks", "blog_articles", "auth_tokens">>

Policies ==
    <<"student_purchases_isolation", "exam_attempts_isolation",
      "issued_certificates_isolation", "transactions_isolation",
      "admin_audit_logs_deny_select", "admin_audit_logs_allow_insert">>

FunctionsAndTriggers ==
    <<CreateOrReplace(<<"function", "check_rate_limit">>),
      CreateOrReplace(<<"function", "protect_super_admin_role">>),
      Create(<<"trigger", "trg_protect_super_admin">>),
      CreateOrReplace(<<"function", "update_promo_usage_count">>),
      Create(<<"trigger", "trg_update_promo_usage_count">>),
      CreateOrReplace(<<"function", "audit_admin_action">>),
      Create(<<"trigger", "trg_audit_certificates">>),
      Create(<<"trigger", "trg_audit_exams">>),
      Create(<<"trigger", "trg_audit_admin_users">>),
      CreateOrReplace(<<"function", "set_cert_sequence">>),
      Create(<<"trigger", "trg_set_cert_sequence">>)>>

InitialSchemaUp ==
    <<CreateIfNotExists(<<"extension", "pgcrypto">>)>>
        \o All(Create, "type", EnumTypes)
        \o All(Create, "table", TablesUp)
        \o All(Create, "policy", Policies)
        \o All(CreateIfNotExists, "sequence", CertSequences)
        \o FunctionsAndTriggers

TablesDown ==
    <<"auth_tokens", "blog_articles", "rate_limit_blocks", "refresh_tokens",
      "notification_queue", "notification_templates", "admin_audit_logs",
      "processed_webhooks", "issued_certificates", "transactions",
      "student_progress", "student_purchases", "test_sessions", "exam_attempts",
      "exam_access_codes", "exam_question_options", "exam_questions", "exams",
      "quiz_questions", "lesson_quizzes", "lessons", "learning_modules",
      "promo_codes", "certificates", "admin_users", "users">>

InitialSchemaDown ==
    All(DropIfExists, "trigger",
        <<"trg_set_cert_sequence", "trg_audit_admin_users", "trg_audit_exams",
          "trg_audit_certificates", "trg_update_promo_usage_count",
          "trg_protect_super_admin">>)
        \o All(DropIfExists, "function",
               <<"set_cert_sequence", "audit_admin_action", "update_promo_usage_count",
                 "protect_super_admin_role", "check_rate_limit">>)
        \o All(DropIfExists, "sequence", CertSequences)
        \o All(DropCascade, "table", TablesDown)
        \o All(DropIfExists, "type", EnumTypes)

Translatable == <<"certificates", "learning_modules", "lessons", "exams", "blog_articles">>
Searched     == <<"certificates", "learning_modules", "lessons", "blog_articles">>

AddI18nSupportUp ==
    <<CreateIfNotExists(<<"extension", "pg_trgm">>)>>
        \o OnEach(Create, "column", Translatable, "translations")
        \o <<Create(<<"column", "admin_users", "locale">>),
             Create(<<"check", "users">>), Create(<<"check", "admin_users">>)>>
        \o OnEach(Create, "index", Searched, "translations")

\* pg_trgm stays.
AddI18nSupportDown ==
    OnEach(DropIfExists, "index", Reverse(Searched), "translations")
        \o <<DropIfExists(<<"check", "admin_users">>), DropIfExists(<<"check", "users">>),
             DropCascade(<<"column", "admin_users", "locale">>)>>
        \o OnEach(DropCascade, "column", Reverse(Translatable), "translations")

AddCertIdToTestSessionsUp ==
    <<CreateIfNotExists(<<"column", "test_sessions", "cert_id">>),
      CreateIfNotExists(<<"index", "test_sessions", "cert_id">>)>>

AddCertIdToTestSessionsDown ==
    <<DropIfExists(<<"index", "test_sessions", "cert_id">>),
      DropCascade(<<"column", "test_sessions", "cert_id">>)>>

\* One ALTER TABLE adds and one drops the five columns; "level" stands for them.
AddCertCatalogFieldsUp ==
    <<Create(<<"type", "certificates_level_enum">>),
      Create(<<"column", "certificates", "level">>)>>

\* Mutant: the type is forgotten.
AddCertCatalogFieldsDownKeepsType == <<DropCascade(<<"column", "certificates", "level">>)>>

AddCertCatalogFieldsDown ==
    <<DropCascade(<<"column", "certificates", "level">>),
      Drop(<<"type", "certificates_level_enum">>)>>

Migrations ==
    <<[up |-> InitialSchemaUp, down |-> InitialSchemaDown],
      [up |-> AddI18nSupportUp, down |-> AddI18nSupportDown],
      [up |-> AddCertIdToTestSessionsUp, down |-> AddCertIdToTestSessionsDown],
      [up |-> AddCertCatalogFieldsUp, down |-> AddCertCatalogFieldsDown]>>

\* What n applied migrations amount to: everything their up() creates.
Extensions == {<<"extension", "pgcrypto">>, <<"extension", "pg_trgm">>}
CreatedBy(m) == {Migrations[m].up[i].object : i \in DOMAIN Migrations[m].up}
SchemaAfter == [n \in 0 .. Len(Migrations) |-> UNION {CreatedBy(m) : m \in 1 .. n}]
===============================================================================
