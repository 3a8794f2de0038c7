-------------------------- MODULE ProvisioningProofs --------------------------
(***************************************************************************)
(* Theorems about Provisioning, for any containers, environments, rows of  *)
(* people and numbers of seeds, crashes and reverts, over the four         *)
(* migrations and a dataset of any size that PlanAssumption holds of.      *)
(*                                                                         *)
(* Recursive functions (the cascade of a delete, the rows of a             *)
(* transaction, the statements of a down()) are shown to exist and to have *)
(* their property by a least counterexample.  Of the migrations the proofs *)
(* show that each down() removes what its up() created, but for the        *)
(* extensions, and nothing an earlier one did.                             *)
(***************************************************************************)
EXTENDS Provisioning, TLAPS, FiniteSetTheorems, WellFoundedInduction

-----------------------------------------------------------------------------
(* ON DELETE CASCADE.                                                      *)

\* The equation that Cascade's function all satisfies.
CascadeEq(d, f) ==
    f = [gone \in SUBSET DOMAIN d |->
            IF CascadesFrom(d, gone) = {} THEN gone ELSE f[gone \cup CascadesFrom(d, gone)]]

\* Every row with a reference that cascades into gone is in gone.
Closed(d, gone) == CascadesFrom(d, gone) = {}

\* Some function satisfies it: the one to the least closed superset.
LEMMA CascadeExists ==
    ASSUME NEW d
    PROVE  \E f : CascadeEq(d, f)
<1> DEFINE least(gone) == {i \in DOMAIN d : \A X \in SUBSET DOMAIN d :
                               gone \subseteq X /\ Closed(d, X) => i \in X}
           f == [gone \in SUBSET DOMAIN d |-> least(gone)]
<1>1. ASSUME NEW gone \in SUBSET DOMAIN d, Closed(d, gone) PROVE least(gone) = gone
    BY <1>1
<1>2. ASSUME NEW gone \in SUBSET DOMAIN d, NEW X \in SUBSET DOMAIN d, gone \subseteq X, Closed(d, X)
      PROVE  CascadesFrom(d, gone) \subseteq X
    BY <1>2 DEF Closed, CascadesFrom
<1>3. ASSUME NEW gone \in SUBSET DOMAIN d
      PROVE  least(gone) = least(gone \cup CascadesFrom(d, gone))
    BY <1>2
<1>4. \A gone \in SUBSET DOMAIN d : gone \cup CascadesFrom(d, gone) \in SUBSET DOMAIN d
    BY DEF CascadesFrom
<1>5. \A gone \in SUBSET DOMAIN d :
          f[gone] = IF CascadesFrom(d, gone) = {} THEN gone
                    ELSE f[gone \cup CascadesFrom(d, gone)]
    <2> SUFFICES ASSUME NEW gone \in SUBSET DOMAIN d
                 PROVE f[gone] = IF CascadesFrom(d, gone) = {} THEN gone
                                 ELSE f[gone \cup CascadesFrom(d, gone)]
        OBVIOUS
    <2> HIDE DEF least
    <2>1. f[gone] = least(gone) OBVIOUS
    <2>2. f[gone \cup CascadesFrom(d, gone)] = least(gone \cup CascadesFrom(d, gone)) BY <1>4
    <2> QED BY <2>1, <2>2, <1>1, <1>3 DEF Closed
<1> HIDE DEF least
<1>6. CascadeEq(d, f) BY <1>5 DEF CascadeEq
<1> HIDE DEF f
<1> QED BY <1>6

LEMMA CascadeIs ==
    ASSUME NEW d, NEW doomed
    PROVE  \E f : CascadeEq(d, f) /\ Cascade(d, doomed) = f[doomed]
<1> DEFINE f == CHOOSE g : CascadeEq(d, g)
<1>1. CascadeEq(d, f) BY CascadeExists
<1>2. Cascade(d, doomed) = f[doomed] BY DEF Cascade, CascadeEq
<1> QED BY <1>1, <1>2

\* A set of numbers has a least one.
LEMMA LeastOf ==
    ASSUME NEW S \in SUBSET Nat, S # {}
    PROVE  \E x \in S : \A y \in S : x <= y
<1>1. PICK x \in S : \A y \in S : ~(<<y, x>> \in OpToRel(<, Nat))
    BY NatLessThanWellFounded, WFMin, Zenon
<1>2. \A y \in S : x <= y
    <2> SUFFICES ASSUME NEW y \in S PROVE x <= y OBVIOUS
    <2>1. <<y, x>> \in Nat \X Nat /\ ~(<<y, x>> \in OpToRel(<, Nat)) BY <1>1
    <2>2. ~(y < x) BY <2>1, Zenon DEF OpToRel
    <2> QED BY <2>2
<1> QED BY <1>2

\* What a delete takes with it: all rows of gone were doomed or refer to a row
\* of gone, and no row that stays has a reference that cascades into gone.
Supported(d, doomed, gone) ==
    \A i \in gone \ doomed : \E c \in DOMAIN Refs(i) :
        Refs(i)[c].rule = "CASCADE" /\ d[i][c] \in gone

Takes(d, doomed, gone) ==
    /\ doomed \subseteq gone /\ gone \subseteq DOMAIN d
    /\ Closed(d, gone)
    /\ Supported(d, doomed, gone)

LEMMA CascadeTakes ==
    ASSUME NEW d, IsFiniteSet(DOMAIN d), NEW doomed \in SUBSET DOMAIN d
    PROVE  Takes(d, doomed, Cascade(d, doomed))
<1>1. PICK f : CascadeEq(d, f) /\ Cascade(d, doomed) = f[doomed] BY CascadeIs
<1> DEFINE left(S) == Cardinality(DOMAIN d \ S)
           Bad == {n \in Nat : \E S \in SUBSET DOMAIN d : left(S) = n /\ ~Takes(d, S, f[S])}
<1>2. ASSUME NEW S \in SUBSET DOMAIN d PROVE left(S) \in Nat /\ IsFiniteSet(DOMAIN d \ S)
    <2>1. IsFiniteSet(DOMAIN d \ S) BY FS_Subset
    <2> QED BY <2>1, FS_CardinalityType
<1>3. Bad = {}
    <2> SUFFICES ASSUME Bad # {} PROVE FALSE OBVIOUS
    <2>1. PICK n \in Bad : \A m \in Bad : n <= m BY LeastOf
    <2>2. PICK S \in SUBSET DOMAIN d : left(S) = n /\ ~Takes(d, S, f[S]) OBVIOUS
    <2> DEFINE hit == CascadesFrom(d, S)
               T == S \cup hit
    <2>3. hit \subseteq DOMAIN d \ S /\ T \in SUBSET DOMAIN d BY DEF CascadesFrom
    <2>4. f[S] = IF hit = {} THEN S ELSE f[T] BY <1>1 DEF CascadeEq
    <2>5. CASE hit = {}
        BY <2>2, <2>4, <2>5 DEF Takes, Closed, Supported
    <2>6. CASE hit # {}
        <3>1. DOMAIN d \ T \subseteq DOMAIN d \ S /\ DOMAIN d \ T # DOMAIN d \ S
            BY <2>3, <2>6
        <3>2. left(T) <= left(S) /\ (left(T) = left(S) => DOMAIN d \ T = DOMAIN d \ S)
            BY <1>2, <3>1, FS_Subset
        <3>3. left(T) \in Nat /\ left(S) \in Nat BY <1>2, <2>3
        <3> HIDE DEF left, T
        <3>4. left(T) < n BY <2>2, <3>1, <3>2, <3>3
        <3>5. left(T) \notin Bad BY <2>1, <3>3, <3>4
        <3>a. Takes(d, T, f[T]) BY <3>5, <3>3, <2>3
        <3> USE DEF T
        <3>6. f[S] = f[T] BY <2>4, <2>6
        <3>7. \A i \in hit : \E c \in DOMAIN Refs(i) :
                  Refs(i)[c].rule = "CASCADE" /\ d[i][c] \in S
            BY DEF CascadesFrom
        <3>8. Supported(d, S, f[T])
            BY <3>a, <3>7 DEF Takes, Supported
        <3>9. Takes(d, S, f[S]) BY <3>a, <3>6, <3>8 DEF Takes
        <3> QED BY <3>9, <2>2
    <2> QED BY <2>5, <2>6
<1>4. Takes(d, doomed, f[doomed])
    <2> SUFFICES ASSUME ~Takes(d, doomed, f[doomed]) PROVE FALSE OBVIOUS
    <2>1. left(doomed) \in Bad BY <1>2
    <2> QED BY <2>1, <1>3
<1> QED BY <1>1, <1>4

-----------------------------------------------------------------------------
(* The tables.                                                             *)

TableNames ==
    DOMAIN IdentityTables \cup DOMAIN CatalogTables \cup DOMAIN ExamTables
        \cup DOMAIN CommerceTables \cup DOMAIN InternalTables

\* The tables whose rows change after they are written: rule SET NULL clears a
\* reference, a trigger counts uses of promo codes.
LEMMA Tables ==
    /\ DOMAIN TableOf = TableNames
    /\ TableOf["admin_users"] = IdentityTables["admin_users"]
    /\ TableOf["promo_codes"] = CommerceTables["promo_codes"]
    /\ TableOf["transactions"] = CommerceTables["transactions"]
    /\ {"admin_users", "promo_codes", "transactions"} \subseteq DOMAIN TableOf
<1>1. DOMAIN IdentityTables = {"users", "admin_users"} BY DEF IdentityTables
<1>2. DOMAIN CatalogTables = {"certificates", "learning_modules", "lessons",
                              "lesson_quizzes", "quiz_questions"}
    BY DEF CatalogTables
<1>3. DOMAIN ExamTables = {"exams", "exam_questions", "exam_question_options",
                           "exam_access_codes", "exam_attempts", "test_sessions"}
    BY DEF ExamTables
<1>4. DOMAIN CommerceTables = {"student_purchases", "student_progress", "promo_codes",
                               "transactions", "issued_certificates"}
    BY DEF CommerceTables
<1> DEFINE two == Joined(CommerceTables, InternalTables)
           three == Joined(ExamTables, two)
           four == Joined(CatalogTables, three)
<1>5. /\ DOMAIN two = DOMAIN CommerceTables \cup DOMAIN InternalTables
      /\ two["promo_codes"] = CommerceTables["promo_codes"]
      /\ two["transactions"] = CommerceTables["transactions"]
    BY <1>4 DEF Joined
<1> HIDE DEF two
<1>6. /\ DOMAIN three = DOMAIN ExamTables \cup DOMAIN two
      /\ three["promo_codes"] = CommerceTables["promo_codes"]
      /\ three["transactions"] = CommerceTables["transactions"]
    BY <1>3, <1>4, <1>5 DEF Joined
<1> HIDE DEF three
<1>7. /\ DOMAIN four = DOMAIN CatalogTables \cup DOMAIN three
      /\ four["promo_codes"] = CommerceTables["promo_codes"]
      /\ four["transactions"] = CommerceTables["transactions"]
    BY <1>2, <1>4, <1>5, <1>6 DEF Joined
<1>8. TableOf = Joined(IdentityTables, four) BY DEF TableOf, two, three
<1> HIDE DEF four
<1>9. /\ DOMAIN TableOf = DOMAIN IdentityTables \cup DOMAIN four
      /\ \A t \in DOMAIN IdentityTables : TableOf[t] = IdentityTables[t]
      /\ \A t \in DOMAIN four : t \notin DOMAIN IdentityTables => TableOf[t] = four[t]
    BY <1>8 DEF Joined
<1> QED BY <1>1, <1>4, <1>5, <1>6, <1>7, <1>9 DEF TableNames

\* A table is one of a group's.
LEMMA TableIn ==
    ASSUME NEW t \in DOMAIN TableOf
    PROVE  \/ t \in DOMAIN IdentityTables /\ TableOf[t] = IdentityTables[t]
           \/ t \in DOMAIN CatalogTables /\ TableOf[t] = CatalogTables[t]
           \/ t \in DOMAIN ExamTables /\ TableOf[t] = ExamTables[t]
           \/ t \in DOMAIN CommerceTables /\ TableOf[t] = CommerceTables[t]
           \/ t \in DOMAIN InternalTables /\ TableOf[t] = InternalTables[t]
<1>1. ASSUME NEW f, NEW g, NEW h, f = Joined(g, h), NEW x \in DOMAIN f
      PROVE  \/ x \in DOMAIN g /\ f[x] = g[x]
             \/ x \in DOMAIN h /\ f[x] = h[x]
    BY <1>1 DEF Joined
<1> DEFINE two == Joined(CommerceTables, InternalTables)
           three == Joined(ExamTables, two)
           four == Joined(CatalogTables, three)
<1>2. TableOf = Joined(IdentityTables, four) BY DEF TableOf
<1>3. four = Joined(CatalogTables, three) OBVIOUS
<1>4. three = Joined(ExamTables, two) OBVIOUS
<1>5. two = Joined(CommerceTables, InternalTables) OBVIOUS
<1> HIDE DEF two, three, four
<1>6. \/ t \in DOMAIN IdentityTables /\ TableOf[t] = IdentityTables[t]
      \/ t \in DOMAIN four /\ TableOf[t] = four[t]
    BY <1>1, <1>2
<1>7. t \in DOMAIN four => \/ t \in DOMAIN CatalogTables /\ four[t] = CatalogTables[t]
                           \/ t \in DOMAIN three /\ four[t] = three[t]
    BY <1>1, <1>3
<1>8. t \in DOMAIN three => \/ t \in DOMAIN ExamTables /\ three[t] = ExamTables[t]
                            \/ t \in DOMAIN two /\ three[t] = two[t]
    BY <1>1, <1>4
<1>9. t \in DOMAIN two => \/ t \in DOMAIN CommerceTables /\ two[t] = CommerceTables[t]
                          \/ t \in DOMAIN InternalTables /\ two[t] = InternalTables[t]
    BY <1>1, <1>5
<1> QED BY <1>6, <1>7, <1>8, <1>9

\* A reference cascades or is cleared, and no key has a column that changes.
Steady(T) ==
    /\ \A c \in DOMAIN T.refs : T.refs[c].rule \in {"CASCADE", "SET NULL"}
    /\ \A key \in T.keys : \A c \in key :
           /\ c # "usage_count"
           /\ c \in DOMAIN T.refs => T.refs[c].rule = "CASCADE"

Cascades(refs) == \A c \in DOMAIN refs : \E t : refs[c] = CascadesTo(t)

Clears(refs) == \A c \in DOMAIN refs : \E t : refs[c] = CascadesTo(t) \/ refs[c] = NulledWith(t)

Outside(keys, refs) == \A key \in keys : \A c \in key : c # "usage_count" /\ c \notin DOMAIN refs

LEMMA Rules == \A t : CascadesTo(t).rule = "CASCADE" /\ NulledWith(t).rule = "SET NULL"
BY DEF CascadesTo, NulledWith

LEMMA OnlyCascades ==
    ASSUME NEW refs, NEW keys, NEW types, Cascades(refs),
           \A key \in keys : \A c \in key : c # "usage_count"
    PROVE  Steady(Table(refs, keys, types))
BY Rules DEF Steady, Table, Cascades

LEMMA SomeCleared ==
    ASSUME NEW refs, NEW keys, NEW types, Clears(refs), Outside(keys, refs)
    PROVE  Steady(Table(refs, keys, types))
BY Rules DEF Steady, Table, Clears, Outside

LEMMA TablesSteady ==
    ASSUME NEW t \in DOMAIN TableOf
    PROVE  Steady(TableOf[t])
<1>1. \A x \in DOMAIN IdentityTables : Steady(IdentityTables[x])
    <2>1. Steady(IdentityTables["users"]) BY OnlyCascades DEF IdentityTables, Cascades, NoRefs
    <2>2. Steady(IdentityTables["admin_users"])
        <3>1. Clears([created_by_id |-> NulledWith("admin_users")]) BY DEF Clears
        <3>2. Outside({{"email"}}, [created_by_id |-> NulledWith("admin_users")])
            BY DEF Outside
        <3> QED BY <3>1, <3>2, SomeCleared DEF IdentityTables
    <2> QED BY <2>1, <2>2 DEF IdentityTables
<1>2. \A x \in DOMAIN CatalogTables : Steady(CatalogTables[x])
    <2>1. Steady(CatalogTables["certificates"]) BY OnlyCascades DEF CatalogTables, Cascades, NoRefs
    <2>2. Steady(CatalogTables["learning_modules"]) BY OnlyCascades DEF CatalogTables, Cascades, NoRefs
    <2>3. Steady(CatalogTables["lessons"]) BY OnlyCascades DEF CatalogTables, Cascades, NoRefs
    <2>4. Steady(CatalogTables["lesson_quizzes"]) BY OnlyCascades DEF CatalogTables, Cascades, NoRefs
    <2>5. Steady(CatalogTables["quiz_questions"]) BY OnlyCascades DEF CatalogTables, Cascades, NoRefs
    <2> QED BY <2>1, <2>2, <2>3, <2>4, <2>5 DEF CatalogTables
<1>3. \A x \in DOMAIN ExamTables : Steady(ExamTables[x])
    <2>1. Steady(ExamTables["exams"]) BY OnlyCascades DEF ExamTables, Cascades, NoRefs
    <2>2. Steady(ExamTables["exam_questions"]) BY OnlyCascades DEF ExamTables, Cascades, NoRefs
    <2>3. Steady(ExamTables["exam_question_options"]) BY OnlyCascades DEF ExamTables, Cascades, NoRefs
    <2>4. Steady(ExamTables["exam_access_codes"]) BY OnlyCascades DEF ExamTables, Cascades, NoRefs
    <2>5. Steady(ExamTables["exam_attempts"]) BY OnlyCascades DEF ExamTables, Cascades, NoRefs
    <2>6. Steady(ExamTables["test_sessions"]) BY OnlyCascades DEF ExamTables, Cascades, NoRefs
    <2> QED BY <2>1, <2>2, <2>3, <2>4, <2>5, <2>6 DEF ExamTables
<1>4. \A x \in DOMAIN CommerceTables : Steady(CommerceTables[x])
    <2>1. Steady(CommerceTables["student_purchases"]) BY OnlyCascades DEF CommerceTables, Cascades, NoRefs
    <2>2. Steady(CommerceTables["student_progress"]) BY OnlyCascades DEF CommerceTables, Cascades, NoRefs
    <2>3. Steady(CommerceTables["issued_certificates"]) BY OnlyCascades DEF CommerceTables, Cascades, NoRefs
    <2>4. Steady(CommerceTables["promo_codes"])
        <3>1. Clears([created_by_id |-> NulledWith("admin_users")]) BY DEF Clears
        <3>2. Outside({{"code"}}, [created_by_id |-> NulledWith("admin_users")])
            BY DEF Outside
        <3> QED BY <3>1, <3>2, SomeCleared DEF CommerceTables
    <2>5. Steady(CommerceTables["transactions"])
        <3>1. Clears([user_id |-> CascadesTo("users"), cert_id |-> CascadesTo("certificates"),
                      promo_code_id |-> NulledWith("promo_codes")]) BY DEF Clears
        <3>2. Outside({{"stripe_session_id"}}, [user_id |-> CascadesTo("users"), cert_id |-> CascadesTo("certificates"),
                      promo_code_id |-> NulledWith("promo_codes")])
            BY DEF Outside
        <3> QED BY <3>1, <3>2, SomeCleared DEF CommerceTables
    <2> QED BY <2>1, <2>2, <2>3, <2>4, <2>5 DEF CommerceTables
<1>5. \A x \in DOMAIN InternalTables : Steady(InternalTables[x])
    <2>1. Steady(InternalTables["processed_webhooks"]) BY OnlyCascades DEF InternalTables, Cascades, NoRefs
    <2>2. Steady(InternalTables["admin_audit_logs"]) BY OnlyCascades DEF InternalTables, Cascades, NoRefs
    <2>3. Steady(InternalTables["notification_templates"]) BY OnlyCascades DEF InternalTables, Cascades, NoRefs
    <2>4. Steady(InternalTables["notification_queue"]) BY OnlyCascades DEF InternalTables, Cascades, NoRefs
    <2>5. Steady(InternalTables["refresh_tokens"]) BY OnlyCascades DEF InternalTables, Cascades, NoRefs
    <2>6. Steady(InternalTables["rate_limit_blocks"]) BY OnlyCascades DEF InternalTables, Cascades, NoRefs
    <2>7. Steady(InternalTables["auth_tokens"]) BY OnlyCascades DEF InternalTables, Cascades, NoRefs
    <2>8. Steady(InternalTables["blog_articles"])
        <3>1. Clears([author_id |-> NulledWith("admin_users")]) BY DEF Clears
        <3>2. Outside({{"slug"}}, [author_id |-> NulledWith("admin_users")])
            BY DEF Outside
        <3> QED BY <3>1, <3>2, SomeCleared DEF InternalTables
    <2> QED BY <2>1, <2>2, <2>3, <2>4, <2>5, <2>6, <2>7, <2>8 DEF InternalTables
<1> QED BY TableIn, <1>1, <1>2, <1>3, <1>4, <1>5

LEMMA Columns ==
    ASSUME NEW i
    PROVE  /\ i[1] = "admin_users" =>
                  /\ DOMAIN Refs(i) = {"created_by_id"} /\ Keys(i) = {{"email"}}
                  /\ Refs(i)["created_by_id"].rule = "SET NULL"
           /\ i[1] = "promo_codes" =>
                  /\ DOMAIN Refs(i) = {"created_by_id"} /\ Keys(i) = {{"code"}}
                  /\ Refs(i)["created_by_id"].rule = "SET NULL"
           /\ i[1] = "transactions" =>
                  /\ "promo_code_id" \in DOMAIN Refs(i)
                  /\ Refs(i)["promo_code_id"].rule = "SET NULL"
                  /\ Refs(i)["promo_code_id"].to = "promo_codes"
<1> DEFINE byAdmin == [created_by_id |-> NulledWith("admin_users")]
<1>1. /\ DOMAIN byAdmin = {"created_by_id"}
      /\ byAdmin["created_by_id"].rule = "SET NULL"
    BY DEF NulledWith
<1> HIDE DEF byAdmin
<1>2. /\ TableOf["admin_users"].refs = byAdmin /\ TableOf["admin_users"].keys = {{"email"}}
      /\ TableOf["promo_codes"].refs = byAdmin /\ TableOf["promo_codes"].keys = {{"code"}}
    BY Tables DEF IdentityTables, CommerceTables, Table, byAdmin
<1>3. /\ "promo_code_id" \in DOMAIN TableOf["transactions"].refs
      /\ TableOf["transactions"].refs["promo_code_id"] = NulledWith("promo_codes")
    BY Tables DEF CommerceTables, Table
<1>4. NulledWith("promo_codes").rule = "SET NULL" /\ NulledWith("promo_codes").to = "promo_codes"
    BY DEF NulledWith
<1> QED BY <1>1, <1>2, <1>3, <1>4 DEF Refs, Keys

\* The tables a course is told in.
LEMMA ProgressColumns ==
    ASSUME NEW i, i[1] = "student_progress"
    PROVE  /\ i[1] \in DOMAIN TableOf
           /\ DOMAIN Refs(i) = {"user_id", "lesson_id"} /\ Keys(i) = {{"user_id", "lesson_id"}}
           /\ Refs(i)["user_id"].to = "users" /\ Refs(i)["user_id"].rule = "CASCADE"
           /\ Refs(i)["lesson_id"].to = "lessons"
<1> DEFINE t == "student_progress"
           refs == [user_id |-> CascadesTo("users"), lesson_id |-> CascadesTo("lessons")]
<1>1. t \in DOMAIN TableOf /\ TableOf[t].refs = refs /\ TableOf[t].keys = {{"user_id", "lesson_id"}}
    <2>0. t \in DOMAIN CommerceTables BY DEF CommerceTables
    <2>1. t \in DOMAIN TableOf BY <2>0, Tables DEF TableNames
    <2>2. t \notin DOMAIN IdentityTables BY DEF IdentityTables
    <2>3. t \notin DOMAIN CatalogTables BY DEF CatalogTables
    <2>4. t \notin DOMAIN ExamTables BY DEF ExamTables
    <2>5. t \notin DOMAIN InternalTables BY DEF InternalTables
    <2>6. CommerceTables[t].refs = refs /\ CommerceTables[t].keys = {{"user_id", "lesson_id"}}
        BY DEF CommerceTables, Table
    <2> HIDE DEF t, refs
    <2>7. TableOf[t] = CommerceTables[t] BY <2>1, <2>2, <2>3, <2>4, <2>5, TableIn
    <2> QED BY <2>1, <2>6, <2>7
<1>2. /\ DOMAIN refs = {"user_id", "lesson_id"}
      /\ refs["user_id"] = CascadesTo("users") /\ refs["lesson_id"] = CascadesTo("lessons")
    OBVIOUS
<1> HIDE DEF refs
<1>3. /\ CascadesTo("users").to = "users" /\ CascadesTo("users").rule = "CASCADE"
      /\ CascadesTo("lessons").to = "lessons"
    BY DEF CascadesTo
<1> QED BY <1>1, <1>2, <1>3 DEF Refs, Keys

LEMMA LessonColumns ==
    ASSUME NEW i, i[1] = "lessons"
    PROVE  "module_id" \in DOMAIN Refs(i) /\ Refs(i)["module_id"].to = "learning_modules"
<1> DEFINE t == "lessons"
           refs == [module_id |-> CascadesTo("learning_modules")]
<1>1. TableOf[t].refs = refs
    <2>0. t \in DOMAIN CatalogTables BY DEF CatalogTables
    <2>1. t \in DOMAIN TableOf BY <2>0, Tables DEF TableNames
    <2>2. t \notin DOMAIN IdentityTables BY DEF IdentityTables
    <2>3. t \notin DOMAIN CommerceTables BY DEF CommerceTables
    <2>4. t \notin DOMAIN ExamTables BY DEF ExamTables
    <2>5. t \notin DOMAIN InternalTables BY DEF InternalTables
    <2>6. CatalogTables[t].refs = refs BY DEF CatalogTables, Table
    <2> HIDE DEF t, refs
    <2>7. TableOf[t] = CatalogTables[t] BY <2>1, <2>2, <2>3, <2>4, <2>5, TableIn
    <2> QED BY <2>6, <2>7
<1>2. DOMAIN refs = {"module_id"} /\ refs["module_id"] = CascadesTo("learning_modules")
    OBVIOUS
<1> HIDE DEF refs
<1>3. CascadesTo("learning_modules").to = "learning_modules" BY DEF CascadesTo
<1> QED BY <1>1, <1>2, <1>3 DEF Refs

-----------------------------------------------------------------------------
(* The rows of the seed: those of its script, and progress.                *)

PlannedIds == {r.id : r \in PlannedRows}

LEMMA ProgressIs ==
    ASSUME NEW n \in CourseSteps, NEW l \in Lessons, NEW r, r = ProgressRow(Course[n], l)
    PROVE  /\ r \in ProgressRows
           /\ r.id = <<"student_progress", <<Course[n].user_id, l>>>>
           /\ r.id[1] = "student_progress"
           /\ r.cols = [user_id |-> Course[n].user_id, lesson_id |-> l]
           /\ WellFormed(r) /\ Ordinary(r)
<1>1. r \in ProgressRows BY DEF ProgressRows
<1> DEFINE u == Course[n].user_id
           i == <<"student_progress", <<u, l>>>>
           cols == [user_id |-> u, lesson_id |-> l]
<1>2. r.id = i /\ r.cols = cols BY DEF ProgressRow, Row
<1>3. i[1] = "student_progress" /\ i # Null BY DEF Null
<1>4. u[1] = "users" BY PlanAssumption DEF CourseAt
<1>5. l[1] = "lessons" BY DEF Lessons
<1>6. /\ DOMAIN cols = {"user_id", "lesson_id"} /\ UNION {{"user_id", "lesson_id"}} = DOMAIN cols
      /\ cols["user_id"] = u /\ cols["lesson_id"] = l
    OBVIOUS
<1> HIDE DEF u, i, cols
<1>7. /\ i[1] \in DOMAIN TableOf /\ DOMAIN Refs(i) = {"user_id", "lesson_id"}
      /\ Keys(i) = {{"user_id", "lesson_id"}}
      /\ Refs(i)["user_id"].to = "users" /\ Refs(i)["lesson_id"].to = "lessons"
    BY <1>3, ProgressColumns
<1>8. WellFormed(r) BY <1>2, <1>3, <1>4, <1>5, <1>6, <1>7 DEF WellFormed
<1>9. Ordinary(r) BY <1>2, <1>3 DEF Ordinary
<1> QED BY <1>1, <1>2, <1>3, <1>8, <1>9 DEF u, i, cols

LEMMA ProgressFrom ==
    ASSUME NEW r \in ProgressRows
    PROVE  /\ r.id[1] = "student_progress" /\ WellFormed(r) /\ Ordinary(r)
           /\ \E n \in CourseSteps : \E l \in Lessons :
                  /\ r.id = <<"student_progress", <<Course[n].user_id, l>>>>
                  /\ r.cols = [user_id |-> Course[n].user_id, lesson_id |-> l]
<1>1. PICK n \in CourseSteps, l \in Lessons : r = ProgressRow(Course[n], l)
    BY DEF ProgressRows
<1>2. /\ r.id = <<"student_progress", <<Course[n].user_id, l>>>>
      /\ r.id[1] = "student_progress"
      /\ r.cols = [user_id |-> Course[n].user_id, lesson_id |-> l]
      /\ WellFormed(r) /\ Ordinary(r)
    BY <1>1, ProgressIs
<1> QED BY <1>2, Zenon

LEMMA ProgressId ==
    ASSUME NEW n \in CourseSteps, NEW l \in Lessons
    PROVE  LET i == ProgressRow(Course[n], l).id
           IN  /\ i = <<"student_progress", <<Course[n].user_id, l>>>>
               /\ i[1] = "student_progress" /\ i[2][1] = Course[n].user_id /\ i[2][2] = l
BY DEF ProgressRow, Row

LEMMA DemoIs ==
    /\ \A r \in PlannedRows : r \in DemoRows /\ r.id \in PlannedIds /\ r.id \in DemoIds
                                  /\ r.id[1] # "student_progress"
    /\ \A r \in ProgressRows : r \in DemoRows /\ r.id \in DemoIds /\ r.id \notin PlannedIds
                                   /\ r.id[1] = "student_progress"
    /\ \A i \in DemoIds : i[1] # "student_progress" => i \in PlannedIds
<1>1. \A r \in PlannedRows : r.id[1] # "student_progress" BY PlanAssumption
<1>2. ASSUME NEW r \in ProgressRows PROVE r.id[1] = "student_progress" BY ProgressFrom
<1> QED BY <1>1, <1>2 DEF DemoRows, DemoIds, PlannedIds

-----------------------------------------------------------------------------
(* What is true of the rows, whoever writes next.                          *)

Sources == DemoRows \cup ManualRows \cup {SuperAdminRow(c) : c \in Containers}

LEMMA BootstrapRow ==
    ASSUME NEW c \in Containers
    PROVE  /\ SuperAdminRow(c).id = <<"admin_users", c>>
           /\ SuperAdminRow(c).cols = [email |-> <<"bootstrap">>, role |-> "super_admin",
                                       created_by_id |-> Null]
           /\ WellFormed(SuperAdminRow(c))
<1>1. /\ SuperAdminRow(c).id = <<"admin_users", c>>
      /\ SuperAdminRow(c).cols = [email |-> <<"bootstrap">>, role |-> "super_admin",
                                  created_by_id |-> Null]
    BY DEF SuperAdminRow, Row
<1> DEFINE i == <<"admin_users", c>>
           cols == [email |-> <<"bootstrap">>, role |-> "super_admin", created_by_id |-> Null]
<1>2. DOMAIN cols = {"email", "role", "created_by_id"} /\ cols["created_by_id"] = Null OBVIOUS
<1>3. i[1] = "admin_users" /\ i # Null BY DEF Null
<1>4. DOMAIN Refs(i) = {"created_by_id"} /\ UNION Keys(i) = {"email"} BY <1>3, Columns
<1> HIDE DEF cols, i
<1>5. "admin_users" \in DOMAIN TableOf BY Tables
<1> QED BY <1>1, <1>2, <1>3, <1>4, <1>5 DEF WellFormed, cols, i

LEMMA SourcesWellFormed == \A r \in Sources : WellFormed(r)
<1>1. ASSUME NEW r \in ProgressRows PROVE WellFormed(r) BY ProgressFrom
<1> QED BY <1>1, PlanAssumption, ProvisioningAssumption, BootstrapRow DEF Sources, DemoRows

\* A row is as it was written, but for a cleared reference and the use count of
\* a promo code.
Kept(r, row) ==
    /\ DOMAIN row = DOMAIN r.cols
    /\ \A c \in DOMAIN r.cols :
           \/ row[c] = r.cols[c]
           \/ c \in DOMAIN Refs(r.id) /\ Refs(r.id)[c].rule = "SET NULL" /\ row[c] = Null
           \/ r.id[1] = "promo_codes" /\ c = "usage_count" /\ row[c] \in Nat

Came(d) == \A i \in DOMAIN d : \E r \in Sources : r.id = i /\ Kept(r, d[i])

\* A foreign key names a row.
Referential(d) ==
    \A i \in DOMAIN d : \A c \in DOMAIN Refs(i) : d[i][c] = Null \/ d[i][c] \in DOMAIN d

\* No two admins have the same e-mail address.
OneEmail(d) ==
    \A i, j \in DOMAIN d :
        i[1] = "admin_users" /\ j[1] = "admin_users" /\ d[i].email = d[j].email => i = j

Uses(d, p) == {t \in DOMAIN d : t[1] = "transactions" /\ d[t].promo_code_id = p}

Covered(d) ==
    \A p \in DOMAIN d : p[1] = "promo_codes" => d[p].usage_count >= Cardinality(Uses(d, p))

Sound(d) == IsFiniteSet(DOMAIN d) /\ Came(d) /\ Referential(d) /\ OneEmail(d) /\ Covered(d)

\* The columns of a row that is there.
LEMMA RowThere ==
    ASSUME NEW d, Came(d), NEW i \in DOMAIN d
    PROVE  /\ i # Null /\ i[1] \in DOMAIN TableOf
           /\ DOMAIN Refs(i) \subseteq DOMAIN d[i] /\ UNION Keys(i) \subseteq DOMAIN d[i]
           /\ \A c \in DOMAIN Refs(i) : d[i][c] # Null => d[i][c][1] = Refs(i)[c].to
           /\ i[1] = "promo_codes" => "usage_count" \in DOMAIN d[i] /\ d[i].usage_count \in Nat
           /\ i[1] = "admin_users" => {"role", "email"} \subseteq DOMAIN d[i]
           /\ i[1] = "transactions" => "promo_code_id" \in DOMAIN d[i]
<1>1. PICK r \in Sources : r.id = i /\ Kept(r, d[i]) BY DEF Came
<1>2. WellFormed(r) BY SourcesWellFormed
<1>3. i # Null /\ i[1] \in DOMAIN TableOf BY <1>1, <1>2 DEF WellFormed
<1>4. DOMAIN d[i] = DOMAIN r.cols BY <1>1 DEF Kept
<1>5. DOMAIN Refs(i) \subseteq DOMAIN d[i] /\ UNION Keys(i) \subseteq DOMAIN d[i]
    BY <1>1, <1>2, <1>4 DEF WellFormed
<1>6. i[1] = "promo_codes" => "usage_count" \notin DOMAIN Refs(i)
    <2>1. i[1] = "promo_codes" => DOMAIN Refs(i) = {"created_by_id"} BY Columns, Zenon
    <2>2. "usage_count" \notin {"created_by_id"} OBVIOUS
    <2> QED BY <2>1, <2>2, Zenon
<1>7. \A c \in DOMAIN Refs(i) : d[i][c] # Null => d[i][c] = r.cols[c]
    BY <1>1, <1>4, <1>5, <1>6 DEF Kept
<1>8. \A c \in DOMAIN Refs(i) : d[i][c] # Null => d[i][c][1] = Refs(i)[c].to
    BY <1>1, <1>2, <1>7 DEF WellFormed
<1>9. i[1] = "promo_codes" => "usage_count" \in DOMAIN d[i] /\ d[i].usage_count \in Nat
    <2> SUFFICES ASSUME i[1] = "promo_codes"
                 PROVE "usage_count" \in DOMAIN d[i] /\ d[i].usage_count \in Nat
        OBVIOUS
    <2>1. "usage_count" \in DOMAIN r.cols /\ r.cols["usage_count"] \in Nat
        BY <1>1, <1>2 DEF WellFormed
    <2>2. d[i]["usage_count"] \in Nat BY <1>1, <1>6, <2>1 DEF Kept
    <2> QED BY <2>1, <2>2, <1>4
<1>10. i[1] = "admin_users" => {"role", "email"} \subseteq DOMAIN d[i]
    BY <1>1, <1>2, <1>4, <1>5, Columns DEF WellFormed
<1>11. i[1] = "transactions" => "promo_code_id" \in DOMAIN d[i] BY <1>5, Columns
<1> QED BY <1>3, <1>5, <1>8, <1>9, <1>10, <1>11

\* Its keys are those it was written with, and of an admin all but the creator.
LEMMA KeysStay ==
    ASSUME NEW d, Came(d), NEW i \in DOMAIN d
    PROVE  \E r \in Sources :
               /\ r.id = i /\ Kept(r, d[i])
               /\ \A key \in Keys(i) : \A c \in key : d[i][c] = r.cols[c]
               /\ i[1] = "admin_users" => d[i].role = r.cols.role /\ d[i].email = r.cols.email
<1>1. PICK r \in Sources : r.id = i /\ Kept(r, d[i]) BY DEF Came
<1>2. WellFormed(r) BY SourcesWellFormed
<1>3. Steady(TableOf[i[1]]) BY TablesSteady, RowThere
<1>4. \A key \in Keys(i) : \A c \in key :
          c \in DOMAIN r.cols /\ c # "usage_count"
          /\ ~(c \in DOMAIN Refs(i) /\ Refs(i)[c].rule = "SET NULL")
    BY <1>1, <1>2, <1>3 DEF WellFormed, Steady, Keys, Refs
<1>5. \A key \in Keys(i) : \A c \in key : d[i][c] = r.cols[c]
    BY <1>1, <1>4 DEF Kept
<1>6. i[1] = "admin_users" =>
          {"role", "email"} \subseteq DOMAIN r.cols /\ {"role", "email"} \cap DOMAIN Refs(i) = {}
    <2>1. i[1] = "admin_users" => DOMAIN Refs(i) = {"created_by_id"} BY Columns, Zenon
    <2>2. i[1] = "admin_users" => {"role", "email"} \subseteq DOMAIN r.cols
        <3>1. DOMAIN d[i] = DOMAIN r.cols BY <1>1 DEF Kept
        <3>2. i[1] = "admin_users" => {"role", "email"} \subseteq DOMAIN d[i]
            BY RowThere, Zenon
        <3> QED BY <3>1, <3>2, Zenon
    <2>3. {"role", "email"} \cap {"created_by_id"} = {} OBVIOUS
    <2> QED BY <2>1, <2>2, <2>3
<1>7. i[1] = "admin_users" => d[i].role = r.cols.role /\ d[i].email = r.cols.email
    BY <1>1, <1>6 DEF Kept
<1> QED BY <1>1, <1>5, <1>7

-----------------------------------------------------------------------------
(* INSERT.                                                                 *)

\* Row r is a transaction that uses promo code i.
Counts(r, i) == r.id[1] = "transactions" /\ r.cols.promo_code_id = i

\* d with row r: of the other rows only the promo code it uses changes.
Grown(d, r, e) ==
    /\ DOMAIN e = DOMAIN d \cup {r.id} /\ r.id \notin DOMAIN d
    /\ e[r.id] = r.cols
    /\ \A i \in DOMAIN d : ~Counts(r, i) => e[i] = d[i]
    /\ \A i \in DOMAIN d : Counts(r, i) =>
           /\ i[1] = "promo_codes"
           /\ DOMAIN e[i] = DOMAIN d[i]
           /\ e[i].usage_count = d[i].usage_count + 1
           /\ \A c \in DOMAIN d[i] : c # "usage_count" => e[i][c] = d[i][c]

LEMMA InsertGrows ==
    ASSUME NEW d, Came(d), NEW r \in Sources, CanInsert(d, r.id, r.cols)
    PROVE  Grown(d, r, InsertRow(d, r.id, r.cols))
<1> DEFINE w == With(d, r.id, r.cols)
           e == InsertRow(d, r.id, r.cols)
           p == r.cols.promo_code_id
<1>1. r.id \notin DOMAIN d BY DEF CanInsert
<1>2. /\ DOMAIN w = DOMAIN d \cup {r.id} /\ w[r.id] = r.cols
      /\ \A i \in DOMAIN d : w[i] = d[i]
    BY <1>1 DEF With
<1>3. CASE r.id[1] = "transactions" /\ p # Null
    <2>1. /\ "promo_code_id" \in DOMAIN Refs(r.id)
          /\ Refs(r.id)["promo_code_id"].to = "promo_codes"
        BY <1>3, Columns, Zenon
    <2>2. p \in DOMAIN d BY <1>3, <2>1 DEF CanInsert
    <2>3. p[1] = "promo_codes" BY <1>3, <2>1, SourcesWellFormed DEF WellFormed
    <2>4. "usage_count" \in DOMAIN d[p] BY <2>2, <2>3, RowThere
    <2>5. p # r.id BY <1>1, <2>2
    <2>6. e = [w EXCEPT ![p].usage_count = @ + 1] BY <1>3 DEF InsertRow, CountUse
    <2> HIDE DEF w, p, e
    <2>7. /\ DOMAIN e = DOMAIN w
          /\ \A i \in DOMAIN w : i # p => e[i] = w[i]
          /\ e[p] = [w[p] EXCEPT !.usage_count = @ + 1]
        BY <1>2, <2>2, <2>6
    <2>8. /\ DOMAIN e[p] = DOMAIN d[p]
          /\ e[p].usage_count = d[p].usage_count + 1
          /\ \A c \in DOMAIN d[p] : c # "usage_count" => e[p][c] = d[p][c]
        BY <1>2, <2>2, <2>4, <2>7
    <2>9. \A i : Counts(r, i) <=> i = p BY <1>3 DEF Counts, p
    <2> QED BY <1>1, <1>2, <2>3, <2>5, <2>7, <2>8, <2>9 DEF Grown, e
<1>4. CASE ~(r.id[1] = "transactions" /\ p # Null)
    <2>1. e = w BY <1>4 DEF InsertRow, CountUse
    <2>2. \A i \in DOMAIN d : ~Counts(r, i)
        BY <1>4, RowThere DEF Counts
    <2> HIDE DEF w
    <2> QED BY <1>1, <1>2, <2>1, <2>2 DEF Grown
<1> QED BY <1>3, <1>4

LEMMA InsertSound ==
    ASSUME NEW d, Sound(d), NEW r \in Sources, CanInsert(d, r.id, r.cols)
    PROVE  Sound(InsertRow(d, r.id, r.cols))
<1> DEFINE e == InsertRow(d, r.id, r.cols)
<1>1. Grown(d, r, e) BY InsertGrows DEF Sound
<1>2. WellFormed(r) BY SourcesWellFormed
<1>w. \A c \in DOMAIN Refs(r.id) : r.cols[c] = Null \/ r.cols[c] \in DOMAIN d
    BY DEF CanInsert
<1>k. \A key \in Keys(r.id), o \in DOMAIN d :
           o[1] = r.id[1] => \E c \in key : d[o][c] # r.cols[c]
    BY Zenon DEF CanInsert
<1> HIDE DEF e
<1>3. IsFiniteSet(DOMAIN e) BY <1>1, FS_AddElement DEF Grown, Sound
<1>4. Came(e)
    <2> SUFFICES ASSUME NEW i \in DOMAIN e PROVE \E q \in Sources : q.id = i /\ Kept(q, e[i])
        BY DEF Came
    <2>1. CASE i = r.id
        <3>1. Kept(r, e[i]) BY <1>1, <2>1 DEF Grown, Kept
        <3> QED BY <2>1, <3>1
    <2>2. CASE i # r.id
        <3>1. i \in DOMAIN d BY <1>1, <2>2 DEF Grown
        <3>2. PICK q \in Sources : q.id = i /\ Kept(q, d[i]) BY <3>1 DEF Sound, Came
        <3>3. CASE ~Counts(r, i)
            <4>1. e[i] = d[i] BY <1>1, <3>1, <3>3 DEF Grown
            <4> QED BY <3>2, <4>1
        <3>4. CASE Counts(r, i)
            <4>1. /\ i[1] = "promo_codes" /\ DOMAIN e[i] = DOMAIN d[i]
                  /\ e[i]["usage_count"] = d[i]["usage_count"] + 1
                  /\ \A c \in DOMAIN d[i] : c # "usage_count" => e[i][c] = d[i][c]
                BY <1>1, <3>1, <3>4 DEF Grown
            <4>2. d[i]["usage_count"] \in Nat BY <4>1, <3>1, RowThere DEF Sound
            <4>3. e[i]["usage_count"] \in Nat BY <4>1, <4>2
            <4>4. Kept(q, e[i]) BY <3>2, <4>1, <4>3 DEF Kept
            <4> QED BY <3>2, <4>4
        <3> QED BY <3>3, <3>4
    <2> QED BY <2>1, <2>2
<1>5. \A i \in DOMAIN d : \A c \in DOMAIN d[i] : c = "usage_count" \/ e[i][c] = d[i][c]
    BY <1>1 DEF Grown
<1>6. Referential(e)
    <2> SUFFICES ASSUME NEW i \in DOMAIN e, NEW c \in DOMAIN Refs(i)
                 PROVE e[i][c] = Null \/ e[i][c] \in DOMAIN e
        BY DEF Referential
    <2>1. CASE i = r.id BY <1>1, <1>w, <2>1 DEF Grown
    <2>2. CASE i # r.id
        <3>1. i \in DOMAIN d BY <1>1, <2>2 DEF Grown
        <3>2. d[i][c] = Null \/ d[i][c] \in DOMAIN d BY <3>1 DEF Sound, Referential
        <3>3. c \in DOMAIN d[i] BY <3>1, RowThere DEF Sound
        <3>4. Counts(r, i) => c # "usage_count"
            <4>1. Counts(r, i) => i[1] = "promo_codes" BY <1>1, <3>1 DEF Grown
            <4>2. i[1] = "promo_codes" => DOMAIN Refs(i) = {"created_by_id"} BY Columns, Zenon
            <4>3. "usage_count" \notin {"created_by_id"} OBVIOUS
            <4> QED BY <4>1, <4>2, <4>3, Zenon
        <3>5. e[i][c] = d[i][c] BY <1>1, <3>1, <3>3, <3>4 DEF Grown
        <3> QED BY <1>1, <3>2, <3>5 DEF Grown
    <2> QED BY <2>1, <2>2
<1>7. OneEmail(e)
    <2>1. \A i \in DOMAIN d : i[1] = "admin_users" => e[i].email = d[i].email
        BY <1>5, RowThere DEF Sound
    <2>2. r.id[1] = "admin_users" =>
              \A o \in DOMAIN d : o[1] = "admin_users" => d[o].email # e[r.id].email
        <3> SUFFICES ASSUME r.id[1] = "admin_users", NEW o \in DOMAIN d, o[1] = "admin_users"
                     PROVE d[o].email # e[r.id].email
            OBVIOUS
        <3>1. {"email"} \in Keys(r.id) BY Columns
        <3>2. \E c \in {"email"} : d[o][c] # r.cols[c] BY <1>k, <3>1
        <3> QED BY <3>2, <1>1 DEF Grown
    <2> QED BY <1>1, <2>1, <2>2 DEF Sound, OneEmail, Grown
<1>8. Covered(e)
    <2> SUFFICES ASSUME NEW p \in DOMAIN e, p[1] = "promo_codes"
                 PROVE e[p].usage_count >= Cardinality(Uses(e, p))
        BY DEF Covered
    <2>1. \A t \in DOMAIN d : t[1] = "transactions" => e[t].promo_code_id = d[t].promo_code_id
        BY <1>5, RowThere DEF Sound
    <2>2. CASE p = r.id
        <3>1. \A t \in DOMAIN d : t[1] = "transactions" => d[t].promo_code_id # p
            <4> SUFFICES ASSUME NEW t \in DOMAIN d, t[1] = "transactions"
                         PROVE d[t].promo_code_id # p
                OBVIOUS
            <4>1. "promo_code_id" \in DOMAIN Refs(t) BY Columns, Zenon
            <4>2. d[t]["promo_code_id"] = Null \/ d[t]["promo_code_id"] \in DOMAIN d
                BY <4>1 DEF Sound, Referential
            <4>3. p # Null /\ p \notin DOMAIN d BY <1>1, <1>2, <2>2 DEF Grown, WellFormed
            <4> QED BY <4>2, <4>3
        <3>2. Uses(e, p) = {} BY <1>1, <2>1, <2>2, <3>1 DEF Uses, Grown
        <3>3. e[p].usage_count = 0 BY <1>1, <1>2, <2>2 DEF Grown, WellFormed
        <3> QED BY <3>2, <3>3, FS_EmptySet
    <2>3. CASE p # r.id
        <3>1. p \in DOMAIN d BY <1>1, <2>3 DEF Grown
        <3>2. d[p].usage_count >= Cardinality(Uses(d, p)) /\ d[p].usage_count \in Nat
            BY <3>1, RowThere DEF Sound, Covered
        <3>3. IsFiniteSet(Uses(d, p)) BY FS_Subset DEF Uses, Sound
        <3>4. Cardinality(Uses(d, p)) \in Nat BY <3>3, FS_CardinalityType
        <3>5. CASE Counts(r, p)
            <4>1. e[p].usage_count = d[p].usage_count + 1 BY <1>1, <3>1, <3>5 DEF Grown
            <4>2. Uses(e, p) = Uses(d, p) \cup {r.id}
                BY <1>1, <2>1, <3>5 DEF Uses, Grown, Counts
            <4>3. r.id \notin Uses(d, p) BY <1>1 DEF Uses, Grown
            <4>4. Cardinality(Uses(e, p)) = Cardinality(Uses(d, p)) + 1
                BY <3>3, <4>2, <4>3, FS_AddElement
            <4> QED BY <3>2, <3>4, <4>1, <4>4
        <3>6. CASE ~Counts(r, p)
            <4>1. e[p] = d[p] BY <1>1, <3>1, <3>6 DEF Grown
            <4>2. Uses(e, p) = Uses(d, p)
                BY <1>1, <2>1, <3>6 DEF Uses, Grown, Counts
            <4> QED BY <3>2, <4>1, <4>2
        <3> QED BY <3>5, <3>6
    <2> QED BY <2>2, <2>3
<1> QED BY <1>3, <1>4, <1>6, <1>7, <1>8 DEF Sound, e

-----------------------------------------------------------------------------
(* DELETE.                                                                 *)

\* d without the rows of gone: the others lose a reference at most.
Shrunk(d, doomed, gone, e) ==
    /\ Takes(d, doomed, gone)
    /\ DOMAIN e = DOMAIN d \ gone
    /\ \A i \in DOMAIN e : DOMAIN e[i] = DOMAIN d[i]
    /\ \A i \in DOMAIN e : \A c \in DOMAIN d[i] :
           e[i][c] = IF Loses(d, gone, i, c) THEN Null ELSE d[i][c]

LEMMA DeleteShrinks ==
    ASSUME NEW d, Sound(d), NEW ids
    PROVE  Shrunk(d, ids \cap DOMAIN d, Cascade(d, ids \cap DOMAIN d), DeleteRows(d, ids))
<1> DEFINE doomed == ids \cap DOMAIN d
           gone == Cascade(d, doomed)
           e == DeleteRows(d, ids)
<1>1. Takes(d, doomed, gone) BY CascadeTakes DEF Sound
<1>2. e = [i \in DOMAIN d \ gone |->
               IF i \in Nulled(d, gone)
               THEN [c \in DOMAIN d[i] |-> IF Loses(d, gone, i, c) THEN Null ELSE d[i][c]]
               ELSE d[i]]
    BY DEF DeleteRows
<1>3. \A i \in DOMAIN d \ gone : i \notin Nulled(d, gone) =>
          \A c \in DOMAIN d[i] : ~Loses(d, gone, i, c)
    BY DEF Nulled, Loses
<1> HIDE DEF e, gone, doomed
<1>4. DOMAIN e = DOMAIN d \ gone BY <1>2
<1>5. ASSUME NEW i \in DOMAIN e
      PROVE  /\ DOMAIN e[i] = DOMAIN d[i]
             /\ \A c \in DOMAIN d[i] : e[i][c] = IF Loses(d, gone, i, c) THEN Null ELSE d[i][c]
    <2>1. CASE i \in Nulled(d, gone)
        <3>1. e[i] = [c \in DOMAIN d[i] |-> IF Loses(d, gone, i, c) THEN Null ELSE d[i][c]]
            BY <1>2, <1>4, <2>1
        <3> QED BY <3>1
    <2>2. CASE i \notin Nulled(d, gone)
        <3>1. e[i] = d[i] BY <1>2, <1>4, <2>2
        <3> QED BY <3>1, <1>3, <1>4, <2>2
    <2> QED BY <2>1, <2>2
<1>6. Shrunk(d, doomed, gone, e) BY <1>1, <1>4, <1>5 DEF Shrunk
<1> QED BY <1>6 DEF e, gone, doomed

LEMMA DeleteSound ==
    ASSUME NEW d, Sound(d), NEW doomed, NEW gone, NEW e, Shrunk(d, doomed, gone, e)
    PROVE  Sound(e)
<1>1. DOMAIN e \subseteq DOMAIN d BY DEF Shrunk
<1>2. IsFiniteSet(DOMAIN e) BY <1>1, FS_Subset DEF Sound
<1>3. \A i \in DOMAIN e : \A c \in DOMAIN d[i] :
          \/ e[i][c] = d[i][c]
          \/ c \in DOMAIN Refs(i) /\ Refs(i)[c].rule = "SET NULL" /\ e[i][c] = Null
    BY DEF Shrunk, Loses
<1>4. Came(e)
    <2> SUFFICES ASSUME NEW i \in DOMAIN e PROVE \E q \in Sources : q.id = i /\ Kept(q, e[i])
        BY DEF Came
    <2>1. PICK q \in Sources : q.id = i /\ Kept(q, d[i]) BY <1>1 DEF Sound, Came
    <2>2. DOMAIN e[i] = DOMAIN d[i] BY DEF Shrunk
    <2>3. Kept(q, e[i]) BY <1>3, <2>1, <2>2 DEF Kept
    <2> QED BY <2>1, <2>3
<1>5. Referential(e)
    <2> SUFFICES ASSUME NEW i \in DOMAIN e, NEW c \in DOMAIN Refs(i)
                 PROVE e[i][c] = Null \/ e[i][c] \in DOMAIN e
        BY DEF Referential
    <2>1. i \in DOMAIN d /\ i \notin gone /\ c \in DOMAIN d[i]
        BY <1>1, RowThere DEF Sound, Shrunk
    <2>2. d[i][c] = Null \/ d[i][c] \in DOMAIN d BY <2>1 DEF Sound, Referential
    <2>3. Refs(i)[c].rule \in {"CASCADE", "SET NULL"}
        BY <2>1, RowThere, TablesSteady DEF Sound, Steady, Refs
    <2>4. Refs(i)[c].rule = "CASCADE" => d[i][c] \notin gone
        BY <2>1 DEF Shrunk, Takes, Closed, CascadesFrom
    <2>5. e[i][c] = IF Loses(d, gone, i, c) THEN Null ELSE d[i][c] BY <2>1 DEF Shrunk
    <2>6. Loses(d, gone, i, c) <=> Refs(i)[c].rule = "SET NULL" /\ d[i][c] \in gone
        BY DEF Loses
    <2> QED BY <2>2, <2>3, <2>4, <2>5, <2>6 DEF Shrunk
<1>6. \A i \in DOMAIN e : i[1] = "admin_users" => e[i].email = d[i].email
    <2> SUFFICES ASSUME NEW i \in DOMAIN e, i[1] = "admin_users" PROVE e[i].email = d[i].email
        OBVIOUS
    <2>1. "email" \in DOMAIN d[i] BY <1>1, RowThere DEF Sound
    <2>2. DOMAIN Refs(i) = {"created_by_id"} BY Columns, Zenon
    <2>3. "email" \notin {"created_by_id"} OBVIOUS
    <2>4. "email" \notin DOMAIN Refs(i) BY <2>2, <2>3, Zenon
    <2> QED BY <1>3, <2>1, <2>4
<1>7. OneEmail(e) BY <1>1, <1>6 DEF OneEmail, Sound
<1>8. Covered(e)
    <2> SUFFICES ASSUME NEW p \in DOMAIN e, p[1] = "promo_codes"
                 PROVE e[p].usage_count >= Cardinality(Uses(e, p))
        BY DEF Covered
    <2>1. p # Null /\ "usage_count" \in DOMAIN d[p] BY <1>1, RowThere DEF Sound
    <2>2. Uses(e, p) \subseteq Uses(d, p)
        <3> SUFFICES ASSUME NEW t \in Uses(e, p) PROVE t \in Uses(d, p) OBVIOUS
        <3>1. t \in DOMAIN e /\ t[1] = "transactions" /\ e[t].promo_code_id = p BY DEF Uses
        <3>2. "promo_code_id" \in DOMAIN d[t] BY <1>1, <3>1, RowThere DEF Sound
        <3>3. d[t].promo_code_id = p BY <1>3, <2>1, <3>1, <3>2
        <3> QED BY <1>1, <3>1, <3>3 DEF Uses
    <2>3. IsFiniteSet(Uses(d, p)) BY FS_Subset DEF Uses, Sound
    <2>4. Cardinality(Uses(e, p)) <= Cardinality(Uses(d, p)) BY <2>2, <2>3, FS_Subset
    <2>5. Cardinality(Uses(e, p)) \in Nat /\ Cardinality(Uses(d, p)) \in Nat
        BY <2>2, <2>3, FS_Subset, FS_CardinalityType
    <2>6. e[p].usage_count = d[p].usage_count
        <3>1. DOMAIN Refs(p) = {"created_by_id"} BY Columns, Zenon
        <3>2. "usage_count" \notin {"created_by_id"} OBVIOUS
        <3>3. "usage_count" \notin DOMAIN Refs(p) BY <3>1, <3>2, Zenon
        <3> QED BY <1>3, <2>1, <3>3
    <2>7. d[p].usage_count >= Cardinality(Uses(d, p)) /\ d[p].usage_count \in Nat
        BY <1>1, RowThere DEF Sound, Covered
    <2> QED BY <2>4, <2>5, <2>6, <2>7
<1> QED BY <1>2, <1>4, <1>5, <1>7, <1>8 DEF Sound

-----------------------------------------------------------------------------
(* The rows of one transaction.                                            *)

\* The equation that InsertAll's function after satisfies, up to m rows.
AfterEq(d, rows, m, f) ==
    f = [n \in 0 .. m |->
            IF n = 0 THEN [db |-> d, ok |-> TRUE] ELSE Inserted(f[n - 1], rows[n])]

LEMMA AfterExists ==
    ASSUME NEW d, NEW rows, NEW m \in Nat
    PROVE  \E f : AfterEq(d, rows, m, f)
<1> DEFINE Bad == {k \in Nat : ~\E f : AfterEq(d, rows, k, f)}
<1>1. Bad = {}
    <2> SUFFICES ASSUME Bad # {} PROVE FALSE OBVIOUS
    <2>1. PICK k \in Bad : \A l \in Bad : k <= l BY LeastOf
    <2>2. CASE k = 0
        <3> DEFINE f == [n \in 0 .. k |-> [db |-> d, ok |-> TRUE]]
        <3>1. AfterEq(d, rows, k, f) BY <2>2 DEF AfterEq
        <3> HIDE DEF f
        <3> QED BY <3>1
    <2>3. CASE k # 0
        <3>1. k - 1 \in Nat /\ k - 1 \notin Bad BY <2>1, <2>3
        <3>2. PICK g : AfterEq(d, rows, k - 1, g) BY <3>1
        <3> DEFINE f == [n \in 0 .. k |-> IF n < k THEN g[n] ELSE Inserted(g[k - 1], rows[k])]
        <3>3. \A n \in 0 .. k - 1 :
                  g[n] = IF n = 0 THEN [db |-> d, ok |-> TRUE] ELSE Inserted(g[n - 1], rows[n])
            BY <3>2 DEF AfterEq
        <3>4. \A n \in 0 .. k :
                  f[n] = IF n = 0 THEN [db |-> d, ok |-> TRUE] ELSE Inserted(f[n - 1], rows[n])
            <4> SUFFICES ASSUME NEW n \in 0 .. k
                         PROVE f[n] = IF n = 0 THEN [db |-> d, ok |-> TRUE]
                                      ELSE Inserted(f[n - 1], rows[n])
                OBVIOUS
            <4>1. CASE n < k
                <5>1. f[n] = g[n] BY <4>1
                <5>2. n # 0 => f[n - 1] = g[n - 1] BY <4>1
                <5>3. n \in 0 .. k - 1 BY <4>1
                <5> HIDE DEF f
                <5> QED BY <3>3, <5>1, <5>2, <5>3
            <4>2. CASE n = k
                <5>1. f[n] = Inserted(g[k - 1], rows[k]) BY <4>2
                <5>2. f[n - 1] = g[k - 1] BY <4>2, <3>1
                <5> HIDE DEF f
                <5> QED BY <2>3, <4>2, <5>1, <5>2
            <4> QED BY <4>1, <4>2
        <3>5. AfterEq(d, rows, k, f) BY <3>4 DEF AfterEq
        <3> HIDE DEF f
        <3> QED BY <3>5
    <2> QED BY <2>2, <2>3
<1> QED BY <1>1

LEMMA InsertAllIs ==
    ASSUME NEW rows, Len(rows) \in Nat
    PROVE  \E f : AfterEq(db, rows, Len(rows), f) /\ InsertAll(rows) = f[Len(rows)]
<1> DEFINE f == CHOOSE g : AfterEq(db, rows, Len(rows), g)
<1>1. AfterEq(db, rows, Len(rows), f) BY AfterExists
<1>2. InsertAll(rows) = f[Len(rows)] BY DEF InsertAll, AfterEq
<1> QED BY <1>1, <1>2

LEMMA AfterSteps ==
    ASSUME NEW d, NEW rows, NEW m \in Nat, NEW f, AfterEq(d, rows, m, f)
    PROVE  /\ f[0] = [db |-> d, ok |-> TRUE]
           /\ \A n \in 1 .. m : f[n] = Inserted(f[n - 1], rows[n])
<1>1. \A n \in 0 .. m :
          f[n] = IF n = 0 THEN [db |-> d, ok |-> TRUE] ELSE Inserted(f[n - 1], rows[n])
    BY DEF AfterEq
<1>2. 0 \in 0 .. m /\ \A n \in 1 .. m : n \in 0 .. m /\ n # 0 OBVIOUS
<1>3. f[0] = [db |-> d, ok |-> TRUE] BY <1>1, <1>2
<1>4. \A n \in 1 .. m : f[n] = Inserted(f[n - 1], rows[n]) BY <1>1, <1>2
<1> QED BY <1>3, <1>4

Fits(acc, r) == acc.ok /\ CanInsert(acc.db, r.id, r.cols)

LEMMA InsertedIs ==
    ASSUME NEW acc, NEW r
    PROVE  /\ Fits(acc, r) => /\ Inserted(acc, r).db = InsertRow(acc.db, r.id, r.cols)
                              /\ Inserted(acc, r).ok = TRUE
           /\ ~Fits(acc, r) => /\ Inserted(acc, r).db = acc.db
                               /\ Inserted(acc, r).ok = FALSE
BY DEF Inserted, Fits

\* Induction up to m, where S are the numbers for which it holds.
LEMMA Climbs ==
    ASSUME NEW m \in Nat, NEW S, 0 \in S, \A n \in 1 .. m : n - 1 \in S => n \in S
    PROVE  m \in S
<1> SUFFICES ASSUME m \notin S PROVE FALSE OBVIOUS
<1> DEFINE Bad == (0 .. m) \ S
<1>1. Bad \in SUBSET Nat /\ Bad # {} OBVIOUS
<1>2. PICK n \in Bad : \A k \in Bad : n <= k BY <1>1, LeastOf
<1>3. n \in 1 .. m /\ n - 1 \in 0 .. m /\ n - 1 \notin Bad BY <1>2
<1> QED BY <1>3

\* No row goes, and none changes but the use count of a promo code, upwards.
Keeps(d, e) ==
    /\ DOMAIN d \subseteq DOMAIN e
    /\ \A i \in DOMAIN d : DOMAIN e[i] = DOMAIN d[i] /\ (i[1] # "promo_codes" => e[i] = d[i])
    /\ \A i \in DOMAIN d : \A c \in DOMAIN d[i] :
           e[i][c] = d[i][c] \/ (i[1] = "promo_codes" /\ c = "usage_count" /\ e[i][c] >= d[i][c])

LEMMA GrownKeeps ==
    ASSUME NEW d, Came(d), NEW r, NEW e, Grown(d, r, e)
    PROVE  Keeps(d, e)
<1>1. \A i \in DOMAIN d : DOMAIN e[i] = DOMAIN d[i] /\ (i[1] # "promo_codes" => e[i] = d[i])
    BY DEF Grown
<1>2. ASSUME NEW i \in DOMAIN d, NEW c \in DOMAIN d[i]
      PROVE  \/ e[i][c] = d[i][c]
             \/ i[1] = "promo_codes" /\ c = "usage_count" /\ e[i][c] >= d[i][c]
    <2>1. CASE ~Counts(r, i) BY <2>1 DEF Grown
    <2>2. CASE Counts(r, i)
        <3>1. /\ i[1] = "promo_codes" /\ e[i]["usage_count"] = d[i]["usage_count"] + 1
              /\ c # "usage_count" => e[i][c] = d[i][c]
            BY <2>2 DEF Grown
        <3>2. d[i]["usage_count"] \in Nat BY <3>1, RowThere
        <3>3. e[i]["usage_count"] >= d[i]["usage_count"] BY <3>1, <3>2
        <3> QED BY <3>1, <3>3
    <2> QED BY <2>1, <2>2
<1>3. DOMAIN d \subseteq DOMAIN e BY DEF Grown
<1> QED BY <1>1, <1>2, <1>3 DEF Keeps

LEMMA SameKeeps ==
    ASSUME NEW d
    PROVE  Keeps(d, d)
BY DEF Keeps

LEMMA KeepsOn ==
    ASSUME NEW d, NEW e, NEW f, Came(d), Came(e), Came(f), Keeps(d, e), Keeps(e, f)
    PROVE  Keeps(d, f)
<1>1. ASSUME NEW i \in DOMAIN d, NEW c \in DOMAIN d[i]
      PROVE  \/ f[i][c] = d[i][c]
             \/ i[1] = "promo_codes" /\ c = "usage_count" /\ f[i][c] >= d[i][c]
    <2>1. CASE i[1] # "promo_codes"
        <3>1. i \in DOMAIN e /\ e[i] = d[i] BY <2>1 DEF Keeps
        <3>2. f[i] = e[i] BY <2>1, <3>1 DEF Keeps
        <3> QED BY <3>1, <3>2
    <2>2. CASE i[1] = "promo_codes"
        <3>1. i \in DOMAIN e /\ i \in DOMAIN f BY DEF Keeps
        <3>2. c \in DOMAIN e[i] BY DEF Keeps
        <3>3. /\ d[i]["usage_count"] \in Nat /\ e[i]["usage_count"] \in Nat
              /\ f[i]["usage_count"] \in Nat
            BY <2>2, <3>1, RowThere
        <3>4. e[i][c] = d[i][c] \/ (c = "usage_count" /\ e[i][c] >= d[i][c]) BY DEF Keeps
        <3>5. f[i][c] = e[i][c] \/ (c = "usage_count" /\ f[i][c] >= e[i][c])
            BY <3>1, <3>2 DEF Keeps
        <3>6. CASE c = "usage_count" BY <2>2, <3>3, <3>4, <3>5, <3>6
        <3>7. CASE c # "usage_count" BY <3>4, <3>5, <3>7
        <3> QED BY <3>6, <3>7
    <2> QED BY <2>1, <2>2
<1>2. DOMAIN d \subseteq DOMAIN f BY DEF Keeps
<1>3. ASSUME NEW i \in DOMAIN d
      PROVE  DOMAIN f[i] = DOMAIN d[i] /\ (i[1] # "promo_codes" => f[i] = d[i])
    <2>1. i \in DOMAIN e BY DEF Keeps
    <2>2. DOMAIN e[i] = DOMAIN d[i] /\ (i[1] # "promo_codes" => e[i] = d[i]) BY DEF Keeps
    <2>3. DOMAIN f[i] = DOMAIN e[i] /\ (i[1] # "promo_codes" => f[i] = e[i])
        BY <2>1 DEF Keeps
    <2> QED BY <2>2, <2>3
<1> QED BY <1>1, <1>2, <1>3 DEF Keeps

\* Whether or not all rows fit, what is there afterwards is sound.
LEMMA InsertAllSound ==
    ASSUME Sound(db), NEW rows \in Seq(PlannedRows)
    PROVE  /\ Sound(InsertAll(rows).db) /\ Keeps(db, InsertAll(rows).db)
           /\ DOMAIN InsertAll(rows).db \subseteq DOMAIN db \cup PlannedIds
<1> DEFINE N == Len(rows)
<1>1. N \in Nat OBVIOUS
<1>2. PICK f : AfterEq(db, rows, N, f) /\ InsertAll(rows) = f[N] BY <1>1, InsertAllIs
<1>r. \A n \in 1 .. N : rows[n] \in PlannedRows OBVIOUS
<1> HIDE DEF N
<1> DEFINE Good(n) == /\ Sound(f[n].db) /\ Keeps(db, f[n].db)
                      /\ DOMAIN f[n].db \subseteq DOMAIN db \cup PlannedIds
           S == {n \in 0 .. N : Good(n)}
<1>3. f[0] = [db |-> db, ok |-> TRUE] /\ \A n \in 1 .. N : f[n] = Inserted(f[n - 1], rows[n])
    BY <1>1, <1>2, AfterSteps
<1>4. Good(0)
    <2>1. f[0].db = db BY <1>3
    <2> QED BY <2>1, SameKeeps
<1>5. ASSUME NEW n \in 1 .. N, Good(n - 1) PROVE Good(n)
    <2> DEFINE d == f[n - 1].db
               r == rows[n]
    <2>1. r \in PlannedRows /\ r \in Sources BY <1>r DEF Sources, DemoRows
    <2>2. r.id \in PlannedIds BY <2>1 DEF PlannedIds
    <2>3. Sound(d) /\ Keeps(db, d) /\ DOMAIN d \subseteq DOMAIN db \cup PlannedIds BY <1>5
    <2>4. f[n] = Inserted(f[n - 1], r) BY <1>3
    <2>5. CASE Fits(f[n - 1], r)
        <3>0. Inserted(f[n - 1], r).db = InsertRow(f[n - 1].db, r.id, r.cols)
            BY <2>5, InsertedIs, Zenon
        <3>1. f[n].db = InsertRow(d, r.id, r.cols) BY <2>4, <3>0, Zenon
        <3>2. CanInsert(d, r.id, r.cols) BY <2>5 DEF Fits
        <3> HIDE DEF d, r
        <3>3. Sound(f[n].db) BY <2>1, <2>3, <3>1, <3>2, InsertSound
        <3>4. Grown(d, r, f[n].db) BY <2>1, <2>3, <3>1, <3>2, InsertGrows DEF Sound
        <3>5. Keeps(d, f[n].db) BY <2>3, <3>4, GrownKeeps DEF Sound
        <3>7. Keeps(db, f[n].db) BY <2>3, <3>3, <3>5, KeepsOn DEF Sound
        <3>6. DOMAIN f[n].db \subseteq DOMAIN db \cup PlannedIds
            BY <2>3, <2>2, <3>4 DEF Grown
        <3> QED BY <3>3, <3>6, <3>7
    <2>6. CASE ~Fits(f[n - 1], r)
        <3>1. f[n].db = d BY <2>4, <2>6, InsertedIs
        <3> QED BY <2>3, <3>1
    <2> QED BY <2>5, <2>6
<1> HIDE DEF Good
<1>6. 0 \in S /\ \A n \in 1 .. N : n - 1 \in S => n \in S
    BY <1>1, <1>4, <1>5
<1>7. N \in S BY <1>1, <1>6, Climbs
<1> QED BY <1>2, <1>7 DEF Good

-----------------------------------------------------------------------------
(* The seed's plan.                                                        *)

\* The rows the seed has written when it comes to the j-th of transaction n.
Before(n, j) == RowsOf(n - 1) \cup {Plan[n][i] : i \in 1 .. j - 1}

LEMMA PlanIs ==
    /\ Len(Plan) \in Nat \ {0} /\ DOMAIN Plan = 1 .. Len(Plan)
    /\ \A n \in DOMAIN Plan :
           /\ Plan[n] \in Seq(PlannedRows)
           /\ Len(Plan[n]) \in Nat /\ DOMAIN Plan[n] = 1 .. Len(Plan[n])
           /\ \A j \in DOMAIN Plan[n] : Follows(Plan[n][j], Before(n, j))
<1>1. Plan \in Seq(Seq(PlannedRows)) /\ Len(Plan) > 0 BY PlanAssumption
<1>2. Len(Plan) \in Nat \ {0} /\ DOMAIN Plan = 1 .. Len(Plan) BY <1>1
<1>3. ASSUME NEW n \in DOMAIN Plan
      PROVE  /\ Plan[n] \in Seq(PlannedRows)
             /\ Len(Plan[n]) \in Nat /\ DOMAIN Plan[n] = 1 .. Len(Plan[n])
    <2>1. Plan[n] \in Seq(PlannedRows) BY <1>1
    <2> QED BY <2>1
<1>4. \A n \in DOMAIN Plan : \A j \in DOMAIN Plan[n] : Follows(Plan[n][j], Before(n, j))
    BY PlanAssumption DEF Before
<1> QED BY <1>2, <1>3, <1>4

LEMMA RowAt ==
    ASSUME NEW n \in 0 .. Len(Plan)
    PROVE  \A r : r \in RowsOf(n) <=> \E m \in 1 .. n : \E j \in DOMAIN Plan[m] : r = Plan[m][j]
<1>1. \A m : Range(Plan[m]) = {Plan[m][j] : j \in DOMAIN Plan[m]} BY DEF Range
<1>2. ASSUME NEW r PROVE r \in RowsOf(n) <=> \E m \in 1 .. n : r \in Range(Plan[m])
    BY DEF RowsOf
<1>3. ASSUME NEW r, NEW m PROVE r \in Range(Plan[m]) <=> \E j \in DOMAIN Plan[m] : r = Plan[m][j]
    BY <1>1
<1> QED BY <1>2, <1>3

LEMMA RowsGrow ==
    ASSUME NEW n \in DOMAIN Plan
    PROVE  /\ Before(n, 1) = RowsOf(n - 1)
           /\ RowsOf(n) = Before(n, Len(Plan[n]) + 1)
           /\ \A j \in DOMAIN Plan[n] : Before(n, j + 1) = Before(n, j) \cup {Plan[n][j]}
           /\ \A j \in DOMAIN Plan[n] : Before(n, j) \subseteq PlannedRows
<1>1. n \in 1 .. Len(Plan) /\ n - 1 \in 0 .. Len(Plan) /\ n \in 0 .. Len(Plan)
      /\ Len(Plan) \in 0 .. Len(Plan) BY PlanIs
<1>2. Len(Plan[n]) \in Nat /\ DOMAIN Plan[n] = 1 .. Len(Plan[n]) BY PlanIs
<1>3. Before(n, 1) = RowsOf(n - 1) BY DEF Before
<1>4. RowsOf(n) = Before(n, Len(Plan[n]) + 1)
    <2>1. \A r : r \in RowsOf(n) <=>
              r \in RowsOf(n - 1) \/ \E j \in DOMAIN Plan[n] : r = Plan[n][j]
        BY <1>1, RowAt
    <2> QED BY <1>2, <2>1 DEF Before
<1>5. ASSUME NEW j \in DOMAIN Plan[n]
      PROVE Before(n, j + 1) = Before(n, j) \cup {Plan[n][j]}
    BY <1>2 DEF Before
<1>6. ASSUME NEW j \in DOMAIN Plan[n] PROVE Before(n, j) \subseteq PlannedRows
    <2>1. RowsOf(n - 1) \subseteq PlannedRows
        BY <1>1, RowAt DEF PlannedRows
    <2>2. {Plan[n][i] : i \in 1 .. j - 1} \subseteq PlannedRows
        BY <1>2, PlanIs
    <2> QED BY <2>1, <2>2 DEF Before
<1> QED BY <1>3, <1>4, <1>5, <1>6

\* No two planned rows share an id.
LEMMA PlannedOnce ==
    ASSUME NEW r \in PlannedRows, NEW q \in PlannedRows, r.id = q.id
    PROVE  r = q
<1>1. Len(Plan) \in 0 .. Len(Plan) BY PlanIs
<1>2. PICK n \in 1 .. Len(Plan) : \E j \in DOMAIN Plan[n] : r = Plan[n][j]
    BY <1>1, RowAt DEF PlannedRows
<1>3. PICK j \in DOMAIN Plan[n] : r = Plan[n][j] BY <1>2
<1>4. PICK m \in 1 .. Len(Plan) : \E i \in DOMAIN Plan[m] : q = Plan[m][i]
    BY <1>1, RowAt DEF PlannedRows
<1>5. PICK i \in DOMAIN Plan[m] : q = Plan[m][i] BY <1>4
<1>6. DOMAIN Plan[n] = 1 .. Len(Plan[n]) /\ DOMAIN Plan[m] = 1 .. Len(Plan[m])
      /\ Len(Plan[n]) \in Nat /\ Len(Plan[m]) \in Nat BY PlanIs
<1>7. \A e \in Before(n, j) : e.id # r.id BY <1>3, PlanIs DEF Follows
<1>8. \A e \in Before(m, i) : e.id # q.id BY <1>5, PlanIs DEF Follows
<1>9. CASE m < n
    <2>1. q \in RowsOf(n - 1) BY <1>5, <1>9, RowAt, PlanIs
    <2> QED BY <2>1, <1>7 DEF Before
<1>10. CASE n < m
    <2>1. r \in RowsOf(m - 1) BY <1>3, <1>10, RowAt, PlanIs
    <2> QED BY <2>1, <1>8 DEF Before
<1>11. CASE n = m
    <2>1. i < j => q \in Before(n, j) BY <1>5, <1>6, <1>11 DEF Before
    <2>2. j < i => r \in Before(m, i) BY <1>3, <1>6, <1>11 DEF Before
    <2> QED BY <2>1, <2>2, <1>3, <1>5, <1>6, <1>7, <1>8, <1>11
<1> QED BY <1>9, <1>10, <1>11

LEMMA RowsPlanned ==
    ASSUME NEW n \in 0 .. Len(Plan)
    PROVE  RowsOf(n) \subseteq PlannedRows
<1>1. Len(Plan) \in 0 .. Len(Plan) /\ \A m \in 1 .. n : m \in 1 .. Len(Plan) BY PlanIs
<1> QED BY <1>1, RowAt DEF PlannedRows

LEMMA CleanupIs ==
    /\ Len(Cleanup) \in Nat \ {0} /\ DOMAIN Cleanup = 1 .. Len(Cleanup)
    /\ \A m \in 1 .. Len(Cleanup) : Cleanup[m].ids \subseteq CleanupIds
    /\ CleanupIds = UNION {Cleanup[m].ids : m \in 1 .. Len(Cleanup)}
<1> DEFINE Statements == [table : DOMAIN TableOf, ids : SUBSET CleanupIds]
<1>1. Cleanup \in Seq(Statements) /\ Len(Cleanup) > 0 BY PlanAssumption
<1> HIDE DEF Statements
<1>2. Len(Cleanup) \in Nat \ {0} /\ DOMAIN Cleanup = 1 .. Len(Cleanup) BY <1>1
<1>s. \A m \in 1 .. Len(Cleanup) : Cleanup[m] \in Statements BY <1>1
<1>3. \A m \in 1 .. Len(Cleanup) : Cleanup[m].ids \subseteq CleanupIds BY <1>s DEF Statements
<1>4. CleanupIds = UNION {Cleanup[m].ids : m \in 1 .. Len(Cleanup)} BY <1>2 DEF CleanupIds
<1> QED BY <1>2, <1>3, <1>4

LEMMA PlanInduction ==
    ASSUME NEW S, \A n \in DOMAIN Plan : \A j \in DOMAIN Plan[n] :
                      Before(n, j) \subseteq S => Plan[n][j] \in S
    PROVE  PlannedRows \subseteq S
<1> DEFINE N == {n \in 0 .. Len(Plan) : RowsOf(n) \subseteq S}
<1>1. Len(Plan) \in Nat /\ DOMAIN Plan = 1 .. Len(Plan) BY PlanIs
<1>2. 0 \in N
    <2>1. 0 \in 0 .. Len(Plan) BY <1>1
    <2>2. RowsOf(0) = {} BY DEF RowsOf
    <2> QED BY <2>1, <2>2
<1>3. ASSUME NEW n \in 1 .. Len(Plan), n - 1 \in N PROVE n \in N
    <2> DEFINE J == {j \in 0 .. Len(Plan[n]) : Before(n, j + 1) \subseteq S}
    <2>1. n \in DOMAIN Plan /\ n \in 0 .. Len(Plan) BY <1>1
    <2>2. Len(Plan[n]) \in Nat /\ DOMAIN Plan[n] = 1 .. Len(Plan[n]) BY <2>1, PlanIs
    <2>3. 0 \in J
        <3>1. Before(n, 1) = RowsOf(n - 1) BY <2>1, RowsGrow
        <3> QED BY <3>1, <2>2, <1>3
    <2>4. ASSUME NEW j \in 1 .. Len(Plan[n]), j - 1 \in J PROVE j \in J
        <3>1. j \in DOMAIN Plan[n] /\ j \in 0 .. Len(Plan[n]) BY <2>2
        <3>2. (j - 1) + 1 = j BY <3>1, <2>2
        <3>3. Before(n, j) \subseteq S BY <2>4, <3>2
        <3>4. Plan[n][j] \in S BY <2>1, <3>1, <3>3
        <3>5. Before(n, j + 1) = Before(n, j) \cup {Plan[n][j]} BY <2>1, <3>1, RowsGrow
        <3> QED BY <3>1, <3>3, <3>4, <3>5
    <2> HIDE DEF J
    <2>5. Len(Plan[n]) \in J BY <2>2, <2>3, <2>4, Climbs
    <2> USE DEF J
    <2>6. RowsOf(n) \subseteq S BY <2>1, <2>5, RowsGrow
    <2> QED BY <2>1, <2>6
<1> HIDE DEF N
<1>4. Len(Plan) \in N BY <1>1, <1>2, <1>3, Climbs
<1> QED BY <1>4 DEF PlannedRows, N

LEMMA RowsMonotone ==
    ASSUME NEW m \in 0 .. Len(Plan), NEW n \in 0 .. Len(Plan), m <= n
    PROVE  RowsOf(m) \subseteq RowsOf(n)
<1>1. \A k \in 1 .. m : k \in 1 .. n BY PlanIs
<1> QED BY <1>1, RowAt

LEMMA CourseIs ==
    ASSUME NEW n \in CourseSteps
    PROVE  /\ n \in 1 .. Len(Plan) /\ Plan[n] = <<>> /\ Course[n].count \in Nat \ {0}
           /\ Course[n].user_id \in CleanupIds /\ Course[n].user_id # Null
           /\ \E r \in RowsOf(n - 1) : r.id = Course[n].user_id
           /\ \A r \in PlannedRows : r.id[1] = "lessons" => r \in RowsOf(n - 1)
           /\ \A m \in CourseSteps : m # n => Course[m].user_id # Course[n].user_id
<1>1. n \in 1 .. Len(Plan) BY PlanIs DEF CourseSteps
<1>2. CourseAt(n) BY PlanAssumption
<1>3. PICK r \in RowsOf(n - 1) : r.id = Course[n].user_id BY <1>2 DEF CourseAt
<1>4. r \in PlannedRows
    <2>1. n - 1 \in 0 .. Len(Plan) BY <1>1, PlanIs
    <2> QED BY <1>3, <2>1, RowsPlanned
<1>5. Course[n].user_id # Null BY <1>3, <1>4, PlanAssumption DEF WellFormed
<1> QED BY <1>1, <1>2, <1>3, <1>5 DEF CourseAt

LEMMA RowsOfCourse ==
    ASSUME NEW n \in CourseSteps
    PROVE  RowsOf(n) = RowsOf(n - 1)
<1>1. n \in DOMAIN Plan /\ Plan[n] = <<>> BY CourseIs, PlanIs
<1>2. Len(Plan[n]) = 0 BY <1>1
<1>3. Before(n, 1) = RowsOf(n - 1) /\ RowsOf(n) = Before(n, Len(Plan[n]) + 1)
    BY <1>1, RowsGrow
<1> QED BY <1>2, <1>3

\* No two demo rows share an id.
LEMMA DemoOnce ==
    ASSUME NEW r \in DemoRows, NEW q \in DemoRows, r.id = q.id
    PROVE  r = q
<1>1. CASE r \in PlannedRows
    <2>1. q \in PlannedRows BY <1>1, DemoIs DEF DemoRows
    <2> QED BY <1>1, <2>1, PlannedOnce
<1>2. CASE r \notin PlannedRows
    <2>1. r \in ProgressRows /\ q \in ProgressRows BY <1>2, DemoIs DEF DemoRows
    <2>2. PICK n \in CourseSteps, l \in Lessons : r = ProgressRow(Course[n], l)
        BY <2>1 DEF ProgressRows
    <2>3. PICK m \in CourseSteps, k \in Lessons : q = ProgressRow(Course[m], k)
        BY <2>1 DEF ProgressRows
    <2>4. r.id[2][1] = Course[n].user_id /\ r.id[2][2] = l BY <2>2, ProgressId, Zenon
    <2>5. q.id[2][1] = Course[m].user_id /\ q.id[2][2] = k BY <2>3, ProgressId, Zenon
    <2>6. Course[n].user_id = Course[m].user_id /\ l = k BY <2>4, <2>5
    <2> QED BY <2>2, <2>3, <2>6 DEF ProgressRow
<1> QED BY <1>1, <1>2

\* A demo row came from the seed.
LEMMA DemoCame ==
    ASSUME NEW d, Came(d), NEW r \in DemoRows, r.id \in DOMAIN d
    PROVE  Kept(r, d[r.id])
<1>1. PICK q \in Sources : q.id = r.id /\ Kept(q, d[r.id]) BY DEF Came
<1>2. r.id \in DemoIds BY DEF DemoIds
<1>3. q \in DemoRows BY <1>1, <1>2, ProvisioningAssumption DEF Sources
<1> QED BY <1>1, <1>3, DemoOnce

\* Once the four statements of cleanup have run, no demo row is left: each
\* hangs, by references that cascade, on a row they delete.
LEMMA NoDemoRow ==
    ASSUME NEW d, Sound(d), CleanupIds \cap DOMAIN d = {}
    PROVE  DemoIds \cap DOMAIN d = {}
<1> DEFINE S == {r \in PlannedRows : r.id \notin DOMAIN d}
<1>1. ASSUME NEW n \in DOMAIN Plan, NEW j \in DOMAIN Plan[n], Before(n, j) \subseteq S
      PROVE  Plan[n][j] \in S
    <2> DEFINE r == Plan[n][j]
    <2>1. Follows(r, Before(n, j)) BY PlanIs
    <2>2. r \in PlannedRows BY PlanIs
    <2> HIDE DEF r
    <2>3. r.id \notin DOMAIN d
        <3> SUFFICES ASSUME r.id \in DOMAIN d PROVE FALSE OBVIOUS
        <3>1. r.id \notin CleanupIds OBVIOUS
        <3>2. PICK c \in DOMAIN Refs(r.id) :
                  r.cols[c] # Null /\ Refs(r.id)[c].rule = "CASCADE"
            BY <2>1, <3>1 DEF Follows
        <3>3. PICK e \in Before(n, j) : e.id = r.cols[c] BY <2>1, <3>2 DEF Follows
        <3>4. Kept(r, d[r.id]) BY <2>2, DemoCame DEF Sound, DemoRows
        <3>5. c \in DOMAIN r.cols
            BY <2>2, <3>2, SourcesWellFormed DEF WellFormed, Sources, DemoRows
        <3>6. ~(r.id[1] = "promo_codes")
            <4>1. r.id[1] = "promo_codes" =>
                      DOMAIN Refs(r.id) = {"created_by_id"}
                      /\ Refs(r.id)["created_by_id"].rule = "SET NULL"
                BY Columns, Zenon
            <4> QED BY <4>1, <3>2
        <3>7. d[r.id][c] = r.cols[c] BY <3>2, <3>4, <3>5, <3>6 DEF Kept
        <3>8. r.cols[c] \in DOMAIN d BY <3>2, <3>7 DEF Sound, Referential
        <3> QED BY <3>3, <3>8, <1>1
    <2> QED BY <2>2, <2>3 DEF r
<1> HIDE DEF S
<1>2. PlannedRows \subseteq S BY <1>1, PlanInduction
<1>3. ASSUME NEW r \in ProgressRows PROVE r.id \notin DOMAIN d
    <2> SUFFICES ASSUME r.id \in DOMAIN d PROVE FALSE OBVIOUS
    <2>1. PICK n \in CourseSteps, l \in Lessons : r = ProgressRow(Course[n], l)
        BY DEF ProgressRows
    <2>2. r.id[1] = "student_progress"
          /\ r.cols = [user_id |-> Course[n].user_id, lesson_id |-> l]
        BY <2>1, ProgressIs
    <2>3. "user_id" \in DOMAIN r.cols /\ r.cols["user_id"] = Course[n].user_id BY <2>2
    <2>4. Kept(r, d[r.id]) BY DemoCame DEF Sound, DemoRows
    <2>5. DOMAIN Refs(r.id) = {"user_id", "lesson_id"} /\ Refs(r.id)["user_id"].rule = "CASCADE"
        BY <2>2, ProgressColumns
    <2>6. d[r.id]["user_id"] = Course[n].user_id BY <2>2, <2>3, <2>4, <2>5 DEF Kept
    <2>7. Course[n].user_id \in CleanupIds /\ Course[n].user_id # Null BY CourseIs
    <2>8. d[r.id]["user_id"] \in DOMAIN d BY <2>5, <2>6, <2>7 DEF Sound, Referential
    <2> QED BY <2>6, <2>7, <2>8
<1> QED BY <1>2, <1>3 DEF S, DemoIds, DemoRows

\* The planned rows that are there are those of rows, as they were written.
Holds(d, rows) ==
    /\ \A r \in rows : r.id \in DOMAIN d /\ (r.id[1] # "promo_codes" => d[r.id] = r.cols)
    /\ \A r \in PlannedRows : r.id \in DOMAIN d => r \in rows

\* People hold a key of a demo row that is not there.
Blocked(d) ==
    \E m \in ManualRows, r \in DemoRows :
        m.id \in DOMAIN d /\ r.id \notin DOMAIN d /\ ~Apart(r, m)

\* The next row of the plan can be inserted, unless people hold one of its keys.
LEMMA NextFits ==
    ASSUME NEW d, Sound(d), NEW n \in DOMAIN Plan, NEW j \in DOMAIN Plan[n],
           Holds(d, Before(n, j)), ~Blocked(d)
    PROVE  CanInsert(d, Plan[n][j].id, Plan[n][j].cols)
<1> DEFINE r == Plan[n][j]
<1>1. Follows(r, Before(n, j)) BY PlanIs
<1>2. r \in PlannedRows /\ r \in DemoRows BY PlanIs DEF DemoRows
<1> HIDE DEF r
<1>3. r.id \notin DOMAIN d BY <1>1, <1>2 DEF Holds, Follows
<1>4. \A c \in DOMAIN Refs(r.id) : r.cols[c] = Null \/ r.cols[c] \in DOMAIN d
    BY <1>1 DEF Holds, Follows
<1>5. ASSUME NEW key \in Keys(r.id), NEW o \in DOMAIN d
      PROVE  ~(o[1] = r.id[1] /\ \A c \in key : d[o][c] = r.cols[c])
    <2> SUFFICES ASSUME o[1] = r.id[1] PROVE \E c \in key : d[o][c] # r.cols[c]
        OBVIOUS
    <2>1. PICK q \in Sources :
              /\ q.id = o
              /\ \A k \in Keys(o) : \A c \in k : d[o][c] = q.cols[c]
        BY KeysStay DEF Sound
    <2>2. key \in Keys(o) BY <1>5 DEF Keys
    <2>3. SUFFICES \E c \in key : q.cols[c] # r.cols[c] BY <2>1, <2>2
    <2>4. CASE q \in PlannedRows
        <3>1. q \in Before(n, j) BY <2>1, <2>4 DEF Holds
        <3>2. Apart(r, q) BY <1>1, <3>1 DEF Follows
        <3> QED BY <1>5, <2>1, <3>2 DEF Apart
    <2>5. CASE q \in ManualRows
        <3>1. Apart(r, q) BY <1>2, <1>3, <2>1, <2>5 DEF Blocked
        <3> QED BY <1>5, <2>1, <3>1 DEF Apart
    <2>6. CASE \E c \in Containers : q = SuperAdminRow(c)
        <3>1. q.id[1] = "admin_users" /\ q.cols["email"] = <<"bootstrap">>
            BY <2>6, BootstrapRow
        <3>2. r.id[1] = "admin_users" BY <1>5, <2>1, <3>1
        <3>3. r.cols["email"] # <<"bootstrap">> BY <1>2, <3>2, PlanAssumption
        <3>4. key = {"email"} BY <3>2, Columns
        <3> QED BY <3>1, <3>3, <3>4
    <2>7. q \notin ProgressRows BY <1>2, <2>1, DemoIs
    <2> QED BY <2>1, <2>4, <2>5, <2>6, <2>7 DEF Sources, DemoRows
<1> QED BY <1>3, <1>4, <1>5 DEF CanInsert, r

LEMMA NextHolds ==
    ASSUME NEW d, Sound(d), NEW n \in DOMAIN Plan, NEW j \in DOMAIN Plan[n],
           Holds(d, Before(n, j)), CanInsert(d, Plan[n][j].id, Plan[n][j].cols)
    PROVE  LET r == Plan[n][j]
           IN  Holds(InsertRow(d, r.id, r.cols), Before(n, j + 1))
<1> DEFINE r == Plan[n][j]
           e == InsertRow(d, r.id, r.cols)
<1>1. r \in PlannedRows /\ r \in Sources BY PlanIs DEF Sources, DemoRows
<1>3. Grown(d, r, e) BY <1>1, InsertGrows DEF Sound
<1>4. Before(n, j + 1) = Before(n, j) \cup {r} BY RowsGrow
<1> HIDE DEF r, e
<1>5. \A q \in Before(n, j) :
          q.id \in DOMAIN e /\ (q.id[1] # "promo_codes" => e[q.id] = q.cols)
    BY <1>3 DEF Holds, Grown
<1>6. r.id \in DOMAIN e /\ e[r.id] = r.cols BY <1>3 DEF Grown
<1>7. ASSUME NEW q \in PlannedRows, q.id \in DOMAIN e PROVE q \in Before(n, j + 1)
    <2>1. CASE q.id = r.id BY <1>1, <1>4, <2>1, PlannedOnce
    <2>2. CASE q.id # r.id
        <3>1. q.id \in DOMAIN d BY <1>3, <1>7, <2>2 DEF Grown
        <3> QED BY <3>1, <1>4 DEF Holds
    <2> QED BY <2>1, <2>2
<1>8. Holds(e, Before(n, j + 1)) BY <1>4, <1>5, <1>6, <1>7 DEF Holds
<1> QED BY <1>8 DEF r, e

\* A transaction of the plan goes through after those before it, unless people
\* hold one of its keys.
LEMMA InsertAllHolds ==
    ASSUME Sound(db), NEW n \in DOMAIN Plan, Holds(db, RowsOf(n - 1))
    PROVE  /\ InsertAll(Plan[n]).ok \/ Blocked(db)
           /\ InsertAll(Plan[n]).ok => Holds(InsertAll(Plan[n]).db, RowsOf(n))
<1> DEFINE rows == Plan[n]
           N == Len(rows)
<1>1. N \in Nat /\ DOMAIN rows = 1 .. N BY PlanIs
<1>2. PICK f : AfterEq(db, rows, N, f) /\ InsertAll(rows) = f[N] BY <1>1, InsertAllIs
<1>3. /\ f[0] = [db |-> db, ok |-> TRUE]
      /\ \A k \in 1 .. N : f[k] = Inserted(f[k - 1], rows[k])
    BY <1>1, <1>2, AfterSteps
<1> DEFINE Good(k) == /\ Sound(f[k].db)
                      /\ f[k].ok \/ Blocked(db)
                      /\ f[k].ok => Holds(f[k].db, Before(n, k + 1))
                      /\ DOMAIN db \subseteq DOMAIN f[k].db
                      /\ DOMAIN f[k].db \subseteq DOMAIN db \cup PlannedIds
           S == {k \in 0 .. N : Good(k)}
<1>4. Good(0)
    <2>1. f[0].db = db /\ f[0].ok BY <1>3
    <2>2. Before(n, 0 + 1) = RowsOf(n - 1) BY RowsGrow
    <2> QED BY <2>1, <2>2
<1>5. ASSUME NEW k \in 1 .. N, Good(k - 1) PROVE Good(k)
    <2> DEFINE d == f[k - 1].db
               r == rows[k]
               e == InsertRow(d, r.id, r.cols)
    <2>1. r \in PlannedRows /\ r \in Sources BY <1>1, PlanIs DEF Sources, DemoRows
    <2>2. (k - 1) + 1 = k BY <1>1
    <2>3. /\ Sound(d) /\ (f[k - 1].ok \/ Blocked(db))
          /\ f[k - 1].ok => Holds(d, Before(n, k))
          /\ DOMAIN db \subseteq DOMAIN d /\ DOMAIN d \subseteq DOMAIN db \cup PlannedIds
        BY <1>5, <2>2
    <2>4. f[k] = Inserted(f[k - 1], r) BY <1>3
    <2>5. k \in DOMAIN Plan[n] BY <1>1
    <2>6. CASE Fits(f[k - 1], r)
        <3>1. f[k - 1].ok /\ CanInsert(d, r.id, r.cols) BY <2>6 DEF Fits
        <3>2. /\ Inserted(f[k - 1], r).db = InsertRow(f[k - 1].db, r.id, r.cols)
              /\ Inserted(f[k - 1], r).ok = TRUE
            BY <2>6, InsertedIs, Zenon
        <3>3. f[k].db = e /\ f[k].ok BY <2>4, <3>2, Zenon
        <3>4. Sound(e) BY <2>1, <2>3, <3>1, InsertSound
        <3>5. Holds(e, Before(n, k + 1)) BY <2>3, <2>5, <3>1, NextHolds
        <3>6. Grown(d, r, e) BY <2>1, <2>3, <3>1, InsertGrows DEF Sound
        <3> HIDE DEF d, r, e
        <3>7. DOMAIN db \subseteq DOMAIN e /\ DOMAIN e \subseteq DOMAIN db \cup PlannedIds
            BY <2>1, <2>3, <3>6 DEF Grown, PlannedIds
        <3> QED BY <3>3, <3>4, <3>5, <3>7, Zenon
    <2>7. CASE ~Fits(f[k - 1], r)
        <3>1. f[k].db = d /\ ~f[k].ok
            <4>1. Inserted(f[k - 1], r).db = f[k - 1].db /\ Inserted(f[k - 1], r).ok = FALSE
                BY <2>7, InsertedIs, Zenon
            <4> QED BY <2>4, <4>1
        <3>2. CASE ~f[k - 1].ok BY <2>3, <3>1, <3>2
        <3>3. CASE f[k - 1].ok
            <4>1. ~CanInsert(d, r.id, r.cols) BY <2>7, <3>3 DEF Fits
            <4>2. Blocked(d) BY <2>3, <2>5, <3>3, <4>1, NextFits
            <4> HIDE DEF d, r
            <4>3. PICK m \in ManualRows, q \in DemoRows :
                      m.id \in DOMAIN d /\ q.id \notin DOMAIN d /\ ~Apart(q, m)
                BY <4>2 DEF Blocked
            <4>4. m.id \notin PlannedIds BY ProvisioningAssumption, DemoIs DEF PlannedIds
            <4>5. Blocked(db) BY <2>3, <4>3, <4>4 DEF Blocked
            <4> QED BY <2>3, <3>1, <4>5
        <3> QED BY <3>2, <3>3
    <2> QED BY <2>6, <2>7
<1> HIDE DEF Good
<1>6. 0 \in S /\ \A k \in 1 .. N : k - 1 \in S => k \in S
    BY <1>1, <1>4, <1>5
<1>7. N \in S BY <1>1, <1>6, Climbs
<1>8. RowsOf(n) = Before(n, N + 1) BY RowsGrow
<1> QED BY <1>2, <1>7, <1>8 DEF Good

\* Other rows leave those of the plan alone.
LEMMA OthersHold ==
    ASSUME NEW d, NEW r, NEW e, Grown(d, r, e), r.id \notin PlannedIds,
           NEW rows \in SUBSET PlannedRows, Holds(d, rows)
    PROVE  Holds(e, rows)
<1>1. \A q \in rows : q.id \in DOMAIN e /\ (q.id[1] # "promo_codes" => e[q.id] = q.cols)
    BY DEF Holds, Grown
<1>2. \A q \in PlannedRows : q.id \in DOMAIN e => q.id \in DOMAIN d BY DEF Grown, PlannedIds
<1> QED BY <1>1, <1>2 DEF Holds

-----------------------------------------------------------------------------
(* The courses.                                                            *)

CompletedIn(d, c) == {l \in Lessons : ProgressRow(c, l).id \in DOMAIN d}

\* Course c is told by the lessons of X.
Told(d, c, X) ==
    LET of == LessonsOf(d, c.cert_id)
    IN  /\ X \subseteq of
        /\ Cardinality(X) = c.count \/ of \cap DemoIds \subseteq X
        /\ \A k \in of \cap DemoIds, l \in X : Precedes(d, k, l) => k \in X

\* A lesson is in a module.
LEMMA LessonAt ==
    ASSUME NEW d, Sound(d), NEW l \in DOMAIN d, l[1] = "lessons"
    PROVE  /\ l \in Lessons
           /\ d[l].module_id = Null \/ d[l].module_id \in DOMAIN d
           /\ Null \notin DOMAIN d
           /\ d[l].module_id \in DOMAIN d => d[l].module_id[1] = "learning_modules"
<1>1. PICK q \in Sources : q.id = l BY DEF Sound, Came
<1>2. \A c \in Containers : SuperAdminRow(c).id # l
    <2>1. \A c \in Containers : SuperAdminRow(c).id[1] = "admin_users" BY BootstrapRow
    <2> QED BY <2>1
<1>3. q \notin ProgressRows BY <1>1, DemoIs
<1>4. l \in Lessons BY <1>1, <1>2, <1>3 DEF Lessons, Sources, DemoRows
<1>5. "module_id" \in DOMAIN Refs(l) /\ Refs(l)["module_id"].to = "learning_modules"
    BY LessonColumns
<1>6. d[l]["module_id"] = Null \/ d[l]["module_id"] \in DOMAIN d
    BY <1>5 DEF Sound, Referential
<1>7. Null \notin DOMAIN d BY RowThere DEF Sound
<1>8. d[l]["module_id"] # Null => d[l]["module_id"][1] = "learning_modules"
    BY <1>5, RowThere DEF Sound
<1> QED BY <1>4, <1>6, <1>7, <1>8

\* What is written later leaves the lessons of a course where they are.
LEMMA LessonsKeep ==
    ASSUME NEW d, NEW e, Sound(d), Sound(e), Keeps(d, e), NEW cert
    PROVE  /\ LessonsOf(d, cert) \subseteq LessonsOf(e, cert)
           /\ \A l \in LessonsOf(e, cert) : l \in DOMAIN d => l \in LessonsOf(d, cert)
           /\ \A k, l \in LessonsOf(d, cert) : Precedes(e, k, l) => Precedes(d, k, l)
<1>1. ASSUME NEW l \in DOMAIN d, l[1] = "lessons"
      PROVE  e[l] = d[l] /\ l \in DOMAIN e
    BY <1>1 DEF Keeps
<1>2. ASSUME NEW l \in DOMAIN d, l[1] = "lessons", d[l].module_id \in DOMAIN d
      PROVE  e[d[l].module_id] = d[d[l].module_id] /\ d[l].module_id \in DOMAIN e
    <2>1. d[l].module_id[1] = "learning_modules" BY <1>2, LessonAt
    <2> QED BY <1>2, <2>1 DEF Keeps
<1>3. ASSUME NEW l \in DOMAIN d, l[1] = "lessons", e[l].module_id \in DOMAIN e
      PROVE  d[l].module_id \in DOMAIN d
    <2>1. e[l] = d[l] /\ l \in DOMAIN e BY <1>1, <1>3
    <2>2. d[l].module_id = Null \/ d[l].module_id \in DOMAIN d BY <1>3, LessonAt
    <2>3. Null \notin DOMAIN e BY <1>3, <2>1, LessonAt
    <2> QED BY <1>3, <2>1, <2>2, <2>3
<1>4. \A l \in LessonsOf(d, cert) :
          /\ l \in DOMAIN d /\ l[1] = "lessons" /\ d[l].module_id \in DOMAIN d
          /\ d[d[l].module_id].cert_id = cert
    BY DEF LessonsOf
<1>5. \A l \in LessonsOf(d, cert) : e[l] = d[l] /\ e[e[l].module_id] = d[d[l].module_id]
    BY <1>1, <1>2, <1>4
<1>6. ASSUME NEW l \in LessonsOf(d, cert) PROVE l \in LessonsOf(e, cert)
    BY <1>1, <1>2, <1>4 DEF LessonsOf
<1>7. ASSUME NEW l \in LessonsOf(e, cert), l \in DOMAIN d PROVE l \in LessonsOf(d, cert)
    <2>1. /\ l[1] = "lessons" /\ e[l].module_id \in DOMAIN e
          /\ e[e[l].module_id].cert_id = cert
        BY DEF LessonsOf
    <2>2. d[l].module_id \in DOMAIN d /\ e[l] = d[l] BY <1>1, <1>3, <1>7, <2>1
    <2>3. e[d[l].module_id] = d[d[l].module_id] BY <1>2, <1>7, <2>1, <2>2
    <2> QED BY <1>7, <2>1, <2>2, <2>3 DEF LessonsOf
<1>8. ASSUME NEW k \in LessonsOf(d, cert), NEW l \in LessonsOf(d, cert), Precedes(e, k, l)
      PROVE  Precedes(d, k, l)
    BY <1>5, <1>8 DEF Precedes
<1> QED BY <1>6, <1>7, <1>8

\* A course that is told stays so while no demo lesson is added.
LEMMA ToldKeeps ==
    ASSUME NEW d, NEW e, Sound(d), Sound(e), Keeps(d, e),
           \A i \in DOMAIN e \cap DemoIds : i[1] = "lessons" => i \in DOMAIN d,
           NEW c, NEW X, Told(d, c, X)
    PROVE  Told(e, c, X)
<1> DEFINE of(x) == LessonsOf(x, c.cert_id)
<1>1. /\ of(d) \subseteq of(e)
      /\ \A l \in of(e) : l \in DOMAIN d => l \in of(d)
      /\ \A k, l \in of(d) : Precedes(e, k, l) => Precedes(d, k, l)
    BY LessonsKeep
<1>2. \A l \in of(e) : l \in DOMAIN e /\ l[1] = "lessons" BY DEF LessonsOf
<1>3. \A l \in of(e) \cap DemoIds : l \in of(d) BY <1>1, <1>2
<1>4. /\ X \subseteq of(d)
      /\ Cardinality(X) = c.count \/ of(d) \cap DemoIds \subseteq X
      /\ \A k \in of(d) \cap DemoIds, l \in X : Precedes(d, k, l) => k \in X
    BY DEF Told
<1> HIDE DEF of
<1>5. X \subseteq of(e) BY <1>1, <1>4
<1>6. Cardinality(X) = c.count \/ of(e) \cap DemoIds \subseteq X BY <1>3, <1>4
<1>7. \A k \in of(e) \cap DemoIds, l \in X : Precedes(e, k, l) => k \in X
    BY <1>1, <1>3, <1>4
<1> QED BY <1>5, <1>6, <1>7 DEF Told, of

\* The courses before step n of the script are told, no lesson of the others is
\* completed.
ToldBefore(d, n) == \A m \in CourseSteps : m < n => Told(d, Course[m], CompletedIn(d, Course[m]))
UntoldFrom(d, n) == \A m \in CourseSteps : m >= n => CompletedIn(d, Course[m]) = {}

\* The script has run up to step n.
UpTo(d, n) == Holds(d, RowsOf(n - 1)) /\ ToldBefore(d, n)

\* Course c is under way, the lessons of todo are to come.
Midway(d, c, todo) ==
    /\ todo \in Seq(Lessons) /\ todo # <<>> /\ IsInjective(todo)
    /\ Range(todo) \cap CompletedIn(d, c) = {}
    /\ Told(d, c, CompletedIn(d, c) \cup Range(todo))

LEMMA CompletedStays ==
    ASSUME NEW d, NEW e, NEW m \in CourseSteps, DOMAIN d \subseteq DOMAIN e,
           \A l \in Lessons : ProgressRow(Course[m], l).id \in DOMAIN e =>
                                  ProgressRow(Course[m], l).id \in DOMAIN d
    PROVE  CompletedIn(e, Course[m]) = CompletedIn(d, Course[m])
BY DEF CompletedIn

\* Rows of people and of containers change nothing of what the seed has told.
LEMMA OthersTell ==
    ASSUME NEW d, NEW e, Sound(d), Sound(e), NEW r, Grown(d, r, e), r.id \notin DemoIds
    PROVE  /\ \A n \in 1 .. Len(Plan) + 1 : UpTo(d, n) => UpTo(e, n)
           /\ \A n \in Nat : UntoldFrom(d, n) => UntoldFrom(e, n)
           /\ \A m \in CourseSteps :
                  \A todo : Midway(d, Course[m], todo) => Midway(e, Course[m], todo)
<1>1. Keeps(d, e) BY GrownKeeps DEF Sound
<1>2. DOMAIN e = DOMAIN d \cup {r.id} BY DEF Grown
<1>3. \A i \in DOMAIN e \cap DemoIds : i[1] = "lessons" => i \in DOMAIN d BY <1>2
<1>4. ASSUME NEW m \in CourseSteps PROVE CompletedIn(e, Course[m]) = CompletedIn(d, Course[m])
    <2>1. ASSUME NEW l \in Lessons PROVE ProgressRow(Course[m], l).id \in DemoIds
        BY ProgressIs, DemoIs
    <2> QED BY <1>2, <2>1, CompletedStays
<1>5. ASSUME NEW m \in CourseSteps, NEW X, Told(d, Course[m], X) PROVE Told(e, Course[m], X)
    BY <1>1, <1>3, <1>5, ToldKeeps
<1>6. ASSUME NEW n \in 1 .. Len(Plan) + 1, UpTo(d, n) PROVE UpTo(e, n)
    <2>1. n - 1 \in 0 .. Len(Plan) BY PlanIs
    <2>2. Holds(e, RowsOf(n - 1))
        <3>1. RowsOf(n - 1) \in SUBSET PlannedRows BY <2>1, RowsPlanned
        <3>2. r.id \notin PlannedIds BY DemoIs DEF PlannedIds
        <3> QED BY <1>6, <3>1, <3>2, OthersHold DEF UpTo
    <2>3. ToldBefore(e, n) BY <1>4, <1>5, <1>6 DEF UpTo, ToldBefore
    <2> QED BY <2>2, <2>3 DEF UpTo
<1>7. ASSUME NEW n \in Nat, UntoldFrom(d, n) PROVE UntoldFrom(e, n)
    BY <1>4, <1>7 DEF UntoldFrom
<1>8. ASSUME NEW m \in CourseSteps, NEW todo, Midway(d, Course[m], todo)
      PROVE  Midway(e, Course[m], todo)
    BY <1>4, <1>5, <1>8 DEF Midway
<1> QED BY <1>6, <1>7, <1>8

-----------------------------------------------------------------------------
(* Super admins.                                                           *)

LEMMA SuperAdminCame ==
    ASSUME NEW d, Came(d), NEW i \in SuperAdmins(d)
    PROVE  /\ \E c \in Containers : i = SuperAdminRow(c).id /\ Kept(SuperAdminRow(c), d[i])
           /\ i \in DOMAIN d /\ i[1] = "admin_users"
           /\ d[i].email = <<"bootstrap">>
           /\ d[i].created_by_id = Null
           /\ i \notin CleanupIds
<1>1. i \in DOMAIN d /\ i[1] = "admin_users" /\ d[i].role = "super_admin"
    BY DEF SuperAdmins
<1>2. PICK r \in Sources : /\ r.id = i /\ Kept(r, d[i])
                           /\ d[i].role = r.cols.role /\ d[i].email = r.cols.email
    BY <1>1, KeysStay
<1>3. ~Ordinary(r) BY <1>1, <1>2 DEF Ordinary
<1>4. r \notin PlannedRows /\ r \notin ManualRows /\ r \notin ProgressRows
    BY <1>3, PlanAssumption, ProvisioningAssumption, ProgressFrom
<1>5. PICK c \in Containers : r = SuperAdminRow(c) BY <1>4 DEF Sources, DemoRows
<1>6. r.cols = [email |-> <<"bootstrap">>, role |-> "super_admin", created_by_id |-> Null]
    BY <1>5, BootstrapRow
<1>7. "created_by_id" \in DOMAIN r.cols /\ r.cols["created_by_id"] = Null BY <1>6
<1>8. d[i].created_by_id = Null BY <1>1, <1>2, <1>7 DEF Kept
<1>9. i \notin CleanupIds BY <1>2, <1>5, ProvisioningAssumption
<1> QED BY <1>1, <1>2, <1>5, <1>6, <1>8, <1>9

\* A statement of cleanup never meets the trigger that protects them.
LEMMA CleanupCan ==
    ASSUME NEW d, Sound(d), NEW ids \in SUBSET CleanupIds
    PROVE  CanDelete(d, ids)
<1> DEFINE doomed == ids \cap DOMAIN d
           gone == Cascade(d, doomed)
<1>1. Takes(d, doomed, gone) BY CascadeTakes DEF Sound
<1> HIDE DEF gone
<1>2. ASSUME NEW i \in SuperAdmins(d) PROVE i \notin gone /\ i \notin Nulled(d, gone)
    <2>1. /\ i \in DOMAIN d /\ i[1] = "admin_users" /\ i \notin CleanupIds
          /\ d[i].created_by_id = Null
        BY SuperAdminCame DEF Sound
    <2>2. DOMAIN Refs(i) = {"created_by_id"} /\ Refs(i)["created_by_id"].rule = "SET NULL"
        BY <2>1, Columns, Zenon
    <2>3. i \notin gone
        BY <1>1, <2>1, <2>2 DEF Takes, Supported
    <2>4. Null \notin gone BY <1>1, RowThere DEF Takes, Sound
    <2>5. i \notin Nulled(d, gone) BY <2>1, <2>2, <2>4 DEF Nulled, Loses
    <2> QED BY <2>3, <2>5
<1>3. SuperAdmins(d) \cap (gone \cup Nulled(d, gone)) = {} BY <1>2
<1> QED BY <1>3 DEF CanDelete, gone

-----------------------------------------------------------------------------
(* The statements of the migrations.                                       *)

IsSeq(s) == s \in Seq(Range(s))

LEMMA SeqIs ==
    ASSUME NEW n \in Nat, NEW s, DOMAIN s = 1 .. n, s = [k \in 1 .. n |-> s[k]]
    PROVE  IsSeq(s)
<1>1. \A k \in 1 .. n : s[k] \in Range(s) BY DEF Range
<1>2. s \in [1 .. n -> Range(s)] BY <1>1
<1> QED BY <1>2 DEF IsSeq

LEMMA Concat ==
    ASSUME NEW s, NEW t, IsSeq(s), IsSeq(t)
    PROVE  IsSeq(s \o t) /\ Range(s \o t) = Range(s) \cup Range(t)
<1> DEFINE S == Range(s) \cup Range(t)
<1>1. s \in Seq(S) /\ t \in Seq(S)
    <2>1. Range(s) \subseteq S /\ Range(t) \subseteq S OBVIOUS
    <2> QED BY <2>1 DEF IsSeq
<1> HIDE DEF S
<1>0. s \o t \in Seq(S) BY <1>1
<1>2. /\ Len(s) \in Nat /\ Len(t) \in Nat /\ Len(s) + Len(t) \in Nat
      /\ DOMAIN s = 1 .. Len(s) /\ DOMAIN t = 1 .. Len(t)
      /\ DOMAIN (s \o t) = 1 .. Len(s) + Len(t)
    BY <1>1
<1>3. \A k \in 1 .. Len(s) : (s \o t)[k] = s[k] BY <1>1
<1>4. \A k \in 1 .. Len(t) : (s \o t)[Len(s) + k] = t[k] BY <1>1
<1>5. \A k \in 1 .. Len(s) + Len(t) :
          k \in 1 .. Len(s) \/ (k - Len(s) \in 1 .. Len(t) /\ k = Len(s) + (k - Len(s)))
    BY <1>2
<1>6. Range(s \o t) \subseteq Range(s) \cup Range(t)
    BY <1>2, <1>3, <1>4, <1>5 DEF Range
<1>7. Range(s) \subseteq Range(s \o t)
    <2>1. \A k \in DOMAIN s : k \in DOMAIN (s \o t) BY <1>2
    <2> QED BY <2>1, <1>2, <1>3 DEF Range
<1>8. Range(t) \subseteq Range(s \o t)
    <2>1. \A k \in DOMAIN t : Len(s) + k \in DOMAIN (s \o t) BY <1>2
    <2> QED BY <2>1, <1>2, <1>4 DEF Range
<1>9. IsSeq(s \o t)
    <2>1. Range(s \o t) = S BY <1>6, <1>7, <1>8 DEF S
    <2> QED BY <1>0, <2>1 DEF IsSeq
<1> QED BY <1>6, <1>7, <1>8, <1>9

\* The same statement for each of names, or for a column or index of each table.
Each(op, kind, names) == {[op |-> op, object |-> <<kind, n>>] : n \in names}
EachOn(op, kind, tables, name) == {[op |-> op, object |-> <<kind, t, name>>] : t \in tables}

LEMMA EachIs ==
    ASSUME NEW op, NEW kind, NEW names, IsSeq(names), NEW p,
           p = [i \in DOMAIN names |-> [op |-> op, object |-> <<kind, names[i]>>]]
    PROVE  IsSeq(p) /\ Range(p) = Each(op, kind, Range(names))
<1>1. Len(names) \in Nat /\ DOMAIN names = 1 .. Len(names) BY DEF IsSeq
<1>2. IsSeq(p) BY <1>1, SeqIs
<1>3. Range(p) = Each(op, kind, Range(names)) BY DEF Range, Each
<1> QED BY <1>2, <1>3

LEMMA EachOnIs ==
    ASSUME NEW op, NEW kind, NEW tables, IsSeq(tables), NEW name, NEW p,
           p = [i \in DOMAIN tables |-> [op |-> op, object |-> <<kind, tables[i], name>>]]
    PROVE  IsSeq(p) /\ Range(p) = EachOn(op, kind, Range(tables), name)
<1>1. Len(tables) \in Nat /\ DOMAIN tables = 1 .. Len(tables) BY DEF IsSeq
<1>2. IsSeq(p) BY <1>1, SeqIs
<1>3. Range(p) = EachOn(op, kind, Range(tables), name) BY DEF Range, EachOn
<1> QED BY <1>2, <1>3

LEMMA NameSeqs ==
    /\ IsSeq(EnumTypes) /\ IsSeq(TablesUp) /\ IsSeq(Policies) /\ IsSeq(CertSequences)
    /\ IsSeq(TablesDown) /\ IsSeq(Translatable) /\ IsSeq(Searched)
<1>1. IsSeq(EnumTypes)
    <2>1. DOMAIN EnumTypes = 1 .. 12 BY DEF EnumTypes
    <2>2. EnumTypes = [k \in 1 .. 12 |-> EnumTypes[k]] BY DEF EnumTypes
    <2> QED BY <2>1, <2>2, SeqIs
<1>2. IsSeq(TablesUp)
    <2>1. DOMAIN TablesUp = 1 .. 26 BY DEF TablesUp
    <2>2. TablesUp = [k \in 1 .. 26 |-> TablesUp[k]] BY DEF TablesUp
    <2> QED BY <2>1, <2>2, SeqIs
<1>3. IsSeq(Policies)
    <2>1. DOMAIN Policies = 1 .. 6 BY DEF Policies
    <2>2. Policies = [k \in 1 .. 6 |-> Policies[k]] BY DEF Policies
    <2> QED BY <2>1, <2>2, SeqIs
<1>4. IsSeq(CertSequences)
    <2>1. DOMAIN CertSequences = 1 .. 6 BY DEF CertSequences
    <2>2. CertSequences = [k \in 1 .. 6 |-> CertSequences[k]] BY DEF CertSequences
    <2> QED BY <2>1, <2>2, SeqIs
<1>5. IsSeq(TablesDown)
    <2>1. DOMAIN TablesDown = 1 .. 26 BY DEF TablesDown
    <2>2. TablesDown = [k \in 1 .. 26 |-> TablesDown[k]] BY DEF TablesDown
    <2> QED BY <2>1, <2>2, SeqIs
<1>6. IsSeq(Translatable)
    <2>1. DOMAIN Translatable = 1 .. 5 BY DEF Translatable
    <2>2. Translatable = [k \in 1 .. 5 |-> Translatable[k]] BY DEF Translatable
    <2> QED BY <2>1, <2>2, SeqIs
<1>7. IsSeq(Searched)
    <2>1. DOMAIN Searched = 1 .. 4 BY DEF Searched
    <2>2. Searched = [k \in 1 .. 4 |-> Searched[k]] BY DEF Searched
    <2> QED BY <2>1, <2>2, SeqIs
<1> QED BY <1>1, <1>2, <1>3, <1>4, <1>5, <1>6, <1>7

LEMMA Alone ==
    ASSUME NEW s
    PROVE  IsSeq(<<s>>) /\ Range(<<s>>) = {s}
<1>1. Range(<<s>>) = {s} BY DEF Range
<1> QED BY <1>1 DEF IsSeq

LEMMA InitialUp ==
    /\ IsSeq(InitialSchemaUp)
    /\ Range(InitialSchemaUp) =
           {CreateIfNotExists(<<"extension", "pgcrypto">>)}
               \cup Each("CREATE", "type", Range(EnumTypes))
               \cup Each("CREATE", "table", Range(TablesUp))
               \cup Each("CREATE", "policy", Range(Policies))
               \cup {CreateIfNotExists(<<"sequence", n>>) : n \in Range(CertSequences)}
               \cup Range(FunctionsAndTriggers)
<1> DEFINE a == <<CreateIfNotExists(<<"extension", "pgcrypto">>)>>
           b == All(Create, "type", EnumTypes)
           c == All(Create, "table", TablesUp)
           d == All(Create, "policy", Policies)
           e == All(CreateIfNotExists, "sequence", CertSequences)
<1>1. IsSeq(a) /\ Range(a) = {CreateIfNotExists(<<"extension", "pgcrypto">>)}
    BY Alone
<1>2. IsSeq(b) /\ Range(b) = Each("CREATE", "type", Range(EnumTypes))
    BY NameSeqs, EachIs DEF All, Create
<1>3. IsSeq(c) /\ Range(c) = Each("CREATE", "table", Range(TablesUp))
    BY NameSeqs, EachIs DEF All, Create
<1>4. IsSeq(d) /\ Range(d) = Each("CREATE", "policy", Range(Policies))
    BY NameSeqs, EachIs DEF All, Create
<1>5. /\ IsSeq(e)
      /\ Range(e) = {CreateIfNotExists(<<"sequence", n>>) : n \in Range(CertSequences)}
    <2>1. e = [i \in DOMAIN CertSequences |-> CreateIfNotExists(<<"sequence", CertSequences[i]>>)]
        BY DEF All
    <2>2. Len(CertSequences) \in Nat /\ DOMAIN CertSequences = 1 .. Len(CertSequences)
        BY NameSeqs DEF IsSeq
    <2> HIDE DEF e
    <2>3. IsSeq(e) BY <2>1, <2>2, SeqIs
    <2> QED BY <2>1, <2>3 DEF Range
<1>6. IsSeq(FunctionsAndTriggers)
    <2>1. DOMAIN FunctionsAndTriggers = 1 .. 11 BY DEF FunctionsAndTriggers
    <2>2. FunctionsAndTriggers = [k \in 1 .. 11 |-> FunctionsAndTriggers[k]]
        BY DEF FunctionsAndTriggers
    <2> QED BY <2>1, <2>2, SeqIs
<1>7. InitialSchemaUp = a \o b \o c \o d \o e \o FunctionsAndTriggers BY DEF InitialSchemaUp
<1> HIDE DEF a, b, c, d, e
<1>8. IsSeq(a \o b) /\ Range(a \o b) = Range(a) \cup Range(b)
    BY <1>1, <1>2, Concat
<1>9. IsSeq(a \o b \o c) /\ Range(a \o b \o c) = Range(a \o b) \cup Range(c)
    BY <1>8, <1>3, Concat
<1>10. IsSeq(a \o b \o c \o d) /\ Range(a \o b \o c \o d) = Range(a \o b \o c) \cup Range(d)
    BY <1>9, <1>4, Concat
<1>11. /\ IsSeq(a \o b \o c \o d \o e)
       /\ Range(a \o b \o c \o d \o e) = Range(a \o b \o c \o d) \cup Range(e)
    BY <1>10, <1>5, Concat
<1>12. /\ IsSeq(InitialSchemaUp)
       /\ Range(InitialSchemaUp) = Range(a \o b \o c \o d \o e) \cup Range(FunctionsAndTriggers)
    BY <1>7, <1>11, <1>6, Concat
<1> QED BY <1>1, <1>2, <1>3, <1>4, <1>5, <1>8, <1>9, <1>10, <1>11, <1>12

LEMMA I18nUp ==
    /\ IsSeq(AddI18nSupportUp)
    /\ Range(AddI18nSupportUp) =
           {CreateIfNotExists(<<"extension", "pg_trgm">>),
            Create(<<"column", "admin_users", "locale">>),
            Create(<<"check", "users">>), Create(<<"check", "admin_users">>)}
               \cup EachOn("CREATE", "column", Range(Translatable), "translations")
               \cup EachOn("CREATE", "index", Range(Searched), "translations")
<1> DEFINE a == <<CreateIfNotExists(<<"extension", "pg_trgm">>)>>
           b == OnEach(Create, "column", Translatable, "translations")
           c == <<Create(<<"column", "admin_users", "locale">>),
                  Create(<<"check", "users">>), Create(<<"check", "admin_users">>)>>
           d == OnEach(Create, "index", Searched, "translations")
<1>1. IsSeq(a) /\ Range(a) = {CreateIfNotExists(<<"extension", "pg_trgm">>)} BY Alone
<1>2. IsSeq(b) /\ Range(b) = EachOn("CREATE", "column", Range(Translatable), "translations")
    BY NameSeqs, EachOnIs DEF OnEach, Create
<1>3. /\ IsSeq(c)
      /\ Range(c) = {Create(<<"column", "admin_users", "locale">>),
                     Create(<<"check", "users">>), Create(<<"check", "admin_users">>)}
    <2>1. DOMAIN c = 1 .. 3 /\ c = [k \in 1 .. 3 |-> c[k]] OBVIOUS
    <2>2. IsSeq(c) BY <2>1, SeqIs
    <2> QED BY <2>2 DEF Range
<1>4. IsSeq(d) /\ Range(d) = EachOn("CREATE", "index", Range(Searched), "translations")
    BY NameSeqs, EachOnIs DEF OnEach, Create
<1>5. AddI18nSupportUp = a \o b \o c \o d BY DEF AddI18nSupportUp
<1> HIDE DEF a, b, c, d
<1>6. IsSeq(a \o b) /\ Range(a \o b) = Range(a) \cup Range(b) BY <1>1, <1>2, Concat
<1>7. IsSeq(a \o b \o c) /\ Range(a \o b \o c) = Range(a \o b) \cup Range(c)
    BY <1>6, <1>3, Concat
<1>8. IsSeq(AddI18nSupportUp) /\ Range(AddI18nSupportUp) = Range(a \o b \o c) \cup Range(d)
    BY <1>5, <1>7, <1>4, Concat
<1> QED BY <1>1, <1>2, <1>3, <1>4, <1>6, <1>7, <1>8

LEMMA LaterUps ==
    /\ IsSeq(AddCertIdToTestSessionsUp)
    /\ Range(AddCertIdToTestSessionsUp) =
           {CreateIfNotExists(<<"column", "test_sessions", "cert_id">>),
            CreateIfNotExists(<<"index", "test_sessions", "cert_id">>)}
    /\ IsSeq(AddCertCatalogFieldsUp)
    /\ Range(AddCertCatalogFieldsUp) =
           {Create(<<"type", "certificates_level_enum">>),
            Create(<<"column", "certificates", "level">>)}
<1>1. /\ DOMAIN AddCertIdToTestSessionsUp = 1 .. 2
      /\ AddCertIdToTestSessionsUp = [k \in 1 .. 2 |-> AddCertIdToTestSessionsUp[k]]
      /\ DOMAIN AddCertCatalogFieldsUp = 1 .. 2
      /\ AddCertCatalogFieldsUp = [k \in 1 .. 2 |-> AddCertCatalogFieldsUp[k]]
    BY DEF AddCertIdToTestSessionsUp, AddCertCatalogFieldsUp
<1>2. IsSeq(AddCertIdToTestSessionsUp) /\ IsSeq(AddCertCatalogFieldsUp) BY <1>1, SeqIs
<1> QED BY <1>2 DEF AddCertIdToTestSessionsUp, AddCertCatalogFieldsUp, Range

LEMMA Backwards ==
    ASSUME NEW s, IsSeq(s)
    PROVE  IsSeq(Reverse(s)) /\ Range(Reverse(s)) = Range(s)
<1>1. Len(s) \in Nat /\ DOMAIN s = 1 .. Len(s) BY DEF IsSeq
<1>2. Reverse(s) = [i \in 1 .. Len(s) |-> s[(Len(s) - i) + 1]] BY DEF Reverse
<1>3. IsSeq(Reverse(s)) BY <1>1, <1>2, SeqIs
<1>4. \A i \in 1 .. Len(s) :
          (Len(s) - i) + 1 \in 1 .. Len(s) /\ (Len(s) - ((Len(s) - i) + 1)) + 1 = i
    BY <1>1
<1>5. Range(Reverse(s)) = Range(s)
    <2>1. \A i \in DOMAIN s : Reverse(s)[(Len(s) - i) + 1] = s[i] BY <1>1, <1>2, <1>4
    <2>2. \A i \in DOMAIN s : (Len(s) - i) + 1 \in DOMAIN Reverse(s) BY <1>1, <1>2, <1>4
    <2>3. \A i \in DOMAIN Reverse(s) :
              Reverse(s)[i] = s[(Len(s) - i) + 1] /\ (Len(s) - i) + 1 \in DOMAIN s
        BY <1>1, <1>2, <1>4
    <2> QED BY <2>1, <2>2, <2>3 DEF Range
<1> QED BY <1>3, <1>5

LEMMA InitialDown ==
    /\ IsSeq(InitialSchemaDown)
    /\ Range(InitialSchemaDown) =
           Each("DROP IF EXISTS", "trigger", DOMAIN TriggerOn)
               \cup Each("DROP IF EXISTS", "function",
                         {"set_cert_sequence", "audit_admin_action", "update_promo_usage_count",
                          "protect_super_admin_role", "check_rate_limit"})
               \cup Each("DROP IF EXISTS", "sequence", Range(CertSequences))
               \cup Each("DROP CASCADE", "table", Range(TablesDown))
               \cup Each("DROP IF EXISTS", "type", Range(EnumTypes))
<1> DEFINE triggers ==
               <<"trg_set_cert_sequence", "trg_audit_admin_users", "trg_audit_exams",
                 "trg_audit_certificates", "trg_update_promo_usage_count",
                 "trg_protect_super_admin">>
           functions ==
               <<"set_cert_sequence", "audit_admin_action", "update_promo_usage_count",
                 "protect_super_admin_role", "check_rate_limit">>
           a == All(DropIfExists, "trigger", triggers)
           b == All(DropIfExists, "function", functions)
           c == All(DropIfExists, "sequence", CertSequences)
           d == All(DropCascade, "table", TablesDown)
           e == All(DropIfExists, "type", EnumTypes)
<1>1. InitialSchemaDown = a \o b \o c \o d \o e BY DEF InitialSchemaDown
<1>2. IsSeq(triggers) /\ Range(triggers) = DOMAIN TriggerOn
    <2>1. DOMAIN triggers = 1 .. 6 /\ triggers = [k \in 1 .. 6 |-> triggers[k]] OBVIOUS
    <2>2. IsSeq(triggers) BY <2>1, SeqIs
    <2> QED BY <2>2 DEF Range, TriggerOn
<1>3. /\ IsSeq(functions)
      /\ Range(functions) = {"set_cert_sequence", "audit_admin_action",
              "update_promo_usage_count", "protect_super_admin_role", "check_rate_limit"}
    <2>1. DOMAIN functions = 1 .. 5 /\ functions = [k \in 1 .. 5 |-> functions[k]] OBVIOUS
    <2>2. IsSeq(functions) BY <2>1, SeqIs
    <2> QED BY <2>2 DEF Range
<1> HIDE DEF triggers, functions
<1>4. IsSeq(a) /\ Range(a) = Each("DROP IF EXISTS", "trigger", Range(triggers))
    BY <1>2, EachIs DEF All, DropIfExists
<1>5. IsSeq(b) /\ Range(b) = Each("DROP IF EXISTS", "function", Range(functions))
    BY <1>3, EachIs DEF All, DropIfExists
<1>6. IsSeq(c) /\ Range(c) = Each("DROP IF EXISTS", "sequence", Range(CertSequences))
    BY NameSeqs, EachIs DEF All, DropIfExists
<1>7. IsSeq(d) /\ Range(d) = Each("DROP CASCADE", "table", Range(TablesDown))
    BY NameSeqs, EachIs DEF All, DropCascade
<1>8. IsSeq(e) /\ Range(e) = Each("DROP IF EXISTS", "type", Range(EnumTypes))
    BY NameSeqs, EachIs DEF All, DropIfExists
<1> HIDE DEF a, b, c, d, e
<1>9. IsSeq(a \o b) /\ Range(a \o b) = Range(a) \cup Range(b) BY <1>4, <1>5, Concat
<1>10. IsSeq(a \o b \o c) /\ Range(a \o b \o c) = Range(a \o b) \cup Range(c)
    BY <1>9, <1>6, Concat
<1>11. IsSeq(a \o b \o c \o d) /\ Range(a \o b \o c \o d) = Range(a \o b \o c) \cup Range(d)
    BY <1>10, <1>7, Concat
<1>12. /\ IsSeq(InitialSchemaDown)
       /\ Range(InitialSchemaDown) = Range(a \o b \o c \o d) \cup Range(e)
    BY <1>1, <1>11, <1>8, Concat
<1> QED BY <1>2, <1>3, <1>4, <1>5, <1>6, <1>7, <1>8, <1>9, <1>10, <1>11, <1>12

LEMMA I18nDown ==
    /\ IsSeq(AddI18nSupportDown)
    /\ Range(AddI18nSupportDown) =
           {DropIfExists(<<"check", "admin_users">>), DropIfExists(<<"check", "users">>),
            DropCascade(<<"column", "admin_users", "locale">>)}
               \cup {DropIfExists(<<"index", t, "translations">>) : t \in Range(Searched)}
               \cup {DropCascade(<<"column", t, "translations">>) : t \in Range(Translatable)}
<1> DEFINE a == OnEach(DropIfExists, "index", Reverse(Searched), "translations")
           b == <<DropIfExists(<<"check", "admin_users">>), DropIfExists(<<"check", "users">>),
                  DropCascade(<<"column", "admin_users", "locale">>)>>
           c == OnEach(DropCascade, "column", Reverse(Translatable), "translations")
<1>1. PICK back : back = Reverse(Searched) OBVIOUS
<1>2. IsSeq(back) /\ Range(back) = Range(Searched) BY <1>1, NameSeqs, Backwards
<1>3. PICK forth : forth = Reverse(Translatable) OBVIOUS
<1>4. IsSeq(forth) /\ Range(forth) = Range(Translatable) BY <1>3, NameSeqs, Backwards
<1>5. /\ IsSeq(a)
      /\ Range(a) = {DropIfExists(<<"index", t, "translations">>) : t \in Range(back)}
    <2>1. a = [i \in DOMAIN back |-> DropIfExists(<<"index", back[i], "translations">>)]
        BY <1>1 DEF OnEach
    <2>2. Len(back) \in Nat /\ DOMAIN back = 1 .. Len(back) BY <1>2 DEF IsSeq
    <2> HIDE DEF a
    <2>3. IsSeq(a) BY <2>1, <2>2, SeqIs
    <2> QED BY <2>1, <2>3 DEF Range
<1>6. /\ IsSeq(b)
      /\ Range(b) = {DropIfExists(<<"check", "admin_users">>), DropIfExists(<<"check", "users">>),
                     DropCascade(<<"column", "admin_users", "locale">>)}
    <2>1. DOMAIN b = 1 .. 3 /\ b = [k \in 1 .. 3 |-> b[k]] OBVIOUS
    <2>2. IsSeq(b) BY <2>1, SeqIs
    <2> QED BY <2>2 DEF Range
<1>7. /\ IsSeq(c)
      /\ Range(c) = {DropCascade(<<"column", t, "translations">>) : t \in Range(forth)}
    <2>1. c = [i \in DOMAIN forth |-> DropCascade(<<"column", forth[i], "translations">>)]
        BY <1>3 DEF OnEach
    <2>2. Len(forth) \in Nat /\ DOMAIN forth = 1 .. Len(forth) BY <1>4 DEF IsSeq
    <2> HIDE DEF c
    <2>3. IsSeq(c) BY <2>1, <2>2, SeqIs
    <2> QED BY <2>1, <2>3 DEF Range
<1>8. AddI18nSupportDown = a \o b \o c BY DEF AddI18nSupportDown
<1> HIDE DEF a, b, c
<1>9. IsSeq(a \o b) /\ Range(a \o b) = Range(a) \cup Range(b) BY <1>5, <1>6, Concat
<1>10. IsSeq(AddI18nSupportDown) /\ Range(AddI18nSupportDown) = Range(a \o b) \cup Range(c)
    BY <1>8, <1>9, <1>7, Concat
<1> QED BY <1>2, <1>4, <1>5, <1>6, <1>7, <1>9, <1>10

LEMMA LaterDowns ==
    /\ IsSeq(AddCertIdToTestSessionsDown)
    /\ Range(AddCertIdToTestSessionsDown) =
           {DropIfExists(<<"index", "test_sessions", "cert_id">>),
            DropCascade(<<"column", "test_sessions", "cert_id">>)}
    /\ IsSeq(AddCertCatalogFieldsDown)
    /\ Range(AddCertCatalogFieldsDown) =
           {DropCascade(<<"column", "certificates", "level">>),
            Drop(<<"type", "certificates_level_enum">>)}
<1>1. /\ DOMAIN AddCertIdToTestSessionsDown = 1 .. 2
      /\ AddCertIdToTestSessionsDown = [k \in 1 .. 2 |-> AddCertIdToTestSessionsDown[k]]
      /\ DOMAIN AddCertCatalogFieldsDown = 1 .. 2
      /\ AddCertCatalogFieldsDown = [k \in 1 .. 2 |-> AddCertCatalogFieldsDown[k]]
    BY DEF AddCertIdToTestSessionsDown, AddCertCatalogFieldsDown
<1>2. IsSeq(AddCertIdToTestSessionsDown) /\ IsSeq(AddCertCatalogFieldsDown) BY <1>1, SeqIs
<1> QED BY <1>2 DEF AddCertIdToTestSessionsDown, AddCertCatalogFieldsDown, Range

\* Statement s of a down() removes object x, itself or with what it drops.
Removes(s, x) ==
    s.object = x \/ (s.op = "DROP CASCADE" /\ s.object \in Needs(x) /\ x[1] # "table")

Drops(s) == \E o : s = Drop(o) \/ s = DropIfExists(o) \/ s = DropCascade(o)

LEMMA DropIs ==
    ASSUME NEW objs, NEW o
    PROVE  /\ After(objs, Drop(o)) = {x \in objs : ~Removes(Drop(o), x)}
           /\ After(objs, DropIfExists(o)) = {x \in objs : ~Removes(DropIfExists(o), x)}
           /\ After(objs, DropCascade(o)) = {x \in objs : ~Removes(DropCascade(o), x)}
<1>1. After(objs, Drop(o)) = {x \in objs : ~Removes(Drop(o), x)}
    BY DEF After, Drop, Removes
<1>2. After(objs, DropIfExists(o)) = {x \in objs : ~Removes(DropIfExists(o), x)}
    BY DEF After, DropIfExists, Removes
<1>3. After(objs, DropCascade(o)) = {x \in objs : ~Removes(DropCascade(o), x)}
    <2>1. After(objs, DropCascade(o)) = objs \ ({o} \cup Swept(objs, o))
        BY DEF After, DropCascade
    <2>2. DropCascade(o).object = o /\ DropCascade(o).op = "DROP CASCADE" BY DEF DropCascade
    <2>3. Swept(objs, o) = {x \in objs : o \in Needs(x) /\ x[1] # "table"}
        BY DEF Swept, Dependents
    <2> QED BY <2>1, <2>2, <2>3 DEF Removes
<1> QED BY <1>1, <1>2, <1>3

\* What the statements of a down() leave.
LEMMA RevertedIs ==
    ASSUME applied \in 1 .. Len(Migrations), IsSeq(Migrations[applied].down),
           \A s \in Range(Migrations[applied].down) : Drops(s)
    PROVE  Reverted.objects =
               {x \in objects : \A s \in Range(Migrations[applied].down) : ~Removes(s, x)}
<1> DEFINE down == Migrations[applied].down
           N == Len(down)
           Eq(f, m) == f = [n \in 0 .. m |->
                               IF n = 0 THEN [objects |-> objects, ok |-> TRUE]
                               ELSE Undone(f[n - 1], down[n])]
<1>1. N \in Nat /\ DOMAIN down = 1 .. N BY DEF IsSeq
<1> DEFINE M == {m \in 0 .. N : \E f : Eq(f, m)}
<1>2. 0 \in M
    <2> DEFINE f == [n \in 0 .. 0 |-> [objects |-> objects, ok |-> TRUE]]
    <2>1. Eq(f, 0) OBVIOUS
    <2> HIDE DEF f
    <2> QED BY <2>1, <1>1
<1>3. ASSUME NEW k \in 1 .. N, k - 1 \in M PROVE k \in M
    <2>1. PICK g : Eq(g, k - 1) BY <1>3
    <2> HIDE DEF down
    <2> DEFINE f == [n \in 0 .. k |-> IF n < k THEN g[n] ELSE Undone(g[k - 1], down[k])]
    <2>2. \A n \in 0 .. k - 1 :
              g[n] = IF n = 0 THEN [objects |-> objects, ok |-> TRUE]
                     ELSE Undone(g[n - 1], down[n])
        BY <2>1
    <2>3. \A n \in 0 .. k :
              f[n] = IF n = 0 THEN [objects |-> objects, ok |-> TRUE]
                     ELSE Undone(f[n - 1], down[n])
        <3> SUFFICES ASSUME NEW n \in 0 .. k
                     PROVE f[n] = IF n = 0 THEN [objects |-> objects, ok |-> TRUE]
                                  ELSE Undone(f[n - 1], down[n])
            OBVIOUS
        <3>1. k \in Nat /\ k # 0 /\ k - 1 \in 0 .. k OBVIOUS
        <3>2. CASE n < k
            <4>1. f[n] = g[n] BY <3>2
            <4>2. n # 0 => f[n - 1] = g[n - 1] BY <3>2
            <4>3. n \in 0 .. k - 1 BY <3>2
            <4> HIDE DEF f
            <4> QED BY <2>2, <4>1, <4>2, <4>3
        <3>3. CASE n = k
            <4>1. f[n] = Undone(g[k - 1], down[k]) BY <3>3
            <4>2. f[n - 1] = g[k - 1] BY <3>1, <3>3
            <4> HIDE DEF f
            <4> QED BY <3>1, <3>3, <4>1, <4>2
        <3> QED BY <3>2, <3>3
    <2>4. Eq(f, k) BY <2>3
    <2>5. k \in 0 .. N BY <1>1
    <2> HIDE DEF f
    <2> QED BY <2>4, <2>5
<1>4. \E f : Eq(f, N)
    <2> HIDE DEF M
    <2>1. N \in M BY <1>1, <1>2, <1>3, Climbs
    <2> QED BY <2>1 DEF M
<1> DEFINE f == CHOOSE g : Eq(g, N)
<1>5. Eq(f, N) BY <1>4
<1>6. Reverted = f[N] BY DEF Reverted
<1> HIDE DEF f
<1>7. /\ f[0] = [objects |-> objects, ok |-> TRUE]
      /\ \A n \in 1 .. N : f[n] = Undone(f[n - 1], down[n])
    <2> HIDE DEF down
    <2>1. \A n \in 0 .. N : f[n] = IF n = 0 THEN [objects |-> objects, ok |-> TRUE]
                                   ELSE Undone(f[n - 1], down[n])
        BY <1>5
    <2>2. 0 \in 0 .. N /\ \A n \in 1 .. N : n \in 0 .. N /\ n # 0 BY <1>1
    <2> QED BY <2>1, <2>2
<1> DEFINE left(k) == {x \in objects : \A l \in 1 .. k : ~Removes(down[l], x)}
           S == {k \in 0 .. N : f[k].objects = left(k)}
<1>8. 0 \in S
    <2>1. f[0].objects = objects BY <1>7
    <2>2. left(0) = objects OBVIOUS
    <2> QED BY <2>1, <2>2, <1>1
<1>9. ASSUME NEW k \in 1 .. N, k - 1 \in S PROVE k \in S
    <2>1. Drops(down[k]) BY <1>1 DEF Range
    <2> HIDE DEF down
    <2>2. f[k].objects = After(f[k - 1].objects, down[k])
        <3>1. f[k] = Undone(f[k - 1], down[k]) BY <1>7
        <3>2. Undone(f[k - 1], down[k]).objects = After(f[k - 1].objects, down[k])
            BY DEF Undone
        <3> QED BY <3>1, <3>2
    <2>3. f[k].objects = {x \in f[k - 1].objects : ~Removes(down[k], x)}
        <3>1. PICK o : down[k] = Drop(o) \/ down[k] = DropIfExists(o) \/ down[k] = DropCascade(o)
            BY <2>1 DEF Drops
        <3> QED BY <2>2, <3>1, DropIs
    <2>4. f[k - 1].objects = left(k - 1) BY <1>9
    <2>5. \A l : l \in 1 .. k <=> l \in 1 .. k - 1 \/ l = k BY <1>1
    <2>6. f[k].objects = left(k) BY <2>3, <2>4, <2>5
    <2> QED BY <2>6, <1>1
<1>10. N \in S
    <2> HIDE DEF S
    <2> QED BY <1>1, <1>8, <1>9, Climbs
<1>11. left(N) = {x \in objects : \A s \in Range(down) : ~Removes(s, x)}
    BY <1>1 DEF Range
<1> QED BY <1>6, <1>10, <1>11

LEMMA MigrationsAre ==
    /\ Len(Migrations) = 4 /\ DOMAIN Migrations = 1 .. 4
    /\ Migrations[1].up = InitialSchemaUp /\ Migrations[1].down = InitialSchemaDown
    /\ Migrations[2].up = AddI18nSupportUp /\ Migrations[2].down = AddI18nSupportDown
    /\ Migrations[3].up = AddCertIdToTestSessionsUp
    /\ Migrations[3].down = AddCertIdToTestSessionsDown
    /\ Migrations[4].up = AddCertCatalogFieldsUp
    /\ Migrations[4].down = AddCertCatalogFieldsDown
BY DEF Migrations

LEMMA UpsAre == \A m \in 1 .. 4 : IsSeq(Migrations[m].up)
<1>1. \A m \in 1 .. 4 : m = 1 \/ m = 2 \/ m = 3 \/ m = 4 OBVIOUS
<1> QED BY <1>1, MigrationsAre, InitialUp, I18nUp, LaterUps

LEMMA DownsAre ==
    \A m \in 1 .. 4 :
        IsSeq(Migrations[m].down) /\ \A s \in Range(Migrations[m].down) : Drops(s)
<1>1. \A m \in 1 .. 4 : m = 1 \/ m = 2 \/ m = 3 \/ m = 4 OBVIOUS
<1>2. \A s \in Range(InitialSchemaDown) : Drops(s)
    <2>1. ASSUME NEW names, NEW kind
          PROVE  /\ \A s \in Each("DROP IF EXISTS", kind, names) : Drops(s)
                 /\ \A s \in Each("DROP CASCADE", kind, names) : Drops(s)
        BY DEF Each, Drops, DropIfExists, DropCascade
    <2> QED BY <2>1, InitialDown
<1>3. \A s \in Range(AddI18nSupportDown) : Drops(s) BY I18nDown DEF Drops
<1>4. \A s \in Range(AddCertIdToTestSessionsDown) : Drops(s) BY LaterDowns DEF Drops
<1>5. \A s \in Range(AddCertCatalogFieldsDown) : Drops(s) BY LaterDowns DEF Drops
<1> QED BY <1>1, <1>2, <1>3, <1>4, <1>5, MigrationsAre, InitialDown, I18nDown, LaterDowns

LEMMA CreatedIs ==
    ASSUME NEW m \in 1 .. 4
    PROVE  CreatedBy(m) = {s.object : s \in Range(Migrations[m].up)}
BY DEF CreatedBy, Range

FunctionNames == {"check_rate_limit", "protect_super_admin_role", "update_promo_usage_count",
              "audit_admin_action", "set_cert_sequence"}

\* What the first migration creates.
LEMMA CreatedFirst ==
    ASSUME NEW x \in CreatedBy(1)
    PROVE  \/ x = <<"extension", "pgcrypto">>
           \/ \E n \in Range(EnumTypes) : x = <<"type", n>>
           \/ \E n \in Range(TablesUp) : x = <<"table", n>>
           \/ \E n \in Range(Policies) : x = <<"policy", n>>
           \/ \E n \in Range(CertSequences) : x = <<"sequence", n>>
           \/ \E n \in FunctionNames : x = <<"function", n>>
           \/ \E n \in DOMAIN TriggerOn : x = <<"trigger", n>>
<1>1. PICK s \in Range(InitialSchemaUp) : x = s.object BY CreatedIs, MigrationsAre
<1>2. ASSUME NEW op, NEW kind, NEW names, NEW q \in Each(op, kind, names)
      PROVE  \E n \in names : q.object = <<kind, n>>
    BY DEF Each
<1>o. \A o : CreateOrReplace(o).object = o /\ Create(o).object = o
    BY DEF CreateOrReplace, CreateIfNotExists, Create
<1>3. \A q \in Range(FunctionsAndTriggers) :
          \/ \E n \in FunctionNames : q.object = <<"function", n>>
          \/ \E n \in DOMAIN TriggerOn : q.object = <<"trigger", n>>
    <2>1. Range(FunctionsAndTriggers) =
              {CreateOrReplace(<<"function", n>>) : n \in FunctionNames}
                  \cup {Create(<<"trigger", n>>) : n \in DOMAIN TriggerOn}
        <3>1. DOMAIN TriggerOn = {"trg_protect_super_admin", "trg_update_promo_usage_count",
                  "trg_audit_certificates", "trg_audit_exams", "trg_audit_admin_users",
                  "trg_set_cert_sequence"}
            BY DEF TriggerOn
        <3> QED BY <3>1 DEF FunctionsAndTriggers, Range, FunctionNames
    <2>2. \A n : CreateOrReplace(<<"function", n>>).object = <<"function", n>> BY <1>o
    <2>3. \A n : Create(<<"trigger", n>>).object = <<"trigger", n>> BY <1>o
    <2> QED BY <2>1, <2>2, <2>3
<1>4. CreateIfNotExists(<<"extension", "pgcrypto">>).object = <<"extension", "pgcrypto">>
    BY DEF CreateIfNotExists
<1>5. CASE s = CreateIfNotExists(<<"extension", "pgcrypto">>) BY <1>1, <1>4, <1>5
<1>6. CASE s \in Each("CREATE", "type", Range(EnumTypes)) BY <1>1, <1>2, <1>6
<1>7. CASE s \in Each("CREATE", "table", Range(TablesUp)) BY <1>1, <1>2, <1>7
<1>8. CASE s \in Each("CREATE", "policy", Range(Policies)) BY <1>1, <1>2, <1>8
<1>9. CASE s \in {CreateIfNotExists(<<"sequence", n>>) : n \in Range(CertSequences)}
    <2>1. \A o : CreateIfNotExists(o).object = o BY DEF CreateIfNotExists
    <2> QED BY <1>1, <1>9, <2>1
<1>10. CASE s \in Range(FunctionsAndTriggers) BY <1>1, <1>3, <1>10
<1> QED BY <1>1, <1>5, <1>6, <1>7, <1>8, <1>9, <1>10, InitialUp

LEMMA CreatedLater ==
    /\ \A x \in CreatedBy(2) :
           \/ x = <<"extension", "pg_trgm">> \/ x = <<"column", "admin_users", "locale">>
           \/ x = <<"check", "users">> \/ x = <<"check", "admin_users">>
           \/ \E t \in Range(Translatable) : x = <<"column", t, "translations">>
           \/ \E t \in Range(Searched) : x = <<"index", t, "translations">>
    /\ \A x \in CreatedBy(3) :
           \/ x = <<"column", "test_sessions", "cert_id">>
           \/ x = <<"index", "test_sessions", "cert_id">>
    /\ \A x \in CreatedBy(4) :
           \/ x = <<"type", "certificates_level_enum">>
           \/ x = <<"column", "certificates", "level">>
<1>1. \A o : CreateIfNotExists(o).object = o /\ Create(o).object = o
    BY DEF CreateIfNotExists, Create
<1>2. ASSUME NEW op, NEW kind, NEW tables, NEW name, NEW q \in EachOn(op, kind, tables, name)
      PROVE  \E t \in tables : q.object = <<kind, t, name>>
    BY DEF EachOn
<1>3. ASSUME NEW x \in CreatedBy(2)
      PROVE  \/ x = <<"extension", "pg_trgm">> \/ x = <<"column", "admin_users", "locale">>
             \/ x = <<"check", "users">> \/ x = <<"check", "admin_users">>
             \/ \E t \in Range(Translatable) : x = <<"column", t, "translations">>
             \/ \E t \in Range(Searched) : x = <<"index", t, "translations">>
    <2>1. PICK s \in Range(AddI18nSupportUp) : x = s.object BY CreatedIs, MigrationsAre
    <2> QED BY <1>1, <1>2, <2>1, I18nUp
<1>4. ASSUME NEW x \in CreatedBy(3)
      PROVE  \/ x = <<"column", "test_sessions", "cert_id">>
             \/ x = <<"index", "test_sessions", "cert_id">>
    <2>1. PICK s \in Range(AddCertIdToTestSessionsUp) : x = s.object BY CreatedIs, MigrationsAre
    <2> QED BY <1>1, <2>1, LaterUps
<1>5. ASSUME NEW x \in CreatedBy(4)
      PROVE  \/ x = <<"type", "certificates_level_enum">>
             \/ x = <<"column", "certificates", "level">>
    <2>1. PICK s \in Range(AddCertCatalogFieldsUp) : x = s.object BY CreatedIs, MigrationsAre
    <2> QED BY <1>1, <2>1, LaterUps
<1> QED BY <1>3, <1>4, <1>5

\* Only a check and an index need a column.
LEMMA NeedsColumn ==
    ASSUME NEW x, NEW t, NEW c, <<"column", t, c>> \in Needs(x)
    PROVE  (x[1] = "check" /\ c = "locale") \/ (x[1] = "index" /\ c = x[3])
<1>1. CASE x[1] = "table" BY <1>1 DEF Needs
<1>2. CASE x[1] = "trigger" BY <1>2 DEF Needs
<1>3. CASE x[1] = "policy" BY <1>3 DEF Needs
<1>4. CASE x[1] = "column" BY <1>4 DEF Needs
<1>5. CASE x[1] = "check"
    <2>1. Needs(x) \subseteq {<<"table", x[2]>>, <<"column", x[2], "locale">>} BY <1>5 DEF Needs
    <2>2. <<"column", t, c>> # <<"table", x[2]>> OBVIOUS
    <2>3. <<"column", t, c>> = <<"column", x[2], "locale">> BY <2>1, <2>2
    <2>4. c = "locale" BY <2>3
    <2> QED BY <1>5, <2>4
<1>6. CASE x[1] = "index" BY <1>6 DEF Needs
<1>7. CASE x[1] \notin {"table", "trigger", "policy", "column", "check", "index"}
    BY <1>7 DEF Needs
<1> QED BY <1>1, <1>2, <1>3, <1>4, <1>5, <1>6, <1>7

LEMMA NeedsOfPolicy ==
    ASSUME NEW n
    PROVE  <<"table", PolicyOn[n]>> \in Needs(<<"policy", n>>)
BY DEF Needs

LEMMA RemovesIs ==
    ASSUME NEW o, NEW x
    PROVE  /\ Removes(Drop(o), x) <=> o = x
           /\ Removes(DropIfExists(o), x) <=> o = x
           /\ Removes(DropCascade(o), x) <=> o = x \/ (o \in Needs(x) /\ x[1] # "table")
<1>1. /\ Drop(o).object = o /\ Drop(o).op # "DROP CASCADE"
      /\ DropIfExists(o).object = o /\ DropIfExists(o).op # "DROP CASCADE"
      /\ DropCascade(o).object = o /\ DropCascade(o).op = "DROP CASCADE"
    BY DEF Drop, DropIfExists, DropCascade
<1> QED BY <1>1 DEF Removes

LEMMA InitialDrops ==
    /\ \A n \in Range(EnumTypes) : DropIfExists(<<"type", n>>) \in Range(InitialSchemaDown)
    /\ \A n \in Range(TablesDown) : DropCascade(<<"table", n>>) \in Range(InitialSchemaDown)
    /\ \A n \in Range(CertSequences) :
           DropIfExists(<<"sequence", n>>) \in Range(InitialSchemaDown)
    /\ \A n \in FunctionNames : DropIfExists(<<"function", n>>) \in Range(InitialSchemaDown)
    /\ \A n \in DOMAIN TriggerOn : DropIfExists(<<"trigger", n>>) \in Range(InitialSchemaDown)
<1>1. ASSUME NEW names, NEW n \in names, NEW kind
      PROVE  /\ DropIfExists(<<kind, n>>) \in Each("DROP IF EXISTS", kind, names)
             /\ DropCascade(<<kind, n>>) \in Each("DROP CASCADE", kind, names)
    BY DEF Each, DropIfExists, DropCascade
<1>2. FunctionNames = {"set_cert_sequence", "audit_admin_action", "update_promo_usage_count",
                       "protect_super_admin_role", "check_rate_limit"}
    BY DEF FunctionNames
<1> QED BY <1>1, <1>2, InitialDown

LEMMA TablesDropped ==
    /\ \A n \in Range(TablesUp) : n \in Range(TablesDown)
    /\ \A n \in Range(Policies) : PolicyOn[n] \in Range(TablesDown)
<1>1. Range(TablesDown) = {"auth_tokens", "blog_articles", "rate_limit_blocks", "refresh_tokens",
      "notification_queue", "notification_templates", "admin_audit_logs",
      "processed_webhooks", "issued_certificates", "transactions",
      "student_progress", "student_purchases", "test_sessions", "exam_attempts",
      "exam_access_codes", "exam_question_options", "exam_questions", "exams",
      "quiz_questions", "lesson_quizzes", "lessons", "learning_modules",
      "promo_codes", "certificates", "admin_users", "users"}
    BY DEF TablesDown, Range
<1>2. \A n \in Range(TablesUp) : n \in Range(TablesDown)
    BY <1>1 DEF TablesUp, Range
<1>3. /\ PolicyOn["student_purchases_isolation"] = "student_purchases"
      /\ PolicyOn["exam_attempts_isolation"] = "exam_attempts"
      /\ PolicyOn["issued_certificates_isolation"] = "issued_certificates"
      /\ PolicyOn["transactions_isolation"] = "transactions"
      /\ PolicyOn["admin_audit_logs_deny_select"] = "admin_audit_logs"
      /\ PolicyOn["admin_audit_logs_allow_insert"] = "admin_audit_logs"
    BY DEF PolicyOn
<1>4. Range(Policies) = {"student_purchases_isolation", "exam_attempts_isolation",
          "issued_certificates_isolation", "transactions_isolation",
          "admin_audit_logs_deny_select", "admin_audit_logs_allow_insert"}
    BY DEF Policies, Range
<1> QED BY <1>1, <1>2, <1>3, <1>4

\* The down() of migration m removes what its up() created, but an extension,
Undoes(m) ==
    \A x \in CreatedBy(m) \ Extensions : \E s \in Range(Migrations[m].down) : Removes(s, x)

\* and nothing an earlier one did.
Spares(m) ==
    \A x \in SchemaAfter[m - 1] : \A s \in Range(Migrations[m].down) : ~Removes(s, x)

LEMMA FirstUndone == Undoes(1) /\ Spares(1)
<1>1. SchemaAfter[0] = {} BY MigrationsAre DEF SchemaAfter
<1>2. Spares(1) BY <1>1 DEF Spares
<1>3. ASSUME NEW x \in CreatedBy(1), x \notin Extensions
      PROVE  \E s \in Range(InitialSchemaDown) : Removes(s, x)
    <2>1. CASE x = <<"extension", "pgcrypto">> BY <1>3, <2>1 DEF Extensions
    <2>2. CASE \E n \in Range(EnumTypes) : x = <<"type", n>>
        BY <2>2, InitialDrops, RemovesIs
    <2>3. CASE \E n \in Range(TablesUp) : x = <<"table", n>>
        BY <2>3, InitialDrops, RemovesIs, TablesDropped
    <2>4. CASE \E n \in Range(Policies) : x = <<"policy", n>>
        <3>1. PICK n \in Range(Policies) : x = <<"policy", n>> BY <2>4
        <3>2. DropCascade(<<"table", PolicyOn[n]>>) \in Range(InitialSchemaDown)
            BY InitialDrops, TablesDropped
        <3>3. <<"table", PolicyOn[n]>> \in Needs(x) /\ x[1] # "table"
            BY <3>1, NeedsOfPolicy
        <3>4. Removes(DropCascade(<<"table", PolicyOn[n]>>), x) BY <3>3, RemovesIs
        <3> QED BY <3>2, <3>4
    <2>5. CASE \E n \in Range(CertSequences) : x = <<"sequence", n>>
        BY <2>5, InitialDrops, RemovesIs
    <2>6. CASE \E n \in FunctionNames : x = <<"function", n>>
        BY <2>6, InitialDrops, RemovesIs
    <2>7. CASE \E n \in DOMAIN TriggerOn : x = <<"trigger", n>>
        BY <2>7, InitialDrops, RemovesIs
    <2> QED BY <2>1, <2>2, <2>3, <2>4, <2>5, <2>6, <2>7, CreatedFirst
<1> QED BY <1>2, <1>3, MigrationsAre DEF Undoes

LEMMA LaterUndone == Undoes(2) /\ Undoes(3) /\ Undoes(4)
<1>1. ASSUME NEW x \in CreatedBy(2), x \notin Extensions
      PROVE  \E s \in Range(AddI18nSupportDown) : Removes(s, x)
    <2>1. CASE x = <<"extension", "pg_trgm">> BY <1>1, <2>1 DEF Extensions
    <2>2. CASE x = <<"column", "admin_users", "locale">>
        <3>1. DropCascade(x) \in Range(AddI18nSupportDown) BY <2>2, I18nDown
        <3> QED BY <3>1, RemovesIs
    <2>3. CASE x = <<"check", "users">>
        <3>1. DropIfExists(x) \in Range(AddI18nSupportDown) BY <2>3, I18nDown
        <3> QED BY <3>1, RemovesIs
    <2>4. CASE x = <<"check", "admin_users">>
        <3>1. DropIfExists(x) \in Range(AddI18nSupportDown) BY <2>4, I18nDown
        <3> QED BY <3>1, RemovesIs
    <2>5. CASE \E t \in Range(Translatable) : x = <<"column", t, "translations">>
        <3>1. PICK t \in Range(Translatable) : x = <<"column", t, "translations">> BY <2>5
        <3>2. DropCascade(x) \in Range(AddI18nSupportDown) BY <3>1, I18nDown
        <3> QED BY <3>2, RemovesIs
    <2>6. CASE \E t \in Range(Searched) : x = <<"index", t, "translations">>
        <3>1. PICK t \in Range(Searched) : x = <<"index", t, "translations">> BY <2>6
        <3>2. DropIfExists(x) \in Range(AddI18nSupportDown) BY <3>1, I18nDown
        <3> QED BY <3>2, RemovesIs
    <2> QED BY <2>1, <2>2, <2>3, <2>4, <2>5, <2>6, CreatedLater
<1>2. ASSUME NEW x \in CreatedBy(3)
      PROVE  \E s \in Range(AddCertIdToTestSessionsDown) : Removes(s, x)
    BY CreatedLater, LaterDowns, RemovesIs
<1>3. ASSUME NEW x \in CreatedBy(4)
      PROVE  \E s \in Range(AddCertCatalogFieldsDown) : Removes(s, x)
    BY CreatedLater, LaterDowns, RemovesIs
<1> QED BY <1>1, <1>2, <1>3, MigrationsAre DEF Undoes

\* The kinds of objects the first migration creates, the columns of the second.
LEMMA FirstKinds ==
    \A x \in CreatedBy(1) :
        /\ x[1] \notin {"column", "index", "check"}
        /\ x # <<"type", "certificates_level_enum">>
<1>1. \A n \in Range(EnumTypes) : n # "certificates_level_enum" BY DEF EnumTypes, Range
<1> QED BY <1>1, CreatedFirst

LEMMA LaterKinds ==
    /\ \A x \in CreatedBy(2) :
           /\ x[1] \in {"column", "index"} => x[3] \in {"translations", "locale"}
           /\ x[1] # "type"
    /\ \A x \in CreatedBy(3) : x[1] # "type" /\ x[3] = "cert_id"
BY CreatedLater

LEMMA SchemaOf ==
    /\ SchemaAfter[0] = {}
    /\ \A n \in 1 .. 4 : SchemaAfter[n] = SchemaAfter[n - 1] \cup CreatedBy(n)
    /\ \A n \in 0 .. 4 : \A m \in n .. 4 : SchemaAfter[n] \subseteq SchemaAfter[m]
<1>1. \A n \in 0 .. 4 : SchemaAfter[n] = UNION {CreatedBy(m) : m \in 1 .. n}
    BY MigrationsAre DEF SchemaAfter
<1>2. SchemaAfter[0] = {} BY <1>1
<1>3. ASSUME NEW n \in 1 .. 4 PROVE SchemaAfter[n] = SchemaAfter[n - 1] \cup CreatedBy(n)
    <2>1. \A m : m \in 1 .. n <=> m \in 1 .. n - 1 \/ m = n OBVIOUS
    <2>2. n \in 0 .. 4 /\ n - 1 \in 0 .. 4 OBVIOUS
    <2> QED BY <1>1, <2>1, <2>2
<1>4. ASSUME NEW n \in 0 .. 4, NEW m \in n .. 4 PROVE SchemaAfter[n] \subseteq SchemaAfter[m]
    <2>1. \A k \in 1 .. n : k \in 1 .. m OBVIOUS
    <2>2. m \in 0 .. 4 OBVIOUS
    <2> QED BY <1>1, <2>1, <2>2
<1> QED BY <1>2, <1>3, <1>4

LEMMA I18nSpares == Spares(2)
<1> SUFFICES ASSUME NEW x \in SchemaAfter[1], NEW s \in Range(AddI18nSupportDown),
                    Removes(s, x)
             PROVE  FALSE
    BY MigrationsAre DEF Spares
<1>1. x[1] \notin {"column", "index", "check"} BY SchemaOf, FirstKinds
<1>2. ASSUME NEW o, o[1] \in {"index", "check"} PROVE s # DropIfExists(o)
    BY <1>1, <1>2, RemovesIs
<1>3. ASSUME NEW t, NEW c PROVE s # DropCascade(<<"column", t, c>>)
    <2> SUFFICES ASSUME s = DropCascade(<<"column", t, c>>) PROVE FALSE OBVIOUS
    <2>1. x # <<"column", t, c>> BY <1>1
    <2>2. <<"column", t, c>> \in Needs(x) BY <2>1, RemovesIs
    <2> QED BY <1>1, <2>2, NeedsColumn
<1>4. s # DropIfExists(<<"check", "admin_users">>) /\ s # DropIfExists(<<"check", "users">>)
    BY <1>2
<1>5. \A t : s # DropIfExists(<<"index", t, "translations">>) BY <1>2
<1> QED BY <1>3, <1>4, <1>5, I18nDown

LEMMA LaterSpares == Spares(3) /\ Spares(4)
<1>1. /\ SchemaAfter[1] = CreatedBy(1)
      /\ SchemaAfter[2] = CreatedBy(1) \cup CreatedBy(2)
      /\ SchemaAfter[3] = CreatedBy(1) \cup CreatedBy(2) \cup CreatedBy(3)
    BY SchemaOf
\* No column or index of an earlier migration has the name, and none hangs on it.
<1>2. ASSUME NEW x, NEW t, NEW c, c # "locale",
             x[1] \in {"column", "index"} => x[3] # c
      PROVE  ~Removes(DropCascade(<<"column", t, c>>), x)
    <2> SUFFICES ASSUME Removes(DropCascade(<<"column", t, c>>), x) PROVE FALSE OBVIOUS
    <2>1. x # <<"column", t, c>>
        <3> SUFFICES ASSUME x = <<"column", t, c>> PROVE FALSE OBVIOUS
        <3>1. x[1] = "column" /\ x[3] = c OBVIOUS
        <3> QED BY <3>1, <1>2
    <2>2. <<"column", t, c>> \in Needs(x) BY <2>1, RemovesIs
    <2>3. (x[1] = "check" /\ c = "locale") \/ (x[1] = "index" /\ c = x[3])
        BY <2>2, NeedsColumn
    <2> QED BY <1>2, <2>3
<1>3. ASSUME NEW x \in SchemaAfter[2] PROVE x[1] \in {"column", "index"} => x[3] # "cert_id"
    BY <1>1, FirstKinds, LaterKinds
<1>4. ASSUME NEW x \in SchemaAfter[3]
      PROVE  /\ x[1] \in {"column", "index"} => x[3] # "level"
             /\ x # <<"type", "certificates_level_enum">>
    <2>1. \A y \in CreatedBy(2) \cup CreatedBy(3) : y # <<"type", "certificates_level_enum">>
        BY LaterKinds
    <2> QED BY <1>1, <2>1, FirstKinds, LaterKinds
<1>5. Spares(3)
    <2> SUFFICES ASSUME NEW x \in SchemaAfter[2], NEW s \in Range(AddCertIdToTestSessionsDown)
                 PROVE  ~Removes(s, x)
        BY MigrationsAre DEF Spares
    <2>1. x # <<"index", "test_sessions", "cert_id">>
        <3> SUFFICES ASSUME x = <<"index", "test_sessions", "cert_id">> PROVE FALSE OBVIOUS
        <3>1. x[1] = "index" /\ x[3] = "cert_id" OBVIOUS
        <3> QED BY <3>1, <1>3
    <2>2. ~Removes(DropIfExists(<<"index", "test_sessions", "cert_id">>), x)
        BY <2>1, RemovesIs
    <2>3. ~Removes(DropCascade(<<"column", "test_sessions", "cert_id">>), x)
        BY <1>2, <1>3
    <2> QED BY <2>2, <2>3, LaterDowns
<1>6. Spares(4)
    <2> SUFFICES ASSUME NEW x \in SchemaAfter[3], NEW s \in Range(AddCertCatalogFieldsDown)
                 PROVE  ~Removes(s, x)
        BY MigrationsAre DEF Spares
    <2>1. ~Removes(Drop(<<"type", "certificates_level_enum">>), x) BY <1>4, RemovesIs
    <2>2. ~Removes(DropCascade(<<"column", "certificates", "level">>), x) BY <1>2, <1>4
    <2> QED BY <2>1, <2>2, LaterDowns
<1> QED BY <1>5, <1>6

LEMMA PendingIs ==
    /\ PendingAfter[4] = <<>>
    /\ \A n \in 0 .. 3 : PendingAfter[n] = Migrations[n + 1].up \o PendingAfter[n + 1]
<1> DEFINE p3 == Migrations[4].up \o <<>>
           p2 == Migrations[3].up \o p3
           p1 == Migrations[2].up \o p2
           p0 == Migrations[1].up \o p1
           f == [n \in 0 .. 4 |-> IF n = 4 THEN <<>> ELSE IF n = 3 THEN p3 ELSE IF n = 2 THEN p2
                                  ELSE IF n = 1 THEN p1 ELSE p0]
           Eq(g) == g = [n \in 0 .. Len(Migrations) |->
                            IF n = Len(Migrations) THEN <<>>
                            ELSE Migrations[n + 1].up \o g[n + 1]]
<1>1. Len(Migrations) = 4 BY MigrationsAre
<1>2. f[4] = <<>> /\ f[3] = p3 /\ f[2] = p2 /\ f[1] = p1 /\ f[0] = p0
    <2> HIDE DEF p0, p1, p2, p3
    <2> QED OBVIOUS
<1>3. Eq(f)
    <2> SUFFICES \A n \in 0 .. 4 : f[n] = IF n = 4 THEN <<>> ELSE Migrations[n + 1].up \o f[n + 1]
        BY <1>1
    <2>1. \A n \in 0 .. 4 : n = 4 \/ n = 3 \/ n = 2 \/ n = 1 \/ n = 0 OBVIOUS
    <2>2. /\ p3 = Migrations[4].up \o f[4] /\ p2 = Migrations[3].up \o f[3]
          /\ p1 = Migrations[2].up \o f[2] /\ p0 = Migrations[1].up \o f[1]
        BY <1>2, Zenon
    <2> HIDE DEF f, p0, p1, p2, p3
    <2>3. f[3] = Migrations[4].up \o f[4] /\ f[2] = Migrations[3].up \o f[3]
          /\ f[1] = Migrations[2].up \o f[2] /\ f[0] = Migrations[1].up \o f[1]
        BY <1>2, <2>2, Zenon
    <2>4. 0 + 1 = 1 /\ 1 + 1 = 2 /\ 2 + 1 = 3 /\ 3 + 1 = 4 OBVIOUS
    <2> QED BY <1>2, <2>1, <2>3, <2>4
<1>4. Eq(PendingAfter)
    <2> HIDE DEF f
    <2>1. \E g : Eq(g) BY <1>3
    <2>2. PendingAfter = CHOOSE g : Eq(g) BY DEF PendingAfter
    <2> HIDE DEF Eq
    <2> QED BY <2>1, <2>2
<1>5. \A n \in 0 .. 4 : PendingAfter[n] = IF n = 4 THEN <<>>
                                        ELSE Migrations[n + 1].up \o PendingAfter[n + 1]
    BY <1>1, <1>4
<1>6. 4 \in 0 .. 4 /\ \A n \in 0 .. 3 : n \in 0 .. 4 /\ n # 4 OBVIOUS
<1> HIDE DEF Eq
<1> QED BY <1>5, <1>6

\* What is pending after n migrations adds what they have not created.
LEMMA PendingAdds ==
    ASSUME NEW n \in 0 .. 4
    PROVE  /\ IsSeq(PendingAfter[n])
           /\ SchemaAfter[n] \cup {s.object : s \in Range(PendingAfter[n])} = SchemaAfter[4]
<1> DEFINE Adds(m) ==
               /\ IsSeq(PendingAfter[m])
               /\ SchemaAfter[m] \cup {s.object : s \in Range(PendingAfter[m])} = SchemaAfter[4]
<1>1. Adds(4)
    <2>1. Range(<<>>) = {} BY DEF Range
    <2>2. IsSeq(<<>>) BY DEF IsSeq
    <2> QED BY <2>1, <2>2, PendingIs
<1>2. ASSUME NEW m \in 0 .. 3, Adds(m + 1) PROVE Adds(m)
    <2>1. m + 1 \in 1 .. 4 /\ (m + 1) - 1 = m OBVIOUS
    <2>2. IsSeq(Migrations[m + 1].up) BY <2>1, UpsAre
    <2>3. /\ IsSeq(PendingAfter[m])
          /\ Range(PendingAfter[m]) = Range(Migrations[m + 1].up) \cup Range(PendingAfter[m + 1])
        <3>1. PendingAfter[m] = Migrations[m + 1].up \o PendingAfter[m + 1] BY PendingIs
        <3>2. IsSeq(PendingAfter[m + 1]) BY <1>2
        <3> QED BY <2>2, <3>1, <3>2, Concat
    <2>4. CreatedBy(m + 1) = {s.object : s \in Range(Migrations[m + 1].up)} BY <2>1, CreatedIs
    <2>5. SchemaAfter[m + 1] = SchemaAfter[m] \cup CreatedBy(m + 1) BY <2>1, SchemaOf
    <2> QED BY <1>2, <2>3, <2>4, <2>5
<1> HIDE DEF Adds
<1>3. Adds(3)
    <2>1. 3 \in 0 .. 3 /\ 3 + 1 = 4 OBVIOUS
    <2> QED BY <1>1, <1>2, <2>1
<1>4. Adds(2)
    <2>1. 2 \in 0 .. 3 /\ 2 + 1 = 3 OBVIOUS
    <2> QED BY <1>3, <1>2, <2>1
<1>5. Adds(1)
    <2>1. 1 \in 0 .. 3 /\ 1 + 1 = 2 OBVIOUS
    <2> QED BY <1>4, <1>2, <2>1
<1>6. Adds(0)
    <2>1. 0 \in 0 .. 3 /\ 0 + 1 = 1 OBVIOUS
    <2> QED BY <1>5, <1>2, <2>1
<1>7. n = 0 \/ n = 1 \/ n = 2 \/ n = 3 \/ n = 4 OBVIOUS
<1>8. Adds(n) BY <1>1, <1>3, <1>4, <1>5, <1>6, <1>7
<1> QED BY <1>8 DEF Adds

\* A revert leaves what the migrations before amount to.
LEMMA RevertMatches ==
    ASSUME applied \in 1 .. 4, SchemaMatchesApplied
    PROVE  /\ SchemaAfter[applied - 1] \subseteq Reverted.objects
           /\ Reverted.objects \subseteq SchemaAfter[applied - 1] \cup Extensions
<1> DEFINE down == Migrations[applied].down
<1>1. Reverted.objects = {x \in objects : \A s \in Range(down) : ~Removes(s, x)}
    BY DownsAre, MigrationsAre, RevertedIs
<1>2. Undoes(applied) /\ Spares(applied)
    <2>1. applied = 1 \/ applied = 2 \/ applied = 3 \/ applied = 4 OBVIOUS
    <2> QED BY <2>1, FirstUndone, LaterUndone, I18nSpares, LaterSpares
<1>3. SchemaAfter[applied] = SchemaAfter[applied - 1] \cup CreatedBy(applied) BY SchemaOf
<1>4. SchemaAfter[applied - 1] \subseteq objects BY <1>3 DEF SchemaMatchesApplied
<1>5. objects \subseteq SchemaAfter[applied - 1] \cup CreatedBy(applied) \cup Extensions
    BY <1>3 DEF SchemaMatchesApplied
<1> QED BY <1>1, <1>2, <1>4, <1>5 DEF Undoes, Spares

\* So does a commit, whenever its transaction began.
LEMMA CommitMatches ==
    ASSUME NEW n \in 0 .. 4, n <= applied, applied \in 0 .. 4, SchemaMatchesApplied
    PROVE  LET all == objects \cup {s.object : s \in Range(PendingAfter[n])}
           IN  SchemaAfter[4] \subseteq all /\ all \subseteq SchemaAfter[4] \cup Extensions
<1>1. SchemaAfter[n] \cup {s.object : s \in Range(PendingAfter[n])} = SchemaAfter[4]
    BY PendingAdds
<1>2. applied \in n .. 4 /\ 4 \in applied .. 4 OBVIOUS
<1>3. SchemaAfter[n] \subseteq SchemaAfter[applied] /\ SchemaAfter[applied] \subseteq SchemaAfter[4]
    BY <1>2, SchemaOf
<1> QED BY <1>1, <1>3 DEF SchemaMatchesApplied

-----------------------------------------------------------------------------
(* The inductive invariant.                                                *)

\* A migrating container has run the first statements of those that were
\* pending when it started.
Migrator(j, n) ==
    /\ j = [pc |-> "migrate", from |-> j.from, next |-> j.next, created |-> j.created]
    /\ j.from \in 0 .. n
    /\ j.next \in 1 .. Len(PendingAfter[j.from]) + 1
    /\ j.created = {PendingAfter[j.from][k].object : k \in 1 .. j.next - 1}

Control ==
    /\ config \in Configs
    /\ applied \in 0 .. Len(Migrations)
    /\ container = [c \in Containers |-> container[c]]
    /\ \A c \in Containers :
           /\ container[c].pc \in {"down", "migrate", "bootstrap", "insert", "up"}
           /\ AtPc(c, "migrate") => Migrator(container[c], applied)
           /\ container[c].pc \in {"bootstrap", "insert", "up"} => applied = Len(Migrations)
    /\ seed.pc \in {"idle", "cleanup", "insert", "complete", "done", "failed", "stopped"}
    /\ reverts \in Nat
    /\ made \subseteq {r.id : r \in ManualRows}

\* A row of people that is there was made.
Rows ==
    /\ Sound(db)
    /\ \A r \in ManualRows : r.id \in DOMAIN db => r.id \in made

Bootstrapped(d) == \E i \in DOMAIN d : i[1] = "admin_users" /\ d[i].email = <<"bootstrap">>

Serving == \A c \in Containers : AtPc(c, "up") /\ Wanted => Bootstrapped(db)

\* How far the seed has come.
Progress ==
    /\ seed.pc = "failed" => Blocked(db)
    /\ seed.pc = "cleanup" =>
           /\ seed.next \in 1 .. Len(Cleanup)
           /\ \A m \in 1 .. seed.next - 1 : Cleanup[m].ids \cap DOMAIN db = {}
    /\ seed.pc = "insert" =>
           /\ seed.next \in 1 .. Len(Plan)
           /\ UpTo(db, seed.next) /\ UntoldFrom(db, seed.next)
    /\ seed.pc = "complete" =>
           /\ seed.next \in CourseSteps
           /\ UpTo(db, seed.next) /\ UntoldFrom(db, seed.next + 1)
           /\ Midway(db, Course[seed.next], seed.todo)
    /\ seed.pc = "done" => UpTo(db, Len(Plan) + 1)

IInv == Control /\ Rows /\ Serving /\ Progress /\ SchemaMatchesApplied

-----------------------------------------------------------------------------
(* How a statement changes the rows.                                       *)

\* An admin under the bootstrap e-mail address outlasts every statement.
LEMMA BootstrappedGrows ==
    ASSUME NEW d, Came(d), NEW r, NEW e, Grown(d, r, e), Bootstrapped(d)
    PROVE  Bootstrapped(e)
<1>1. PICK i \in DOMAIN d : i[1] = "admin_users" /\ d[i].email = <<"bootstrap">>
    BY DEF Bootstrapped
<1>2. e[i] = d[i] /\ i \in DOMAIN e
    <2>1. ~Counts(r, i) BY <1>1 DEF Grown
    <2> QED BY <2>1 DEF Grown
<1> QED BY <1>1, <1>2 DEF Bootstrapped

LEMMA BootstrappedShrinks ==
    ASSUME NEW d, Sound(d), Bootstrapped(d), NEW ids \in SUBSET CleanupIds
    PROVE  Bootstrapped(DeleteRows(d, ids))
<1> DEFINE doomed == ids \cap DOMAIN d
           gone == Cascade(d, doomed)
           e == DeleteRows(d, ids)
<1>1. Shrunk(d, doomed, gone, e) BY DeleteShrinks
<1> HIDE DEF gone, e
<1>2. PICK i \in DOMAIN d : i[1] = "admin_users" /\ d[i].email = <<"bootstrap">>
    BY DEF Bootstrapped
<1>3. PICK r \in Sources : r.id = i /\ d[i].email = r.cols.email
    BY <1>2, KeysStay DEF Sound
<1>4. r \notin DemoRows
    <2>1. r \notin PlannedRows BY <1>2, <1>3, PlanAssumption
    <2>2. r \notin ProgressRows BY <1>2, <1>3, DemoIs
    <2> QED BY <2>1, <2>2 DEF DemoRows
<1>5. i \notin CleanupIds BY <1>3, <1>4, ProvisioningAssumption DEF Sources
<1>6. DOMAIN Refs(i) = {"created_by_id"} /\ Refs(i)["created_by_id"].rule = "SET NULL"
    BY <1>2, Columns, Zenon
<1>7. i \notin gone BY <1>1, <1>5, <1>6 DEF Shrunk, Takes, Supported
<1>8. "email" \notin DOMAIN Refs(i) BY <1>6
<1>9. "email" \in DOMAIN d[i] BY <1>2, RowThere DEF Sound
<1>10. i \in DOMAIN e /\ e[i].email = d[i].email
    BY <1>1, <1>7, <1>8, <1>9 DEF Shrunk, Loses
<1> QED BY <1>2, <1>10 DEF Bootstrapped, e

LEMMA BootstrappedKeeps ==
    ASSUME NEW d, NEW e, Keeps(d, e), Bootstrapped(d)
    PROVE  Bootstrapped(e)
BY DEF Bootstrapped, Keeps

\* A row a person adds, or a container.
LEMMA AddSound ==
    ASSUME Rows, Progress, NEW r \in Sources, CanInsert(db, r.id, r.cols),
           r.id \notin DemoIds \cup CleanupIds,
           db' = InsertRow(db, r.id, r.cols), seed' = seed,
           made \subseteq made', r \in ManualRows => r.id \in made',
           \A q \in ManualRows : q.id = r.id => r \in ManualRows
    PROVE  Rows' /\ Progress' /\ (Bootstrapped(db) => Bootstrapped(db'))
<1>1. Grown(db, r, db') BY InsertGrows DEF Rows, Sound
<1>2. Sound(db') /\ Sound(db) BY InsertSound DEF Rows
<1>3. DOMAIN db' = DOMAIN db \cup {r.id} BY <1>1 DEF Grown
<1>4. Rows'
    <2>1. \A q \in ManualRows : q.id \in DOMAIN db' => q.id \in made' BY <1>3 DEF Rows
    <2> QED BY <1>2, <2>1 DEF Rows
<1>5. seed.pc = "cleanup" =>
          \A m \in 1 .. seed.next - 1 : Cleanup[m].ids \cap DOMAIN db' = {}
    <2> SUFFICES ASSUME seed.pc = "cleanup", NEW m \in 1 .. seed.next - 1
                 PROVE Cleanup[m].ids \cap DOMAIN db' = {}
        OBVIOUS
    <2>1. Cleanup[m].ids \cap DOMAIN db = {} /\ m \in 1 .. Len(Cleanup) BY DEF Progress
    <2>2. Cleanup[m].ids \subseteq CleanupIds BY <2>1, CleanupIs
    <2> QED BY <1>3, <2>1, <2>2
<1>6. Blocked(db) => Blocked(db')
    <2>1. \A q \in DemoRows : q.id # r.id BY DEF DemoIds
    <2> QED BY <1>3, <2>1 DEF Blocked
<1>7. Progress'
    <2>1. seed.pc = "insert" => UpTo(db', seed.next) /\ UntoldFrom(db', seed.next)
        <3> SUFFICES ASSUME seed.pc = "insert"
                     PROVE UpTo(db', seed.next) /\ UntoldFrom(db', seed.next)
            OBVIOUS
        <3>1. seed.next \in 1 .. Len(Plan) + 1 /\ seed.next \in Nat BY PlanIs DEF Progress
        <3> QED BY <1>1, <1>2, <3>1, OthersTell DEF Progress
    <2>2. seed.pc = "complete" =>
              /\ UpTo(db', seed.next) /\ UntoldFrom(db', seed.next + 1)
              /\ Midway(db', Course[seed.next], seed.todo)
        <3> SUFFICES ASSUME seed.pc = "complete"
                     PROVE  /\ UpTo(db', seed.next) /\ UntoldFrom(db', seed.next + 1)
                            /\ Midway(db', Course[seed.next], seed.todo)
            OBVIOUS
        <3>1. seed.next \in CourseSteps BY DEF Progress
        <3>2. seed.next \in 1 .. Len(Plan) + 1 /\ seed.next + 1 \in Nat BY <3>1, CourseIs, PlanIs
        <3> QED BY <1>1, <1>2, <3>1, <3>2, OthersTell DEF Progress
    <2>3. seed.pc = "done" => UpTo(db', Len(Plan) + 1)
        <3>1. Len(Plan) + 1 \in 1 .. Len(Plan) + 1 BY PlanIs
        <3> QED BY <1>1, <1>2, <3>1, OthersTell DEF Progress
    <2> QED BY <1>5, <1>6, <2>1, <2>2, <2>3 DEF Progress
<1>8. Bootstrapped(db) => Bootstrapped(db') BY <1>1, BootstrappedGrows DEF Rows, Sound
<1> QED BY <1>4, <1>7, <1>8

-----------------------------------------------------------------------------
(* Steps.                                                                  *)

\* A container goes on; nothing is unmigrated.
LEMMA ControlMoves ==
    ASSUME Control, NEW c \in Containers,
           container' = [container EXCEPT ![c] = container'[c]],
           container'[c].pc \in {"down", "migrate", "bootstrap", "insert", "up"},
           container'[c].pc = "migrate" => Migrator(container'[c], applied'),
           container'[c].pc \in {"bootstrap", "insert", "up"} => applied' = Len(Migrations),
           applied' \in applied .. Len(Migrations), UNCHANGED <<config, seed, made, reverts>>
    PROVE  Control'
<1>1. Len(Migrations) = 4 /\ applied \in 0 .. 4 BY MigrationsAre DEF Control
<1>2. /\ applied' \in 0 .. Len(Migrations)
      /\ applied = Len(Migrations) => applied' = Len(Migrations)
    BY <1>1
<1>3. /\ container' = [d \in Containers |-> container'[d]]
      /\ \A d \in Containers : d # c => container'[d] = container[d]
    BY DEF Control
<1>4. ASSUME NEW j, Migrator(j, applied) PROVE Migrator(j, applied')
    <2>1. \A k \in 0 .. applied : k \in 0 .. applied' BY <1>1
    <2> QED BY <1>4, <2>1 DEF Migrator
<1>5. ASSUME NEW d \in Containers
      PROVE  /\ container'[d].pc \in {"down", "migrate", "bootstrap", "insert", "up"}
             /\ container'[d].pc = "migrate" => Migrator(container'[d], applied')
             /\ container'[d].pc \in {"bootstrap", "insert", "up"} => applied' = Len(Migrations)
    <2>1. CASE d = c BY <2>1
    <2>2. CASE d # c
        <3>1. container'[d] = container[d] BY <1>3, <2>2
        <3> QED BY <1>2, <1>4, <3>1 DEF Control, AtPc
    <2> QED BY <2>1, <2>2
<1> QED BY <1>2, <1>3, <1>5 DEF Control, AtPc

\* The rows of one statement, or of a container that leaves them alone.
LEMMA ServingStays ==
    ASSUME Serving, NEW c \in Containers, Control,
           container' = [container EXCEPT ![c] = container'[c]],
           UNCHANGED config, Bootstrapped(db) => Bootstrapped(db'),
           container'[c].pc = "up" /\ Wanted => Bootstrapped(db')
    PROVE  Serving'
<1>1. Wanted' <=> Wanted BY DEF Wanted
<1>2. ASSUME NEW d \in Containers, container'[d].pc = "up", Wanted PROVE Bootstrapped(db')
    <2>1. CASE d = c BY <1>2, <2>1
    <2>2. CASE d # c
        <3>1. container'[d] = container[d] BY <2>2 DEF Control
        <3> QED BY <1>2, <3>1 DEF Serving, AtPc
    <2> QED BY <2>1, <2>2
<1> QED BY <1>1, <1>2 DEF Serving, AtPc

LEMMA RowsStay ==
    ASSUME Rows, Progress, UNCHANGED <<db, made, seed>>
    PROVE  Rows' /\ Progress'
BY DEF Rows, Progress

LEMMA SchemaStays ==
    ASSUME SchemaMatchesApplied, UNCHANGED <<objects, applied>>
    PROVE  SchemaMatchesApplied'
BY DEF SchemaMatchesApplied

LEMMA BecomeIs ==
    ASSUME Control, NEW c \in Containers, NEW j, Become(c, j)
    PROVE  container' = [container EXCEPT ![c] = container'[c]] /\ container'[c] = j
BY DEF Become, Control

\* A statement that changes one container and nothing else.
LEMMA OneMoves ==
    ASSUME IInv, NEW c \in Containers, NEW j, Become(c, j),
           j.pc \in {"down", "migrate", "bootstrap", "insert", "up"},
           j.pc = "migrate" => Migrator(j, applied),
           j.pc \in {"bootstrap", "insert", "up"} => applied = Len(Migrations),
           j.pc = "up" /\ Wanted => Bootstrapped(db),
           UNCHANGED <<config, objects, applied, db, seed, made, reverts>>
    PROVE  IInv'
<1>1. container' = [container EXCEPT ![c] = container'[c]] /\ container'[c] = j
    BY BecomeIs DEF IInv
<1>2. applied' = applied /\ applied' \in applied .. Len(Migrations)
    BY MigrationsAre DEF IInv, Control
<1>3. /\ container'[c].pc \in {"down", "migrate", "bootstrap", "insert", "up"}
      /\ container'[c].pc = "migrate" => Migrator(container'[c], applied')
      /\ container'[c].pc \in {"bootstrap", "insert", "up"} => applied' = Len(Migrations)
    BY <1>1, <1>2
<1>4. Control' BY <1>1, <1>2, <1>3, ControlMoves DEF IInv
<1>5. Serving' BY <1>1, ServingStays DEF IInv
<1> QED BY <1>4, <1>5, RowsStay, SchemaStays DEF IInv

LEMMA StartKeeps ==
    ASSUME IInv, NEW c \in Containers, Start(c)
    PROVE  IInv'
<1>1. Len(Migrations) = 4 /\ applied \in 0 .. 4 BY MigrationsAre DEF IInv, Control
<1>2. UNCHANGED <<config, objects, applied, db, seed, made, reverts>>
    BY DEF Start, bounds
<1>3. CASE applied = Len(Migrations)
    <2> DEFINE j == [pc |-> "bootstrap"]
    <2>1. Become(c, j) BY <1>3 DEF Start
    <2>2. j.pc = "bootstrap" OBVIOUS
    <2> HIDE DEF j
    <2> QED BY <1>2, <1>3, <2>1, <2>2, OneMoves
<1>4. CASE applied # Len(Migrations)
    <2> DEFINE j == [pc |-> "migrate", from |-> applied, next |-> 1, created |-> {}]
    <2>1. Become(c, j) BY <1>4 DEF Start
    <2>2. Len(PendingAfter[applied]) \in Nat BY <1>1, PendingAdds DEF IsSeq
    <2>3. /\ j = [pc |-> "migrate", from |-> j.from, next |-> j.next, created |-> j.created]
          /\ j.pc = "migrate" /\ j.from = applied /\ j.next = 1 /\ j.created = {}
        OBVIOUS
    <2> HIDE DEF j
    <2>4. {PendingAfter[j.from][k].object : k \in 1 .. j.next - 1} = {} BY <2>3
    <2>5. Migrator(j, applied) BY <1>1, <2>2, <2>3, <2>4 DEF Migrator
    <2> QED BY <1>2, <2>1, <2>3, <2>5, OneMoves
<1> QED BY <1>3, <1>4

LEMMA MigrateStepKeeps ==
    ASSUME IInv, NEW c \in Containers, MigrateStep(c)
    PROVE  IInv'
<1> DEFINE j == container[c]
           todo == PendingAfter[j.from]
           next == [j EXCEPT !.next = @ + 1, !.created = @ \cup {Statement(c).object}]
<1>1. Migrator(j, applied) BY DEF IInv, Control, MigrateStep, Migrating
<1>2. j.next <= Len(todo) BY DEF MigrateStep, Migrating, Pending
<1>3. Statement(c) = todo[j.next] BY DEF Statement, Pending
<1>4. Become(c, next) BY DEF MigrateStep
<1>5. UNCHANGED <<config, objects, applied, db, seed, made, reverts>>
    BY DEF MigrateStep, bounds
<1>6. applied \in 0 .. 4 BY MigrationsAre DEF IInv, Control
<1>7. Len(todo) \in Nat BY <1>1, <1>6, PendingAdds DEF IsSeq, Migrator
<1>8. j = [pc |-> "migrate", from |-> j.from, next |-> j.next, created |-> j.created]
    BY <1>1 DEF Migrator
<1>9. /\ next = [pc |-> "migrate", from |-> next.from, next |-> next.next, created |-> next.created]
      /\ next.pc = "migrate" /\ next.from = j.from /\ next.next = j.next + 1
      /\ next.created = j.created \cup {todo[j.next].object}
    <2>1. DOMAIN j = {"pc", "from", "next", "created"} /\ j.pc = "migrate"
        <3> HIDE DEF j
        <3> QED BY <1>8
    <2> DEFINE o == Statement(c).object
    <2> HIDE DEF j, o, todo
    <2>2. /\ DOMAIN next = {"pc", "from", "next", "created"}
          /\ next.pc = j.pc /\ next.from = j.from /\ next.next = j.next + 1
          /\ next.created = j.created \cup {o}
        BY <2>1 DEF o
    <2>3. next = [x \in {"pc", "from", "next", "created"} |-> next[x]] BY <2>1
    <2>4. next = [pc |-> "migrate", from |-> next.from, next |-> next.next,
                  created |-> next.created]
        <3> HIDE DEF next
        <3> QED BY <2>1, <2>2, <2>3
    <2>5. o = todo[j.next].object BY <1>3 DEF o
    <2> QED BY <2>1, <2>2, <2>4, <2>5
<1> HIDE DEF next, j
<1>10. next.created = {todo[k].object : k \in 1 .. next.next - 1}
    <2>1. j.next \in Nat \ {0} /\ j.created = {todo[k].object : k \in 1 .. j.next - 1}
        BY <1>1 DEF Migrator
    <2>2. \A k : k \in 1 .. next.next - 1 <=> k \in 1 .. j.next - 1 \/ k = j.next
        BY <1>9, <2>1
    <2> HIDE DEF todo
    <2> QED BY <1>9, <2>1, <2>2
<1>11. Migrator(next, applied) BY <1>1, <1>2, <1>7, <1>9, <1>10 DEF Migrator
<1> QED BY <1>4, <1>5, <1>9, <1>11, OneMoves

LEMMA DownKeeps ==
    ASSUME IInv, NEW c \in Containers, Become(c, Down),
           UNCHANGED <<config, objects, applied, db, seed, made, reverts>>
    PROVE  IInv'
<1>1. Down.pc = "down" BY DEF Down
<1> QED BY <1>1, OneMoves

LEMMA MigrateFailsKeeps ==
    ASSUME IInv, NEW c \in Containers, MigrateFails(c)
    PROVE  IInv'
BY DownKeeps DEF MigrateFails, bounds

\* What the container adds to the schema is what was pending when it started;
\* another that committed in between has added it before.
LEMMA CommitMigrationsKeeps ==
    ASSUME IInv, NEW c \in Containers, CommitMigrations(c)
    PROVE  IInv'
<1> DEFINE j == container[c]
           todo == PendingAfter[j.from]
           up == [pc |-> "bootstrap"]
<1>1. Migrator(j, applied) BY DEF IInv, Control, CommitMigrations
<1>2. j.next > Len(todo) BY DEF CommitMigrations, Pending
<1>3. Len(Migrations) = 4 /\ applied \in 0 .. 4 BY MigrationsAre DEF IInv, Control
<1>4. j.from \in 0 .. 4 /\ j.from <= applied BY <1>1, <1>3 DEF Migrator
<1>5. IsSeq(todo) /\ Len(todo) \in Nat /\ DOMAIN todo = 1 .. Len(todo)
    BY <1>4, PendingAdds DEF IsSeq
<1>6. j.next = Len(todo) + 1 /\ j.created = {todo[k].object : k \in 1 .. j.next - 1}
    BY <1>1, <1>2, <1>5 DEF Migrator
<1>7. j.created = {s.object : s \in Range(todo)}
    <2>1. j.next - 1 = Len(todo) BY <1>5, <1>6
    <2> HIDE DEF j, todo
    <2> QED BY <1>5, <1>6, <2>1 DEF Range
<1>8. objects' = objects \cup {s.object : s \in Range(todo)} /\ applied' = 4
    BY <1>3, <1>7 DEF CommitMigrations, Seen
<1>9. SchemaMatchesApplied'
    <2> HIDE DEF j
    <2>1. SchemaAfter[4] \subseteq objects' /\ objects' \subseteq SchemaAfter[4] \cup Extensions
        BY <1>3, <1>4, <1>8, CommitMatches DEF IInv
    <2> QED BY <1>8, <2>1 DEF SchemaMatchesApplied
<1>10. UNCHANGED <<config, db, seed, made, reverts>> BY DEF CommitMigrations, bounds
<1>11. container' = [container EXCEPT ![c] = container'[c]] /\ container'[c].pc = "bootstrap"
    <2>1. Become(c, up) /\ up.pc = "bootstrap" BY DEF CommitMigrations
    <2> HIDE DEF up
    <2> QED BY <2>1, BecomeIs DEF IInv
<1>12. applied' \in applied .. Len(Migrations) /\ applied' = Len(Migrations) BY <1>3, <1>8
<1>13. Control' BY <1>10, <1>11, <1>12, ControlMoves DEF IInv
<1>14. Serving' BY <1>10, <1>11, ServingStays DEF IInv
<1> QED BY <1>9, <1>10, <1>13, <1>14, RowsStay DEF IInv

LEMMA BootstrapSkippedKeeps ==
    ASSUME IInv, NEW c \in Containers, BootstrapSkipped(c)
    PROVE  IInv'
<1> DEFINE j == [pc |-> "up"]
<1>1. Become(c, j) /\ j.pc = "up" BY DEF BootstrapSkipped
<1>2. applied = Len(Migrations) BY DEF IInv, Control, BootstrapSkipped, AtPc
<1>3. ~Wanted /\ UNCHANGED <<config, objects, applied, db, seed, made, reverts>>
    BY DEF BootstrapSkipped, bounds
<1> HIDE DEF j
<1> QED BY <1>1, <1>2, <1>3, OneMoves

LEMMA CountSuperAdminsKeeps ==
    ASSUME IInv, NEW c \in Containers, CountSuperAdmins(c)
    PROVE  IInv'
<1> DEFINE up == [pc |-> "up"]
           ins == [pc |-> "insert"]
<1>1. applied = Len(Migrations) BY DEF IInv, Control, CountSuperAdmins, AtPc
<1>2. UNCHANGED <<config, objects, applied, db, seed, made, reverts>>
    BY DEF CountSuperAdmins, bounds
<1>3. SuperAdmins(db) # {} => Bootstrapped(db)
    BY SuperAdminCame DEF IInv, Rows, Sound, Bootstrapped
<1>4. /\ SuperAdmins(db) # {} => Become(c, up)
      /\ SuperAdmins(db) = {} => Become(c, ins) \/ Become(c, Down)
    BY DEF CountSuperAdmins
<1>5. up.pc = "up" /\ ins.pc = "insert" OBVIOUS
<1> HIDE DEF up, ins
<1>6. CASE SuperAdmins(db) # {} BY <1>1, <1>2, <1>3, <1>4, <1>5, <1>6, OneMoves
<1>7. CASE Become(c, ins) BY <1>1, <1>2, <1>5, <1>7, OneMoves
<1>8. CASE Become(c, Down) BY <1>2, <1>8, DownKeeps
<1> QED BY <1>4, <1>6, <1>7, <1>8

\* Either the row goes in, or the one that is in its way has its e-mail address.
LEMMA InsertSuperAdminKeeps ==
    ASSUME IInv, NEW c \in Containers, InsertSuperAdmin(c)
    PROVE  IInv'
<1> DEFINE r == SuperAdminRow(c)
           up == [pc |-> "up"]
<1>1. Become(c, up) /\ up.pc = "up" BY DEF InsertSuperAdmin
<1> HIDE DEF up
<1>2. UNCHANGED <<config, objects, applied, seed, made, reverts>>
    BY DEF InsertSuperAdmin, bounds
<1>3. /\ r.id = <<"admin_users", c>>
      /\ r.cols = [email |-> <<"bootstrap">>, role |-> "super_admin", created_by_id |-> Null]
      /\ r \in Sources
    BY BootstrapRow DEF Sources
<1>4. r.id[1] = "admin_users" /\ r.cols["email"] = <<"bootstrap">> BY <1>3
<1>5. r.cols["created_by_id"] = Null BY <1>3
<1>6. r.id \notin DemoIds \cup CleanupIds \cup {q.id : q \in ManualRows}
    BY ProvisioningAssumption
<1>7. db' = IF CanInsert(db, r.id, r.cols) THEN InsertRow(db, r.id, r.cols) ELSE db
    BY DEF InsertSuperAdmin
<1> HIDE DEF r
<1>8. Rows' /\ Progress' /\ Bootstrapped(db')
    <2>1. CASE CanInsert(db, r.id, r.cols)
        <3>1. db' = InsertRow(db, r.id, r.cols) BY <1>7, <2>1
        <3>2. r \in ManualRows => r.id \in made' BY <1>6
        <3>3. \A q \in ManualRows : q.id = r.id => r \in ManualRows BY <1>6
        <3>4. Rows' /\ Progress'
            BY <1>2, <1>3, <1>6, <2>1, <3>1, <3>2, <3>3, AddSound DEF IInv
        <3>5. Grown(db, r, db') BY <1>3, <2>1, <3>1, InsertGrows DEF IInv, Rows, Sound
        <3>6. Bootstrapped(db') BY <1>4, <3>5 DEF Bootstrapped, Grown
        <3> QED BY <3>4, <3>6
    <2>2. CASE ~CanInsert(db, r.id, r.cols)
        <3>1. db' = db BY <1>7, <2>2
        <3>2. DOMAIN Refs(r.id) = {"created_by_id"} /\ Keys(r.id) = {{"email"}}
            BY <1>4, Columns, Zenon
        <3>3. \/ r.id \in DOMAIN db
              \/ \E o \in DOMAIN db : o[1] = r.id[1] /\ db[o]["email"] = r.cols["email"]
            BY <1>5, <2>2, <3>2 DEF CanInsert
        <3>4. Bootstrapped(db)
            <4>1. CASE r.id \in DOMAIN db
                <5>1. PICK q \in Sources :
                          /\ q.id = r.id
                          /\ r.id[1] = "admin_users" => db[r.id].email = q.cols.email
                    BY <4>1, KeysStay DEF IInv, Rows, Sound
                <5>2. PICK d \in Containers : q = SuperAdminRow(d)
                    BY <1>6, <5>1 DEF Sources, DemoIds
                <5>3. q.cols = [email |-> <<"bootstrap">>, role |-> "super_admin",
                                created_by_id |-> Null]
                    BY <5>2, BootstrapRow
                <5>4. q.cols["email"] = <<"bootstrap">> BY <5>3
                <5> QED BY <1>4, <4>1, <5>1, <5>4 DEF Bootstrapped
            <4>2. CASE \E o \in DOMAIN db : o[1] = r.id[1] /\ db[o]["email"] = r.cols["email"]
                BY <1>4, <4>2 DEF Bootstrapped
            <4> QED BY <3>3, <4>1, <4>2
        <3>5. Rows' /\ Progress' BY <1>2, <3>1, RowsStay DEF IInv
        <3> QED BY <3>1, <3>4, <3>5
    <2> QED BY <2>1, <2>2
<1>9. container' = [container EXCEPT ![c] = container'[c]] /\ container'[c].pc = "up"
    BY <1>1, BecomeIs DEF IInv
<1>10. applied' = Len(Migrations) /\ applied' \in applied .. Len(Migrations)
    <2>1. applied = Len(Migrations) BY DEF IInv, Control, InsertSuperAdmin, AtPc
    <2> QED BY <1>2, <2>1, MigrationsAre
<1>11. Control' BY <1>2, <1>9, <1>10, ControlMoves DEF IInv
<1>12. Serving' BY <1>2, <1>8, <1>9, ServingStays DEF IInv
<1> QED BY <1>2, <1>8, <1>11, <1>12, SchemaStays DEF IInv

LEMMA CrashKeeps ==
    ASSUME IInv, NEW c \in Containers, Crash(c)
    PROVE  IInv'
BY DownKeeps DEF Crash

\* The seed goes on, and the containers do not.
LEMMA SeedMoves ==
    ASSUME IInv,
           seed'.pc \in {"cleanup", "insert", "complete", "done", "failed", "stopped"},
           Rows', Progress', Bootstrapped(db) => Bootstrapped(db'),
           UNCHANGED <<config, objects, applied, container, made, reverts>>
    PROVE  IInv'
<1>1. Control' BY DEF IInv, Control, AtPc
<1>2. Serving' BY DEF IInv, Serving, AtPc, Wanted
<1> QED BY <1>1, <1>2, SchemaStays DEF IInv

LEMMA SeedAtIs == \A pc, n : SeedAt(pc, n).pc = pc /\ SeedAt(pc, n).next = n
BY DEF SeedAt

\* A statement the seed fails at leaves the rows.
LEMMA FailKeeps ==
    ASSUME IInv, SeedFails, Blocked(db),
           UNCHANGED <<config, objects, applied, container, made, reverts>>
    PROVE  IInv'
<1>1. db' = db /\ seed'.pc = "failed" BY SeedAtIs DEF SeedFails
<1>2. Rows' BY <1>1 DEF IInv, Rows
<1>3. Blocked(db)' BY <1>1 DEF Blocked
<1>4. Progress' BY <1>1, <1>3 DEF Progress
<1> QED BY <1>1, <1>2, <1>4, SeedMoves

\* After a step of the script the seed comes to the next, or ends.
LEMMA Proceeds ==
    ASSUME seed.next \in 1 .. Len(Plan), SeedProceeds("insert", Len(Plan), "done"),
           UpTo(db', seed.next + 1), UntoldFrom(db', seed.next + 1)
    PROVE  seed'.pc \in {"insert", "done"} /\ Progress'
<1>1. Len(Plan) \in Nat BY PlanIs
<1>2. CASE seed.next < Len(Plan)
    <2>1. seed'.pc = "insert" /\ seed'.next = seed.next + 1
        BY <1>2, SeedAtIs DEF SeedProceeds
    <2>2. seed'.next \in 1 .. Len(Plan) BY <1>1, <1>2, <2>1
    <2> QED BY <2>1, <2>2 DEF Progress
<1>3. CASE ~(seed.next < Len(Plan))
    <2>1. seed'.pc = "done" BY <1>3, SeedAtIs DEF SeedProceeds
    <2>2. seed.next = Len(Plan) BY <1>1, <1>3
    <2> QED BY <2>1, <2>2 DEF Progress
<1> QED BY <1>2, <1>3

LEMMA StartSeedKeeps ==
    ASSUME IInv, StartSeed
    PROVE  IInv'
<1>1. seed'.pc = "cleanup" /\ seed'.next = 1
    <2>1. seed' = SeedAt("cleanup", 1) BY DEF StartSeed
    <2> QED BY <2>1, SeedAtIs
<1>2. UNCHANGED <<config, objects, applied, db, container, made, reverts>> BY DEF StartSeed
<1>3. Rows' BY <1>2 DEF IInv, Rows
<1>4. Progress' BY <1>1, CleanupIs DEF Progress
<1> QED BY <1>1, <1>2, <1>3, <1>4, SeedMoves

\* No statement of cleanup fails, and after the last no demo row is left.
LEMMA CleanupStepKeeps ==
    ASSUME IInv, CleanupStep
    PROVE  IInv'
<1> DEFINE ids == Cleanup[seed.next].ids
           doomed == ids \cap DOMAIN db
           gone == Cascade(db, doomed)
<1>1. seed.pc = "cleanup" /\ seed.next \in 1 .. Len(Cleanup) BY DEF CleanupStep, IInv, Progress
<1>2. ids \in SUBSET CleanupIds BY <1>1, CleanupIs
<1>3. Sound(db) BY DEF IInv, Rows
<1>4. CanDelete(db, ids) BY <1>2, <1>3, CleanupCan
<1>5. db' = DeleteRows(db, ids) /\ SeedProceeds("cleanup", Len(Cleanup), "insert")
    BY <1>4 DEF CleanupStep
<1>6. Shrunk(db, doomed, gone, db') BY <1>3, <1>5, DeleteShrinks
<1>7. UNCHANGED <<config, objects, applied, container, made, reverts>>
    BY DEF CleanupStep, bounds
<1> HIDE DEF gone
<1>8. Sound(db') BY <1>3, <1>6, DeleteSound
<1>9. DOMAIN db' \subseteq DOMAIN db \ doomed BY <1>6 DEF Shrunk, Takes
<1>10. Bootstrapped(db) => Bootstrapped(db') BY <1>2, <1>3, <1>5, BootstrappedShrinks
<1>11. Rows' BY <1>7, <1>8, <1>9 DEF IInv, Rows
<1>12. \A m \in 1 .. seed.next : Cleanup[m].ids \cap DOMAIN db' = {}
    <2> SUFFICES ASSUME NEW m \in 1 .. seed.next PROVE Cleanup[m].ids \cap DOMAIN db' = {}
        OBVIOUS
    <2>1. CASE m = seed.next BY <1>9, <2>1
    <2>2. CASE m # seed.next
        <3>1. m \in 1 .. seed.next - 1 BY <1>1, <2>2, CleanupIs
        <3> QED BY <1>1, <1>9, <3>1 DEF IInv, Progress
    <2> QED BY <2>1, <2>2
<1>13. CASE seed.next < Len(Cleanup)
    <2>1. seed'.pc = "cleanup" /\ seed'.next = seed.next + 1
        BY <1>5, <1>13, SeedAtIs DEF SeedProceeds
    <2>2. /\ seed'.next \in 1 .. Len(Cleanup)
          /\ seed'.next - 1 = seed.next
        BY <1>1, <1>13, <2>1, CleanupIs
    <2>3. Progress' BY <1>12, <2>1, <2>2 DEF Progress
    <2> QED BY <1>7, <1>10, <1>11, <2>1, <2>3, SeedMoves
<1>14. CASE ~(seed.next < Len(Cleanup))
    <2>1. seed'.pc = "insert" /\ seed'.next = 1
        BY <1>5, <1>14, SeedAtIs DEF SeedProceeds
    <2>2. seed.next = Len(Cleanup) BY <1>1, <1>14, CleanupIs
    <2>3. CleanupIds \cap DOMAIN db' = {} BY <1>12, <2>2, CleanupIs
    <2>4. DemoIds \cap DOMAIN db' = {} BY <1>8, <2>3, NoDemoRow
    <2>5. RowsOf(0) = {} BY DEF RowsOf
    <2>6. Holds(db', RowsOf(0)) BY <2>4, <2>5 DEF Holds, DemoIds, DemoRows
    <2>7. 1 - 1 = 0 OBVIOUS
    <2>8. UpTo(db', 1)
        <3>1. ToldBefore(db', 1) BY CourseIs DEF ToldBefore
        <3> QED BY <2>6, <2>7, <3>1 DEF UpTo
    <2>9. UntoldFrom(db', 1)
        <3>1. ASSUME NEW m \in CourseSteps, NEW l \in Lessons
              PROVE  ProgressRow(Course[m], l).id \notin DOMAIN db'
            BY <2>4, ProgressIs, DemoIs
        <3> QED BY <3>1 DEF UntoldFrom, CompletedIn
    <2>10. Progress' BY <2>1, <2>8, <2>9, PlanIs DEF Progress
    <2> QED BY <1>7, <1>10, <1>11, <2>1, <2>10, SeedMoves
<1> QED BY <1>13, <1>14

\* Rows the seed adds are none of people's.
LEMMA SeedRows ==
    ASSUME IInv, Sound(db'), DOMAIN db' \subseteq DOMAIN db \cup DemoIds, UNCHANGED made
    PROVE  Rows'
<1>1. \A r \in ManualRows : r.id \in DOMAIN db' => r.id \in DOMAIN db
    BY ProvisioningAssumption
<1> QED BY <1>1 DEF IInv, Rows

\* A transaction of the plan fails only where people hold one of its keys.
LEMMA InsertStepKeeps ==
    ASSUME IInv, InsertStep
    PROVE  IInv'
<1> DEFINE n == seed.next
           result == InsertAll(Plan[n])
<1>1. /\ seed.pc = "insert" /\ n \in 1 .. Len(Plan) /\ n \notin CourseSteps
      /\ UpTo(db, n) /\ UntoldFrom(db, n)
    BY DEF InsertStep, IInv, Progress, CourseSteps
<1>2. Sound(db) BY DEF IInv, Rows
<1>3. n \in DOMAIN Plan /\ Plan[n] \in Seq(PlannedRows) BY <1>1, PlanIs
<1>4. UNCHANGED <<config, objects, applied, container, made, reverts>>
    BY DEF InsertStep, bounds
<1>5. CASE ~result.ok
    <2>1. SeedFails BY <1>5 DEF InsertStep
    <2>2. Blocked(db) BY <1>1, <1>2, <1>3, <1>5, InsertAllHolds DEF UpTo
    <2> QED BY <1>4, <2>1, <2>2, FailKeeps
<1>6. CASE result.ok
    <2>1. db' = result.db /\ SeedProceeds("insert", Len(Plan), "done")
        BY <1>6 DEF InsertStep
    <2>2. /\ Sound(db') /\ Keeps(db, db')
          /\ DOMAIN db' \subseteq DOMAIN db \cup PlannedIds
        BY <1>2, <1>3, <2>1, InsertAllSound
    <2>3. Rows'
        <3>1. PlannedIds \subseteq DemoIds BY DemoIs DEF PlannedIds
        <3> QED BY <1>4, <2>2, <3>1, SeedRows
    <2>4. Bootstrapped(db) => Bootstrapped(db') BY <2>2, BootstrappedKeeps
    <2>5. Holds(db', RowsOf(n)) BY <1>1, <1>2, <1>3, <1>6, <2>1, InsertAllHolds DEF UpTo
    <2> HIDE DEF n, result
    <2>6. ASSUME NEW m \in CourseSteps PROVE CompletedIn(db', Course[m]) = CompletedIn(db, Course[m])
        <3>1. ASSUME NEW l \in Lessons PROVE ProgressRow(Course[m], l).id \notin PlannedIds
            BY ProgressIs, DemoIs
        <3> QED BY <2>2, <3>1, CompletedStays DEF Keeps
    <2>7. ASSUME NEW m \in CourseSteps, m < n, NEW X, Told(db, Course[m], X)
          PROVE  Told(db', Course[m], X)
        <3>1. ASSUME NEW i \in DOMAIN db' \cap DemoIds, i[1] = "lessons" PROVE i \in DOMAIN db
            <4>1. i \in PlannedIds BY <3>1, DemoIs
            <4>2. PICK r \in PlannedRows : r.id = i BY <4>1 DEF PlannedIds
            <4>3. r \in RowsOf(m - 1) BY <3>1, <4>2, CourseIs
            <4>4. m - 1 \in 0 .. Len(Plan) /\ n - 1 \in 0 .. Len(Plan) /\ m - 1 <= n - 1
                BY <1>1, <2>7, CourseIs, PlanIs
            <4>5. r \in RowsOf(n - 1) BY <4>3, <4>4, RowsMonotone
            <4> QED BY <1>1, <4>2, <4>5 DEF UpTo, Holds
        <3> QED BY <1>2, <2>2, <2>7, <3>1, ToldKeeps
    <2>8. UpTo(db', n + 1)
        <3>1. (n + 1) - 1 = n BY <1>1
        <3>2. ToldBefore(db', n + 1)
            <4> SUFFICES ASSUME NEW m \in CourseSteps, m < n + 1
                         PROVE Told(db', Course[m], CompletedIn(db', Course[m]))
                BY DEF ToldBefore
            <4>1. m < n BY <1>1, CourseIs
            <4> QED BY <1>1, <2>6, <2>7, <4>1 DEF UpTo, ToldBefore
        <3> QED BY <2>5, <3>1, <3>2 DEF UpTo
    <2>9. UntoldFrom(db', n + 1)
        <3> SUFFICES ASSUME NEW m \in CourseSteps, m >= n + 1
                     PROVE CompletedIn(db', Course[m]) = {}
            BY DEF UntoldFrom
        <3>1. m >= n BY <1>1, CourseIs
        <3> QED BY <1>1, <2>6, <3>1 DEF UntoldFrom
    <2>10. seed'.pc \in {"insert", "done"} /\ Progress'
        BY <1>1, <2>1, <2>8, <2>9, Proceeds DEF n
    <2> QED BY <1>4, <2>3, <2>4, <2>10, SeedMoves
<1> QED BY <1>5, <1>6

\* What is to come of a course.
LEMMA HeadAndTail ==
    ASSUME NEW S, NEW s \in Seq(S), s # <<>>, IsInjective(s)
    PROVE  /\ Head(s) \in S /\ Tail(s) \in Seq(S) /\ IsInjective(Tail(s))
           /\ Head(s) \notin Range(Tail(s))
           /\ Range(s) = {Head(s)} \cup Range(Tail(s))
<1>1. Len(s) \in Nat \ {0} /\ DOMAIN s = 1 .. Len(s) OBVIOUS
<1>2. Head(s) = s[1] /\ Tail(s) \in Seq(S) /\ Len(Tail(s)) = Len(s) - 1 OBVIOUS
<1>3. DOMAIN Tail(s) = 1 .. Len(s) - 1 BY <1>2
<1>4. \A i \in 1 .. Len(s) - 1 : Tail(s)[i] = s[i + 1] BY <1>1
<1>5. \A i, j \in 1 .. Len(s) : s[i] = s[j] => i = j BY <1>1 DEF IsInjective
<1>6. \A x : x \in Range(s) <=> \E i \in 1 .. Len(s) : x = s[i] BY <1>1 DEF Range
<1>7. \A x : x \in Range(Tail(s)) <=> \E i \in 1 .. Len(s) - 1 : x = Tail(s)[i]
    BY <1>3 DEF Range
<1>8. \A x : x \in Range(Tail(s)) <=> \E i \in 1 .. Len(s) - 1 : x = s[i + 1] BY <1>4, <1>7
<1>9. IsInjective(Tail(s))
    <2> SUFFICES ASSUME NEW i \in 1 .. Len(s) - 1, NEW j \in 1 .. Len(s) - 1,
                        Tail(s)[i] = Tail(s)[j]
                 PROVE i = j
        BY <1>3 DEF IsInjective
    <2>1. s[i + 1] = s[j + 1] BY <1>4
    <2>2. i + 1 \in 1 .. Len(s) /\ j + 1 \in 1 .. Len(s) BY <1>1
    <2>3. i + 1 = j + 1 BY <1>5, <2>1, <2>2
    <2> QED BY <2>3
<1>10. Head(s) \notin Range(Tail(s))
    <2> SUFFICES ASSUME NEW i \in 1 .. Len(s) - 1, s[1] = s[i + 1] PROVE FALSE
        BY <1>2, <1>8
    <2>1. i + 1 \in 1 .. Len(s) /\ 1 \in 1 .. Len(s) /\ i + 1 # 1 BY <1>1
    <2> QED BY <1>5, <2>1
<1>11. ASSUME NEW x PROVE x \in Range(s) <=> x = Head(s) \/ x \in Range(Tail(s))
    <2>1. ASSUME NEW i \in 1 .. Len(s), x = s[i] PROVE x = Head(s) \/ x \in Range(Tail(s))
        <3>1. CASE i = 1 BY <1>2, <2>1, <3>1
        <3>2. CASE i # 1
            <4>1. i - 1 \in 1 .. Len(s) - 1 /\ (i - 1) + 1 = i BY <1>1, <3>2
            <4> QED BY <1>8, <2>1, <4>1
        <3> QED BY <3>1, <3>2
    <2>2. x = Head(s) => x \in Range(s)
        <3>1. 1 \in 1 .. Len(s) BY <1>1
        <3> QED BY <1>2, <1>6, <3>1
    <2>3. ASSUME NEW i \in 1 .. Len(s) - 1, x = s[i + 1] PROVE x \in Range(s)
        <3>1. i + 1 \in 1 .. Len(s) BY <1>1
        <3> QED BY <1>6, <2>3, <3>1
    <2> QED BY <1>6, <1>8, <2>1, <2>2, <2>3
<1>12. Head(s) \in S BY <1>1, <1>2
<1> QED BY <1>2, <1>9, <1>10, <1>11, <1>12

\* The lessons of a SELECT tell the course: with its LIMIT there are as many as
\* the story asks for, or all.
LEMMA SelectedTells ==
    ASSUME NEW d, Sound(d), NEW n \in CourseSteps, NEW s \in Selected(d, Course[n])
    PROVE  s \in Seq(Lessons) /\ IsInjective(s) /\ Told(d, Course[n], Range(s))
<1> DEFINE c == Course[n]
           of == LessonsOf(d, c.cert_id)
           size == AtMost(c.count, Cardinality(of))
<1>1. /\ s \in [1 .. size -> of] /\ IsInjective(s)
      /\ \A i \in DOMAIN s, l \in of :
             Precedes(d, l, s[i]) => \E j \in 1 .. i - 1 : s[j] = l
    BY DEF Selected
<1>2. of \subseteq DOMAIN d /\ of \subseteq Lessons BY LessonAt DEF LessonsOf
<1>3. IsFiniteSet(of) BY <1>2, FS_Subset DEF Sound
<1>4. Cardinality(of) \in Nat BY <1>3, FS_CardinalityType
<1>5. c.count \in Nat BY CourseIs
<1>6. size \in Nat /\ (size = c.count \/ size = Cardinality(of)) BY <1>4, <1>5 DEF AtMost
<1> HIDE DEF of, size
<1>7. DOMAIN s = 1 .. size /\ \A i \in 1 .. size : s[i] \in of BY <1>1
<1>8. s \in Seq(Lessons) BY <1>1, <1>2, <1>6, <1>7
<1>9. \A x : x \in Range(s) <=> \E i \in 1 .. size : x = s[i] BY <1>7 DEF Range
<1>10. Range(s) \subseteq of BY <1>7, <1>9
<1>11. Cardinality(Range(s)) = size
    <2>1. s \in [1 .. size -> Range(s)] BY <1>1, <1>7, <1>9
    <2>2. \A a, b \in 1 .. size : s[a] = s[b] => a = b BY <1>1, <1>7 DEF IsInjective
    <2>3. \A t \in Range(s) : \E i \in 1 .. size : s[i] = t BY <1>9
    <2>4. s \in Bijection(1 .. size, Range(s))
        BY <2>1, <2>2, <2>3, <1>7 DEF Bijection, Injection, Surjection, IsInjective
    <2>5. ExistsBijection(1 .. size, Range(s)) BY <2>4 DEF ExistsBijection
    <2> QED BY <1>6, <2>5, FS_CountingElements
<1>12. Cardinality(Range(s)) = c.count \/ of \cap DemoIds \subseteq Range(s)
    <2>1. size = Cardinality(of) => Range(s) = of
        BY <1>3, <1>10, <1>11, FS_Subset
    <2> QED BY <1>6, <1>11, <2>1
<1>13. ASSUME NEW k \in of \cap DemoIds, NEW l \in Range(s), Precedes(d, k, l)
       PROVE  k \in Range(s)
    <2>1. PICK i \in 1 .. size : l = s[i] BY <1>9
    <2>2. PICK j \in 1 .. i - 1 : s[j] = k BY <1>1, <1>7, <1>13, <2>1
    <2>3. j \in 1 .. size BY <1>6
    <2> QED BY <1>9, <2>2, <2>3
<1>14. Told(d, c, Range(s)) BY <1>10, <1>12, <1>13 DEF Told, of
<1> QED BY <1>1, <1>8, <1>14

\* With what is still to do a course goes on; with nothing, it is told.
LEMMA CourseGoesOn ==
    ASSUME NEW n \in CourseSteps, seed.next = n, NEW todo, Completing(todo),
           todo \in Seq(Lessons), IsInjective(todo),
           UpTo(db', n), UntoldFrom(db', n + 1),
           Range(todo) \cap CompletedIn(db', Course[n]) = {},
           Told(db', Course[n], CompletedIn(db', Course[n]) \cup Range(todo))
    PROVE  seed'.pc \in {"insert", "done", "complete"} /\ Progress'
<1>0. n \in 1 .. Len(Plan) /\ n - 1 \in 0 .. Len(Plan) /\ (n + 1) - 1 = n BY CourseIs, PlanIs
<1>1. CASE todo # <<>>
    <2>1. seed' = [pc |-> "complete", next |-> n, todo |-> todo] BY <1>1 DEF Completing
    <2>2. seed'.pc = "complete" /\ seed'.next = n /\ seed'.todo = todo BY <2>1
    <2>3. Midway(db', Course[n], todo) BY <1>1 DEF Midway
    <2> QED BY <2>2, <2>3 DEF Progress
<1>2. CASE todo = <<>>
    <2>1. SeedProceeds("insert", Len(Plan), "done") BY <1>2 DEF Completing
    <2>2. Range(todo) = {} BY <1>2 DEF Range
    <2>3. Told(db', Course[n], CompletedIn(db', Course[n])) BY <2>2
    <2>4. ToldBefore(db', n + 1)
        <3> SUFFICES ASSUME NEW m \in CourseSteps, m < n + 1
                     PROVE Told(db', Course[m], CompletedIn(db', Course[m]))
            BY DEF ToldBefore
        <3>1. CASE m = n BY <2>3, <3>1
        <3>2. CASE m # n
            <4>1. m < n BY <1>0, <3>2, CourseIs
            <4> QED BY <4>1 DEF UpTo, ToldBefore
        <3> QED BY <3>1, <3>2
    <2>5. UpTo(db', n + 1) BY <1>0, <2>4, RowsOfCourse DEF UpTo
    <2> QED BY <1>0, <2>1, <2>5, Proceeds
<1> QED BY <1>1, <1>2

LEMMA SelectLessonsKeeps ==
    ASSUME IInv, SelectLessons
    PROVE  IInv'
<1> DEFINE n == seed.next
<1>1. /\ seed.pc = "insert" /\ n \in 1 .. Len(Plan) /\ n \in CourseSteps
      /\ UpTo(db, n) /\ UntoldFrom(db, n)
    BY PlanIs DEF SelectLessons, IInv, Progress, CourseSteps
<1>2. UNCHANGED <<config, objects, applied, db, container, made, reverts>>
    BY DEF SelectLessons, bounds
<1>3. Sound(db) BY DEF IInv, Rows
<1>4. PICK s \in Selected(db, Course[n]) : Completing(s) BY DEF SelectLessons
<1>5. s \in Seq(Lessons) /\ IsInjective(s) /\ Told(db, Course[n], Range(s))
    BY <1>1, <1>3, SelectedTells
<1>6. CompletedIn(db, Course[n]) = {} BY <1>1 DEF UntoldFrom
<1>7. UntoldFrom(db, n + 1)
    <2>1. ASSUME NEW m \in CourseSteps, m >= n + 1 PROVE CompletedIn(db, Course[m]) = {}
        <3>1. m >= n BY <1>1, <2>1, CourseIs
        <3> QED BY <1>1, <3>1 DEF UntoldFrom
    <2> QED BY <2>1 DEF UntoldFrom
<1> HIDE DEF n
<1>8. Told(db, Course[n], CompletedIn(db, Course[n]) \cup Range(s)) BY <1>5, <1>6
<1>9. db' = db BY <1>2
<1>10. seed'.pc \in {"insert", "done", "complete"} /\ Progress'
    BY <1>1, <1>4, <1>5, <1>6, <1>7, <1>8, <1>9, CourseGoesOn DEF n
<1>11. Rows' BY <1>2 DEF IInv, Rows
<1> QED BY <1>2, <1>10, <1>11, SeedMoves

\* A lesson is completed once, unless people completed it for the student.
LEMMA CompleteLessonKeeps ==
    ASSUME IInv, CompleteLesson
    PROVE  IInv'
<1> DEFINE n == seed.next
           c == Course[n]
           l == Head(seed.todo)
           rest == Tail(seed.todo)
           r == ProgressRow(c, l)
<1>1. /\ seed.pc = "complete" /\ n \in CourseSteps /\ UpTo(db, n) /\ UntoldFrom(db, n + 1)
      /\ Midway(db, c, seed.todo)
    BY DEF CompleteLesson, IInv, Progress
<1>2. UNCHANGED <<config, objects, applied, container, made, reverts>>
    BY DEF CompleteLesson, bounds
<1>3. Sound(db) BY DEF IInv, Rows
<1>4. /\ l \in Lessons /\ rest \in Seq(Lessons) /\ IsInjective(rest)
      /\ l \notin Range(rest) /\ Range(seed.todo) = {l} \cup Range(rest)
    BY <1>1, HeadAndTail DEF Midway
<1>5. IF CanInsert(db, r.id, r.cols)
      THEN db' = InsertRow(db, r.id, r.cols) /\ Completing(rest)
      ELSE SeedFails
    BY DEF CompleteLesson
<1>6. /\ l \notin CompletedIn(db, c) /\ Range(rest) \cap CompletedIn(db, c) = {}
      /\ Told(db, c, CompletedIn(db, c) \cup {l} \cup Range(rest))
    <2>1. CompletedIn(db, c) \cup {l} \cup Range(rest) = CompletedIn(db, c) \cup Range(seed.todo)
        BY <1>4
    <2> QED BY <1>1, <1>4, <2>1 DEF Midway
<1> HIDE DEF l, rest
<1>7. /\ r \in ProgressRows /\ r.id[1] = "student_progress"
      /\ r.cols = [user_id |-> c.user_id, lesson_id |-> l]
    BY <1>1, <1>4, ProgressIs
<1>8. r \in DemoRows /\ r \in Sources /\ r.id \in DemoIds /\ r.id \notin PlannedIds
    BY <1>7, DemoIs DEF Sources
<1>9. r.id \notin DOMAIN db BY <1>4, <1>6 DEF CompletedIn
<1>10. CASE ~CanInsert(db, r.id, r.cols)
    <2>1. c.user_id \in DOMAIN db
        <3>1. PICK u \in RowsOf(n - 1) : u.id = c.user_id BY <1>1, CourseIs
        <3> QED BY <1>1, <3>1 DEF UpTo, Holds
    <2>2. l \in DOMAIN db BY <1>6 DEF Told, LessonsOf
    <2>3. r.cols["user_id"] = c.user_id /\ r.cols["lesson_id"] = l BY <1>7
    <2>4. DOMAIN Refs(r.id) = {"user_id", "lesson_id"} /\ Keys(r.id) = {{"user_id", "lesson_id"}}
        BY <1>7, ProgressColumns
    <2>5. \A x \in DOMAIN Refs(r.id) : r.cols[x] \in DOMAIN db BY <2>1, <2>2, <2>3, <2>4
    <2> HIDE DEF r
    <2>6. PICK key \in Keys(r.id), o \in DOMAIN db :
              o[1] = r.id[1] /\ \A x \in key : db[o][x] = r.cols[x]
        BY <1>9, <1>10, <2>5, Zenon DEF CanInsert
    <2>7. key = {"user_id", "lesson_id"} BY <2>4
    <2>8. PICK q \in Sources :
              /\ q.id = o
              /\ \A k \in Keys(o) : \A x \in k : db[o][x] = q.cols[x]
        BY <1>3, KeysStay DEF Sound
    <2>9. q.id[1] = "student_progress" /\ key \in Keys(o) BY <1>7, <2>6, <2>8 DEF Keys
    <2>10. q.cols["user_id"] = c.user_id /\ q.cols["lesson_id"] = l
        BY <2>3, <2>6, <2>7, <2>8, <2>9
    <2>11. CASE q \in ManualRows
        <3>1. ~Apart(r, q) BY <2>6, <2>8, <2>9 DEF Apart
        <3>2. Blocked(db) BY <1>8, <1>9, <2>8, <2>11, <3>1 DEF Blocked
        <3>3. SeedFails BY <1>5, <1>10 DEF r
        <3> QED BY <1>2, <3>2, <3>3, FailKeeps
    <2>12. CASE q \in ProgressRows
        <3>1. PICK m \in CourseSteps, k \in Lessons : q = ProgressRow(Course[m], k)
            BY <2>12 DEF ProgressRows
        <3>2. q.cols = [user_id |-> Course[m].user_id, lesson_id |-> k] BY <3>1, ProgressIs
        <3>3. q.cols["user_id"] = Course[m].user_id /\ q.cols["lesson_id"] = k BY <3>2
        <3>4. m = n /\ k = l BY <1>1, <2>10, <3>3, CourseIs
        <3> QED BY <1>9, <2>8, <3>1, <3>4 DEF r, c
    <2>13. q \notin PlannedRows BY <2>9, DemoIs
    <2>14. \A d \in Containers : q # SuperAdminRow(d)
        <3>1. \A d \in Containers : SuperAdminRow(d).id[1] = "admin_users" BY BootstrapRow
        <3> QED BY <2>9, <3>1
    <2> QED BY <2>11, <2>12, <2>13, <2>14 DEF Sources, DemoRows
<1>11. CASE CanInsert(db, r.id, r.cols)
    <2>1. db' = InsertRow(db, r.id, r.cols) /\ Completing(rest) BY <1>5, <1>11
    <2>2. Grown(db, r, db') BY <1>3, <1>8, <1>11, <2>1, InsertGrows DEF Sound
    <2>3. Sound(db') BY <1>3, <1>8, <1>11, <2>1, InsertSound
    <2>4. Keeps(db, db') BY <1>3, <2>2, GrownKeeps DEF Sound
    <2>5. DOMAIN db' = DOMAIN db \cup {r.id} BY <2>2 DEF Grown
    <2>6. Rows' BY <1>2, <1>8, <2>3, <2>5, SeedRows
    <2>7. Bootstrapped(db) => Bootstrapped(db') BY <2>4, BootstrappedKeeps
    <2>8. \A i \in DOMAIN db' \cap DemoIds : i[1] = "lessons" => i \in DOMAIN db
        BY <1>7, <2>5
    <2>9. ASSUME NEW m \in CourseSteps, m # n
          PROVE  CompletedIn(db', Course[m]) = CompletedIn(db, Course[m])
        <3>1. ASSUME NEW k \in Lessons PROVE ProgressRow(Course[m], k).id # r.id
            <4>1. r.id[2][1] = c.user_id BY <1>1, <1>4, ProgressId, Zenon
            <4>2. ProgressRow(Course[m], k).id[2][1] = Course[m].user_id BY ProgressId, Zenon
            <4>3. Course[m].user_id # c.user_id BY <1>1, <2>9, CourseIs
            <4> QED BY <4>1, <4>2, <4>3
        <3> HIDE DEF r
        <3> QED BY <2>5, <3>1, CompletedStays
    <2>10. CompletedIn(db', c) = CompletedIn(db, c) \cup {l}
        <3>1. ASSUME NEW k \in Lessons, ProgressRow(c, k).id = r.id PROVE k = l
            <4>1. r.id[2][2] = l BY <1>1, <1>4, ProgressId, Zenon
            <4>2. ProgressRow(c, k).id[2][2] = k BY <1>1, ProgressId, Zenon
            <4> QED BY <3>1, <4>1, <4>2
        <3> QED BY <1>4, <2>5, <3>1 DEF CompletedIn
    <2> HIDE DEF r, c
    <2>11. UpTo(db', n)
        <3>1. n - 1 \in 0 .. Len(Plan) BY <1>1, CourseIs, PlanIs
        <3>2. RowsOf(n - 1) \in SUBSET PlannedRows BY <3>1, RowsPlanned
        <3>3. Holds(db', RowsOf(n - 1)) BY <1>1, <1>8, <2>2, <3>2, OthersHold DEF UpTo
        <3>4. ToldBefore(db', n)
            <4> SUFFICES ASSUME NEW m \in CourseSteps, m < n
                         PROVE Told(db', Course[m], CompletedIn(db', Course[m]))
                BY DEF ToldBefore
            <4>1. m # n BY <1>1, CourseIs
            <4>2. Told(db, Course[m], CompletedIn(db, Course[m])) BY <1>1 DEF UpTo, ToldBefore
            <4>3. Told(db', Course[m], CompletedIn(db, Course[m]))
                BY <1>3, <2>3, <2>4, <2>8, <4>2, ToldKeeps
            <4> QED BY <2>9, <4>1, <4>3
        <3> QED BY <3>3, <3>4 DEF UpTo
    <2>12. UntoldFrom(db', n + 1)
        <3> SUFFICES ASSUME NEW m \in CourseSteps, m >= n + 1
                     PROVE CompletedIn(db', Course[m]) = {}
            BY DEF UntoldFrom
        <3>1. m # n BY <1>1, CourseIs
        <3> QED BY <1>1, <2>9, <3>1 DEF UntoldFrom
    <2>13. /\ Range(rest) \cap CompletedIn(db', c) = {}
           /\ Told(db', c, CompletedIn(db', c) \cup Range(rest))
        <3>1. Range(rest) \cap CompletedIn(db', c) = {} BY <1>4, <1>6, <2>10
        <3>2. Told(db', c, CompletedIn(db, c) \cup {l} \cup Range(rest))
            BY <1>3, <1>6, <2>3, <2>4, <2>8, ToldKeeps
        <3> QED BY <2>10, <3>1, <3>2
    <2>14. seed'.pc \in {"insert", "done", "complete"} /\ Progress'
        BY <1>1, <1>4, <2>1, <2>11, <2>12, <2>13, CourseGoesOn DEF c
    <2> QED BY <1>2, <2>6, <2>7, <2>14, SeedMoves
<1> QED BY <1>10, <1>11

LEMMA SeedCrashKeeps ==
    ASSUME IInv, SeedCrash
    PROVE  IInv'
<1>1. seed'.pc = "stopped"
    <2>1. seed' = SeedAt("stopped", 1) BY DEF SeedCrash
    <2> QED BY <2>1, SeedAtIs
<1>2. UNCHANGED <<config, objects, applied, db, container, made, reverts>>
    BY DEF SeedCrash
<1>3. Rows' BY <1>2 DEF IInv, Rows
<1>4. Progress' BY <1>1 DEF Progress
<1> QED BY <1>1, <1>2, <1>3, <1>4, SeedMoves

LEMMA AddRowKeeps ==
    ASSUME IInv, NEW r \in ManualRows, AddRow(r)
    PROVE  IInv'
<1>1. UNCHANGED <<config, objects, applied, container, seed, reverts>>
    BY DEF AddRow, bounds
<1>2. /\ made' = made \cup {r.id} /\ CanInsert(db, r.id, r.cols)
      /\ db' = InsertRow(db, r.id, r.cols)
    BY DEF AddRow
<1>3. r \in Sources /\ r.id \notin DemoIds \cup CleanupIds
    BY ProvisioningAssumption DEF Sources
<1>4. Rows' /\ Progress' /\ (Bootstrapped(db) => Bootstrapped(db'))
    BY <1>1, <1>2, <1>3, AddSound DEF IInv
<1>5. Control' BY <1>1, <1>2 DEF IInv, Control, AtPc
<1>6. Serving' BY <1>1, <1>4 DEF IInv, Serving, AtPc, Wanted
<1> QED BY <1>1, <1>4, <1>5, <1>6, SchemaStays DEF IInv

\* While a migration is left the tables are, and with them the rows; with the last
\* one the tables go.
LEMMA TablesStay ==
    ASSUME NEW n \in 0 .. 4, NEW t \in DOMAIN TableOf
    PROVE  /\ n > 0 => <<"table", t>> \in SchemaAfter[n]
           /\ n = 0 => <<"table", t>> \notin SchemaAfter[n] \cup Extensions
<1> DEFINE o == <<"table", t>>
<1>1. o[1] = "table" OBVIOUS
<1>2. t \in Range(TablesUp)
    <2>1. Range(TablesUp) = {TablesUp[k] : k \in 1 .. 26} BY DEF TablesUp, Range
    <2>2. DOMAIN IdentityTables \subseteq Range(TablesUp)
        BY <2>1 DEF TablesUp, IdentityTables
    <2>3. DOMAIN CatalogTables \subseteq Range(TablesUp)
        BY <2>1 DEF TablesUp, CatalogTables
    <2>4. DOMAIN ExamTables \subseteq Range(TablesUp)
        BY <2>1 DEF TablesUp, ExamTables
    <2>5. DOMAIN CommerceTables \subseteq Range(TablesUp)
        BY <2>1 DEF TablesUp, CommerceTables
    <2>6. DOMAIN InternalTables \subseteq Range(TablesUp)
        BY <2>1 DEF TablesUp, InternalTables
    <2> QED BY <2>2, <2>3, <2>4, <2>5, <2>6, Tables DEF TableNames
<1> HIDE DEF o
<1>3. o \in CreatedBy(1)
    <2> DEFINE create == [op |-> "CREATE", object |-> o]
    <2>1. create \in Each("CREATE", "table", Range(TablesUp)) BY <1>2 DEF Each, o
    <2>2. create \in Range(InitialSchemaUp) BY <2>1, InitialUp
    <2>3. create.object = o OBVIOUS
    <2> HIDE DEF create
    <2> QED BY <2>2, <2>3, CreatedIs, MigrationsAre
<1>4. n > 0 => o \in SchemaAfter[n]
    <2> SUFFICES ASSUME n > 0 PROVE o \in SchemaAfter[n] OBVIOUS
    <2>1. o \in SchemaAfter[1] BY <1>3, SchemaOf
    <2>2. 1 \in 0 .. 4 /\ n \in 1 .. 4 BY <2>1
    <2> QED BY <2>1, <2>2, SchemaOf
<1>5. o \notin SchemaAfter[0] \cup Extensions
    <2>1. \A x \in Extensions : x[1] = "extension" BY DEF Extensions
    <2> QED BY <1>1, <2>1, SchemaOf
<1> QED BY <1>4, <1>5 DEF o

LEMMA RevertKeeps ==
    ASSUME IInv, Revert
    PROVE  IInv'
<1>1. UNCHANGED <<config, container, made>> BY DEF Revert
<1>2. \A c \in Containers : container[c].pc = "down" BY DEF Revert, AtPc
<1>3. applied \in 1 .. Len(Migrations) /\ applied \in 1 .. 4
    BY MigrationsAre DEF Revert, IInv, Control
<1>4. seed'.pc = "idle"
    <2>1. seed' = SeedAt("idle", 1) BY DEF Revert
    <2> QED BY <2>1, SeedAtIs
<1>5. reverts' \in Nat BY DEF Revert, IInv, Control
<1>6. \A S : Restrict(db, S) = [i \in S |-> db[i]] BY DEF Restrict
<1>7. \/ /\ objects' = Reverted.objects
         /\ applied' = applied - 1
         /\ db' = Restrict(db, {i \in DOMAIN db : <<"table", i[1]>> \in objects'})
      \/ UNCHANGED <<objects, applied, db>>
    BY DEF Revert
<1>8. applied' \in 0 .. Len(Migrations) /\ applied' \in 0 .. 4 BY <1>3, <1>7
<1>9. Control' BY <1>1, <1>2, <1>4, <1>5, <1>8 DEF IInv, Control, AtPc
<1>10. Serving' BY <1>1, <1>2 DEF Serving, AtPc
<1>11. Progress' BY <1>4 DEF Progress
<1>12. SchemaMatchesApplied'
    <2>1. CASE objects' = Reverted.objects /\ applied' = applied - 1
        <3>1. /\ SchemaAfter[applied - 1] \subseteq Reverted.objects
              /\ Reverted.objects \subseteq SchemaAfter[applied - 1] \cup Extensions
            BY <1>3, RevertMatches DEF IInv
        <3> QED BY <2>1, <3>1 DEF SchemaMatchesApplied
    <2>2. CASE UNCHANGED <<objects, applied, db>> BY <2>2, SchemaStays DEF IInv
    <2> QED BY <1>7, <2>1, <2>2
<1>13. Sound(db) BY DEF IInv, Rows
<1>14. \/ DOMAIN db' = {}
       \/ DOMAIN db' = DOMAIN db /\ \A i \in DOMAIN db' : db'[i] = db[i]
    <2>1. CASE db' = Restrict(db, {i \in DOMAIN db : <<"table", i[1]>> \in objects'})
        <3> DEFINE S == {i \in DOMAIN db : <<"table", i[1]>> \in objects'}
        <3>1. db' = [i \in S |-> db[i]] BY <1>6, <2>1
        <3>2. \A i \in DOMAIN db : i[1] \in DOMAIN TableOf BY <1>13, RowThere DEF Sound
        <3>3. /\ SchemaAfter[applied'] \subseteq objects'
              /\ objects' \subseteq SchemaAfter[applied'] \cup Extensions
            BY <1>12 DEF SchemaMatchesApplied
        <3>4. CASE applied' = 0
            <4>1. S = {} BY <1>8, <3>2, <3>3, <3>4, TablesStay
            <4> HIDE DEF S
            <4> QED BY <3>1, <4>1
        <3>5. CASE applied' # 0
            <4>1. applied' > 0 BY <1>8, <3>5
            <4>2. \A i \in DOMAIN db : <<"table", i[1]>> \in objects'
                BY <1>8, <3>2, <3>3, <4>1, TablesStay
            <4>3. S = DOMAIN db BY <4>2
            <4> HIDE DEF S
            <4> QED BY <3>1, <4>3
        <3> QED BY <3>4, <3>5
    <2> QED BY <1>7, <2>1
<1>15. Sound(db')
    <2>1. IsFiniteSet(DOMAIN db') BY <1>13, <1>14, FS_EmptySet DEF Sound
    <2>2. Came(db') BY <1>13, <1>14 DEF Sound, Came
    <2>3. OneEmail(db') BY <1>13, <1>14 DEF Sound, OneEmail
    <2>4. Referential(db') BY <1>13, <1>14 DEF Sound, Referential
    <2>5. Covered(db')
        <3> SUFFICES ASSUME NEW p \in DOMAIN db', p[1] = "promo_codes"
                     PROVE db'[p].usage_count >= Cardinality(Uses(db', p))
            BY DEF Covered
        <3>1. Uses(db', p) = Uses(db, p) /\ p \in DOMAIN db /\ db'[p] = db[p]
            BY <1>14 DEF Uses
        <3> QED BY <1>13, <3>1 DEF Sound, Covered
    <2> QED BY <2>1, <2>2, <2>3, <2>4, <2>5 DEF Sound
<1>16. Rows' BY <1>1, <1>14, <1>15 DEF IInv, Rows
<1> QED BY <1>9, <1>10, <1>11, <1>12, <1>16 DEF IInv

LEMMA InitKeeps == Init => IInv
<1> SUFFICES ASSUME Init PROVE IInv OBVIOUS
<1>1. /\ config \in Configs /\ objects = {} /\ applied = 0 /\ db = <<>> /\ made = {}
      /\ container = [c \in Containers |-> Down]
      /\ seed = SeedAt("idle", 1) /\ reverts = 0
    BY DEF Init
<1>2. seed.pc = "idle" BY <1>1, SeedAtIs
<1>3. \A c \in Containers : container[c].pc = "down" BY <1>1 DEF Down
<1>4. container = [c \in Containers |-> container[c]] BY <1>1
<1>5. Control BY <1>1, <1>2, <1>3, <1>4, MigrationsAre DEF Control, AtPc
<1>6. DOMAIN db = {} BY <1>1
<1>7. Rows
    <2>1. IsFiniteSet(DOMAIN db) BY <1>6, FS_EmptySet
    <2>2. Sound(db) BY <1>6, <2>1 DEF Sound, Came, Referential, OneEmail, Covered
    <2> QED BY <1>1, <1>6, <2>2 DEF Rows
<1>8. Serving BY <1>3 DEF Serving, AtPc
<1>9. Progress BY <1>2 DEF Progress
<1>10. SchemaMatchesApplied BY <1>1, SchemaOf DEF SchemaMatchesApplied
<1> QED BY <1>5, <1>7, <1>8, <1>9, <1>10 DEF IInv

LEMMA StutterKeeps ==
    ASSUME IInv, UNCHANGED vars
    PROVE  IInv'
<1>1. UNCHANGED <<config, objects, applied, db, container, seed, made, reverts>>
    BY DEF vars, bounds
<1>2. Control' BY <1>1 DEF IInv, Control, AtPc
<1>3. Serving' BY <1>1 DEF IInv, Serving, AtPc, Wanted
<1> QED BY <1>1, <1>2, <1>3, RowsStay, SchemaStays DEF IInv

LEMMA StepKeeps == IInv /\ [Next]_vars => IInv'
<1> SUFFICES ASSUME IInv, [Next]_vars PROVE IInv' OBVIOUS
<1>1. ASSUME NEW c \in Containers, Container(c) PROVE IInv'
    BY <1>1, StartKeeps, MigrateStepKeeps, MigrateFailsKeeps, CommitMigrationsKeeps,
       BootstrapSkippedKeeps, CountSuperAdminsKeeps, InsertSuperAdminKeeps, CrashKeeps
       DEF Container
<1>2. CASE DemoSeed
    BY <1>2, StartSeedKeeps, CleanupStepKeeps, InsertStepKeeps, SelectLessonsKeeps,
       CompleteLessonKeeps, SeedCrashKeeps
       DEF DemoSeed
<1>3. ASSUME NEW r \in ManualRows, AddRow(r) PROVE IInv' BY <1>3, AddRowKeeps
<1>4. CASE Revert BY <1>4, RevertKeeps
<1>5. CASE UNCHANGED vars BY <1>5, StutterKeeps
<1> QED BY <1>1, <1>2, <1>3, <1>4, <1>5 DEF Next

\* No statement of a container, of the demo seed, of a person or of a revert leads
\* out of the inductive invariant, wherever the others were stopped.
THEOREM Invariance == Spec => []IInv
<1>1. Init => IInv BY InitKeeps
<1>2. IInv /\ [Next]_vars => IInv' BY StepKeeps
<1> QED BY <1>1, <1>2, PTL DEF Spec

-----------------------------------------------------------------------------
(* What the runs check.                                                    *)

\* Provisioning!TypeOK: every row that is no demo row was added by a person or by
\* a container's bootstrap.
THEOREM TypeCorrect == Spec => []TypeOK
<1>1. IInv => TypeOK
    <2> SUFFICES ASSUME IInv PROVE TypeOK OBVIOUS
    <2>1. ASSUME NEW i \in DOMAIN db \ DemoIds
          PROVE  i \in made \/ \E c \in Containers : i = SuperAdminRow(c).id
        <3>1. PICK r \in Sources : r.id = i BY DEF IInv, Rows, Sound, Came
        <3>2. r \notin DemoRows BY <2>1, <3>1 DEF DemoIds
        <3> QED BY <2>1, <3>1, <3>2 DEF Sources, IInv, Rows
    <2> QED BY <2>1 DEF TypeOK, IInv, Control
<1> QED BY <1>1, Invariance, PTL

\* migration:run and migration:revert: the schema is what the recorded migrations
\* add up to, also when two containers migrate at the same time and one commits
\* first, and after down() and up() again; only the extensions stay.
THEOREM SchemaIsTheMigrations == Spec => []SchemaMatchesApplied
<1>1. IInv => SchemaMatchesApplied BY DEF IInv
<1> QED BY <1>1, Invariance, PTL

\* onApplicationBootstrap counts, hashes, then inserts with ON CONFLICT DO NOTHING:
\* of any number of containers at most one row wins.
THEOREM AtMostOneSuperAdmin == Spec => []OneSuperAdmin
<1>1. IInv => OneSuperAdmin
    <2> SUFFICES ASSUME IInv PROVE Cardinality(SuperAdmins(db)) <= 1 BY DEF OneSuperAdmin
    <2>1. Came(db) /\ OneEmail(db) BY DEF IInv, Rows, Sound
    <2>2. CASE SuperAdmins(db) = {}
        <3>1. Cardinality(SuperAdmins(db)) = 0 BY <2>2, FS_EmptySet
        <3> QED BY <3>1
    <2>3. CASE SuperAdmins(db) # {}
        <3>1. PICK i : i \in SuperAdmins(db) BY <2>3
        <3>2. \A j \in SuperAdmins(db) :
                  j \in DOMAIN db /\ j[1] = "admin_users" /\ db[j].email = <<"bootstrap">>
            BY <2>1, SuperAdminCame
        <3>3. SuperAdmins(db) = {i} BY <2>1, <3>1, <3>2 DEF OneEmail
        <3>4. Cardinality(SuperAdmins(db)) = 1 BY <3>3, FS_Singleton
        <3> QED BY <3>4
    <2> QED BY <2>2, <2>3
<1> QED BY <1>1, Invariance, PTL

\* A container is up only after migration:run and, where bootstrap is wanted, with
\* an admin under the bootstrap e-mail address, whatever the seed has deleted since.
THEOREM ServingIsProvisioned == Spec => []ServesProvisioned
<1>1. IInv => ServesProvisioned
    BY DEF IInv, Control, Serving, Bootstrapped, ServesProvisioned, AtPc
<1> QED BY <1>1, Invariance, PTL

\* update_promo_usage_count, ON DELETE SET NULL and the cascades of cleanup():
\* the use count of a promo code is never below the transactions that name it.
THEOREM UsageCovers == Spec => []UsageCoversTransactions
<1>1. IInv => UsageCoversTransactions
    BY DEF IInv, Rows, Sound, Covered, Uses, UsageCoversTransactions
<1> QED BY <1>1, Invariance, PTL

\* The attempt of an issued certificate is a row of exam_attempts.
LEMMA AttemptRef ==
    ASSUME NEW i, i[1] = "issued_certificates"
    PROVE  /\ "exam_attempt_id" \in DOMAIN Refs(i)
           /\ Refs(i)["exam_attempt_id"].to = "exam_attempts"
<1> DEFINE attempt == [user_id |-> CascadesTo("users"), certificate_id |-> CascadesTo("certificates"),
                       exam_attempt_id |-> CascadesTo("exam_attempts")]
           t == "issued_certificates"
<1>1. TableOf[t].refs = attempt
    <2>0. t \in DOMAIN CommerceTables BY DEF CommerceTables
    <2>1. t \in DOMAIN TableOf BY <2>0, Tables DEF TableNames
    <2>2. t \notin DOMAIN IdentityTables BY DEF IdentityTables
    <2>3. t \notin DOMAIN CatalogTables BY DEF CatalogTables
    <2>4. t \notin DOMAIN ExamTables BY DEF ExamTables
    <2>5. t \notin DOMAIN InternalTables BY DEF InternalTables
    <2>6. CommerceTables[t].refs = attempt BY DEF CommerceTables, Table
    <2> HIDE DEF t, attempt
    <2>7. TableOf[t] = CommerceTables[t] BY <2>1, <2>2, <2>3, <2>4, <2>5, TableIn
    <2> QED BY <2>6, <2>7
<1>2. /\ "exam_attempt_id" \in DOMAIN attempt
      /\ attempt["exam_attempt_id"] = CascadesTo("exam_attempts")
    OBVIOUS
<1> HIDE DEF attempt
<1>3. CascadesTo("exam_attempts").to = "exam_attempts" BY DEF CascadesTo
<1> QED BY <1>1, <1>2, <1>3 DEF Refs

\* demo-seed.ts: a run fails only on rows of people that hold a key of a demo row
\* that is still to come, whatever an earlier run and people left; one that ends has
\* written the script, certificates with the attempt that earned them, and told each
\* course by the lessons it found.
THEOREM SeedLeavesTheWholeSlice == Spec => []SliceWhole
<1>1. IInv => SliceWhole
    <2> SUFFICES ASSUME IInv PROVE SliceWhole OBVIOUS
    <2>1. seed.pc = "failed" =>
              \E m \in ManualRows, r \in DemoRows :
                  m.id \in DOMAIN db /\ r.id \notin DOMAIN db /\ ~Apart(r, m)
        BY DEF IInv, Progress, Blocked
    <2>2. ASSUME seed.pc = "done"
          PROVE  /\ \A r \in PlannedRows :
                        /\ r.id \in DOMAIN db
                        /\ r.id[1] # "promo_codes" => db[r.id] = r.cols
                 /\ \A i \in DemoIds : i[1] = "issued_certificates" =>
                        Earned(db[i], db[db[i].exam_attempt_id])
                 /\ \A n \in CourseSteps : CourseTold(Course[n])
        <3>1. UpTo(db, Len(Plan) + 1) /\ (Len(Plan) + 1) - 1 = Len(Plan)
            BY <2>2, PlanIs DEF IInv, Progress
        <3>2. \A r \in PlannedRows :
                  r.id \in DOMAIN db /\ (r.id[1] # "promo_codes" => db[r.id] = r.cols)
            BY <3>1 DEF UpTo, Holds, PlannedRows
        <3>3. ASSUME NEW i \in DemoIds, i[1] = "issued_certificates"
              PROVE  Earned(db[i], db[db[i].exam_attempt_id])
            <4>1. PICK r \in PlannedRows : r.id = i BY <3>3, DemoIs DEF PlannedIds
            <4>2. PICK a \in PlannedRows :
                      a.id = r.cols.exam_attempt_id /\ Earned(r.cols, a.cols)
                BY <3>3, <4>1, PlanAssumption
            <4>3. WellFormed(r) /\ WellFormed(a) BY PlanAssumption
            <4>4. a.id # Null BY <4>3 DEF WellFormed
            <4>5. /\ "exam_attempt_id" \in DOMAIN Refs(r.id)
                  /\ Refs(r.id)["exam_attempt_id"].to = "exam_attempts"
                BY <3>3, <4>1, AttemptRef
            <4>6. a.id[1] = "exam_attempts" BY <4>2, <4>3, <4>4, <4>5 DEF WellFormed
            <4>7. db[i] = r.cols /\ db[a.id] = a.cols BY <3>2, <3>3, <4>1, <4>6
            <4> QED BY <4>2, <4>7
        <3>4. ASSUME NEW n \in CourseSteps PROVE CourseTold(Course[n])
            <4>1. n < Len(Plan) + 1 BY CourseIs, PlanIs
            <4>2. Told(db, Course[n], CompletedIn(db, Course[n])) BY <3>1, <4>1 DEF UpTo, ToldBefore
            <4>3. CompletedIn(db, Course[n]) = Completed(Course[n]) BY DEF CompletedIn, Completed
            <4> QED BY <4>2, <4>3 DEF Told, CourseTold
        <3> QED BY <3>2, <3>3, <3>4
    <2> QED BY <2>1, <2>2 DEF SliceWhole
<1> QED BY <1>1, Invariance, PTL

\* Only a statement of cleanup deletes rows or changes more than a use count, and a
\* revert.
LEMMA OthersKeep ==
    ASSUME IInv, [Next]_vars, ~CleanupStep, ~Revert
    PROVE  Keeps(db, db')
<1>1. Sound(db) BY DEF IInv, Rows
<1>2. ASSUME NEW r \in Sources, CanInsert(db, r.id, r.cols),
             db' = InsertRow(db, r.id, r.cols)
      PROVE  Keeps(db, db')
    <2>1. Grown(db, r, db') BY <1>1, <1>2, InsertGrows DEF Sound
    <2> QED BY <1>1, <2>1, GrownKeeps DEF Sound
<1>3. db' = db => Keeps(db, db') BY <1>1, SameKeeps DEF Sound
<1>4. ASSUME NEW c \in Containers, Container(c) PROVE Keeps(db, db')
    <2>1. CASE InsertSuperAdmin(c)
        <3>1. SuperAdminRow(c) \in Sources BY DEF Sources
        <3> QED BY <1>2, <1>3, <2>1, <3>1 DEF InsertSuperAdmin
    <2>2. CASE ~InsertSuperAdmin(c)
        BY <1>3, <1>4, <2>2 DEF Container, Start, MigrateStep, MigrateFails, CommitMigrations,
                                BootstrapSkipped, CountSuperAdmins, Crash
    <2> QED BY <2>1, <2>2
<1>5. CASE InsertStep
    <2>1. seed.next \in DOMAIN Plan BY <1>5, PlanIs DEF InsertStep, IInv, Progress
    <2>2. Keeps(db, InsertAll(Plan[seed.next]).db) BY <1>1, <2>1, PlanIs, InsertAllSound
    <2>3. db' = InsertAll(Plan[seed.next]).db \/ db' = db BY <1>5 DEF InsertStep, SeedFails
    <2> QED BY <1>3, <2>2, <2>3
<1>6. CASE CompleteLesson
    <2> DEFINE r == ProgressRow(Course[seed.next], Head(seed.todo))
    <2>1. /\ seed.next \in CourseSteps /\ seed.todo \in Seq(Lessons)
          /\ seed.todo # <<>> /\ IsInjective(seed.todo)
        BY <1>6 DEF CompleteLesson, IInv, Progress, Midway
    <2>2. Head(seed.todo) \in Lessons BY <2>1, HeadAndTail
    <2>3. r \in Sources BY <2>1, <2>2 DEF ProgressRows, Sources, DemoRows
    <2>4. db' = db \/ (CanInsert(db, r.id, r.cols) /\ db' = InsertRow(db, r.id, r.cols))
        BY <1>6 DEF CompleteLesson, SeedFails
    <2> HIDE DEF r
    <2> QED BY <1>2, <1>3, <2>3, <2>4
<1>7. CASE StartSeed \/ SelectLessons \/ SeedCrash
    BY <1>3, <1>7 DEF StartSeed, SelectLessons, SeedCrash
<1>8. ASSUME NEW r \in ManualRows, AddRow(r) PROVE Keeps(db, db')
    BY <1>2, <1>8 DEF AddRow, Sources
<1>9. CASE UNCHANGED vars BY <1>3, <1>9 DEF vars
<1> QED BY <1>4, <1>5, <1>6, <1>7, <1>8, <1>9 DEF Next, DemoSeed

\* cleanup(): what is not the seed's is deleted only along a reference that cascades,
\* with the row it names, and otherwise loses at most a reference declared ON DELETE
\* SET NULL; no other statement of any actor takes a row or changes more of it than
\* the use count of a promo code.
THEOREM SeedTouchesOnlyDependents == Spec => OnlyDependentsTouched
<1> DEFINE Touch == reverts' = reverts =>
               \A i \in DOMAIN db \ DemoIds :
                   IF i \in DOMAIN db'
                   THEN \A c \in DOMAIN db[i] : LeavesColumn(i, c)
                   ELSE \E c \in DOMAIN Refs(i) :
                            Refs(i)[c].rule = "CASCADE" /\ db[i][c] \in DOMAIN db \ DOMAIN db'
<1>1. IInv /\ [Next]_vars => Touch
    <2> SUFFICES ASSUME IInv, [Next]_vars, reverts' = reverts,
                        NEW i \in DOMAIN db \ DemoIds
                 PROVE  IF i \in DOMAIN db'
                        THEN \A c \in DOMAIN db[i] : LeavesColumn(i, c)
                        ELSE \E c \in DOMAIN Refs(i) :
                                 /\ Refs(i)[c].rule = "CASCADE"
                                 /\ db[i][c] \in DOMAIN db \ DOMAIN db'
        OBVIOUS
    <2>1. Sound(db) BY DEF IInv, Rows
    <2>2. ~Revert BY DEF Revert, IInv, Control
    <2>3. CASE ~CleanupStep
        <3>1. Keeps(db, db') BY <2>2, <2>3, OthersKeep
        <3>2. i \in DOMAIN db' BY <3>1 DEF Keeps
        <3>3. ASSUME NEW c \in DOMAIN db[i] PROVE LeavesColumn(i, c)
            BY <3>1, <3>3 DEF Keeps, LeavesColumn
        <3> QED BY <3>2, <3>3
    <2>4. CASE CleanupStep
        <3> DEFINE ids == Cleanup[seed.next].ids
                   doomed == ids \cap DOMAIN db
                   gone == Cascade(db, doomed)
        <3>1. ids \in SUBSET CleanupIds BY <2>4, CleanupIs DEF CleanupStep, IInv, Progress
        <3>2. db' = DeleteRows(db, ids) BY <2>1, <2>4, <3>1, CleanupCan DEF CleanupStep
        <3>3. Shrunk(db, doomed, gone, db') BY <2>1, <3>2, DeleteShrinks
        <3> HIDE DEF gone
        <3>4. gone = DOMAIN db \ DOMAIN db' BY <3>3 DEF Shrunk, Takes
        <3>5. i \notin CleanupIds
            <4>1. PICK r \in Sources : r.id = i BY <2>1 DEF Sound, Came
            <4> QED BY <4>1, ProvisioningAssumption DEF Sources, DemoIds
        <3>6. CASE i \in DOMAIN db'
            <4>1. ASSUME NEW c \in DOMAIN db[i] PROVE LeavesColumn(i, c)
                <5>1. db'[i][c] = IF Loses(db, gone, i, c) THEN Null ELSE db[i][c]
                    BY <3>3, <3>6 DEF Shrunk
                <5> QED BY <3>4, <5>1 DEF Loses, LeavesColumn
            <4> QED BY <3>6, <4>1
        <3>7. CASE i \notin DOMAIN db'
            <4>1. i \in gone \ doomed BY <3>1, <3>4, <3>5, <3>7
            <4>2. PICK c \in DOMAIN Refs(i) :
                      Refs(i)[c].rule = "CASCADE" /\ db[i][c] \in gone
                BY <3>3, <4>1 DEF Shrunk, Takes, Supported
            <4> QED BY <3>4, <3>7, <4>2
        <3> QED BY <3>6, <3>7
    <2> QED BY <2>3, <2>4
<1> QED BY <1>1, Invariance, PTL DEF Spec, OnlyDependentsTouched

===============================================================================
