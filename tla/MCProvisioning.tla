---------------------------- MODULE MCProvisioning ----------------------------
(* Rows people add: a promo code of the demo finance admin, a transaction  *)
(* in which a demo student uses it, an admin under the bootstrap e-mail    *)
(* address, a lesson beside the first of the course that story 4 begins,   *)
(* and the progress of that story's student in it.                         *)
EXTENDS Provisioning

Config(env, optedIn, credentials) ==
    [env |-> env, optedIn |-> optedIn, credentials |-> credentials]

MCConfigs == {Config("development", FALSE, FALSE), Config("production", FALSE, FALSE),
              Config("production", TRUE, TRUE), Config("production", TRUE, FALSE)}

MCManualRows ==
    {Row("promo_codes", 901, [code |-> "MANUAL", usage_count |-> 0,
                              created_by_id |-> Id("admin_users", 3)]),
     Row("transactions", 901, [user_id |-> Id("users", 1), cert_id |-> Id("certificates", 1),
                               stripe_session_id |-> 901,
                               promo_code_id |-> Id("promo_codes", 901)]),
     Row("admin_users", 901, [email |-> <<"bootstrap">>, role |-> "support_admin",
                              created_by_id |-> Id("admin_users", 1)]),
     Row("lessons", 901, [module_id |-> Id("learning_modules", 7), position |-> 1]),
     Row("student_progress", <<Id("users", 901), Id("lessons", 901)>>,
         [user_id |-> Id("users", 4), lesson_id |-> Id("lessons", 901)])}

Symmetry == Permutations(Containers)

\* Bound: more than one migration is reverted only where people and the seed
\* have added nothing, and one where they have done no more than two things.
RevertsApart ==
    reverts > 0 => \/ seeds = 0 /\ made = {}
                   \/ reverts = 1 /\ seeds + Cardinality(made) <= 2

\* Bound: the rows that people add have to do with each other.
OneStory ==
    \E tables \in {{"promo_codes", "transactions"}, {"lessons", "student_progress"}, {"admin_users"}} :
        \A i \in made : i[1] \in tables
===============================================================================
