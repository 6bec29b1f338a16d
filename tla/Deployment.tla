----------------------------- MODULE Deployment -----------------------------
(***************************************************************************)
(* A release is put on a database that an older one has left.              *)
(*                                                                         *)
(*   docker-compose.yml              api first, then the scheduler         *)
(*   backend/docker-entrypoint.sh    migrations, then the data             *)
(*   backend/alembic/env.py          one transaction for all migrations    *)
(*   app/scripts/, scripts/          categories, HS codes, rates, seeds    *)
(*                                                                         *)
(* The older scheduler runs until the new API is healthy. Every container  *)
(* is started again when it ends. The data come from files in the image;   *)
(* the API does not start without them.                                    *)
(***************************************************************************)
EXTENDS Models

CONSTANTS
  Deployed,   \* the revisions older releases may have left
  Names,      \* TOP_LEVEL_CATEGORIES
  Pet,        \* BOOTSTRAP_CATEGORY
  Legacy,     \* a category of before 0013
  Terms,      \* search terms
  SeedTerms,  \* SEED_TERMS
  Supplies,   \* what backend/data may hold when an image is built: tables with their files
  MaxTrouble, \* bound: containers that end, statements that are refused
  MaxStops,   \* bound: docker compose down
  None

Rows == [seed : BOOLEAN, category : Names \cup {Legacy, None}]

\* The tables that a script fills from files of backend/data.
Files == {"hs_codes", "customs_duty_rates", "international_shipping_rates"}

ASSUME DeploymentAssumption ==
  /\ Deployed \subseteq 0..HeadRevision
  /\ Pet \in Names /\ Legacy \notin Names /\ SeedTerms \subseteq Terms
  /\ None \notin Names \cup {Legacy} \cup Rows /\ Supplies \subseteq SUBSET Files
  /\ MaxTrouble \in Nat /\ MaxStops \in Nat

Containers == {"api", "scheduler"}

VARIABLES
  revision,   \* alembic_version
  schema,     \* the tables
  categories, \* name -> how many rows without a parent
  keywords,   \* term -> its row, or None
  filled,     \* tables a script has filled
  phase,      \* container -> how far it has come
  image,      \* container -> the release it is made of
  seen,       \* container -> the revision its alembic has read, or None
  known,      \* the seeds that seed_keywords has found
  released,   \* the revision of the older release
  supplied,   \* the tables whose files are in the image at the head
  trouble, stops

data == <<categories, keywords, filled>>
vars == <<revision, schema, data, phase, image, seen, known, released, supplied, trouble, stops>>

Release(p) == IF image[p] = "head" THEN HeadRevision ELSE released

\* The container ends and is started again.
Restarted(p) ==
  phase' = [phase EXCEPT ![p] = "migrate"] /\ seen' = [seen EXCEPT ![p] = None]

Moves(p, from, to) == phase[p] = from /\ phase' = [phase EXCEPT ![p] = to]

-----------------------------------------------------------------------------
(* docker compose *)

\* up -d --build: the API is made anew, the scheduler is left as it is. It is built with
\* what backend/data holds, to which files are added and from which none is taken.
Deploy ==
  /\ supplied' \in Supplies /\ supplied \subseteq supplied'
  /\ image["api"] = "older" \/ phase["api"] = "down" \/ supplied' # supplied
  /\ image' = [image EXCEPT !["api"] = "head"]
  /\ Restarted("api")
  /\ UNCHANGED <<revision, schema, data, known, released, trouble, stops>>

\* The API is healthy: so is the scheduler.
Recreate ==
  /\ phase["api"] = "run" /\ image["api"] = "head"
  /\ image["scheduler"] = "older" \/ phase["scheduler"] = "down"
  /\ image' = [image EXCEPT !["scheduler"] = "head"]
  /\ Restarted("scheduler")
  /\ UNCHANGED <<revision, schema, data, known, released, supplied, trouble, stops>>

Down ==
  /\ stops < MaxStops /\ stops' = stops + 1
  /\ phase' = [p \in Containers |-> "down"] /\ seen' = [p \in Containers |-> None]
  /\ UNCHANGED <<revision, schema, data, image, known, released, supplied, trouble>>

\* Only containers of known code: the older API is gone with the first step.
Breaks(p) ==
  /\ trouble < MaxTrouble /\ trouble' = trouble + 1
  /\ phase[p] # "down" /\ (p = "api" => image[p] = "head")
  /\ Restarted(p)
  /\ UNCHANGED <<revision, schema, data, image, known, released, supplied, stops>>

-----------------------------------------------------------------------------
(* alembic *)

\* An image that does not know the revision fails, and is started again and again.
ReadRevision(p) ==
  /\ phase[p] = "migrate" /\ seen[p] = None /\ revision <= Release(p)
  /\ seen' = [seen EXCEPT ![p] = revision]
  /\ UNCHANGED <<revision, schema, data, phase, image, known, released, supplied, trouble, stops>>

\* HS names of more than 255 characters are in the official file.
Wide == filled \cap {"hs_codes"}

\* What 0013 does to the rows, and what goes with dropped tables.
RowsAfter(from, to) ==
  LET reset == from < 13 /\ 13 <= to IN
  /\ categories' = [n \in DOMAIN categories |-> IF reset \/ to = 0 THEN 0 ELSE categories[n]]
  /\ keywords' = [t \in Terms |->
       IF to = 0 \/ keywords[t] = None THEN None
       ELSE IF reset THEN [keywords[t] EXCEPT !.category = None] ELSE keywords[t]]
  /\ filled' = filled \cap DOMAIN schema'

Reaches(from, to) ==
  /\ schema' \in Reached(schema, Changes(from, to), Wide)
  /\ revision' = to
  /\ RowsAfter(from, to)

\* The API goes on to the data, the scheduler and the older image do not.
After(p) == IF p = "api" THEN "seed" ELSE "run"

\* All in one transaction, which moves the version row if it is still the one read.
Migrate(p) ==
  /\ phase[p] = "migrate" /\ seen[p] # None
  /\ IF seen[p] = Release(p) THEN UNCHANGED <<revision, schema, data>>
     ELSE seen[p] = revision /\ Reaches(revision, Release(p))
  /\ phase' = [phase EXCEPT ![p] = After(p)]
  /\ UNCHANGED <<image, seen, known, released, supplied, trouble, stops>>

\* By hand, while nothing runs; a downgrade that is refused leaves all as it was.
Downgrade(to) ==
  /\ \A p \in Containers : phase[p] = "down"
  /\ to < revision /\ Reaches(revision, to)
  /\ UNCHANGED <<phase, image, seen, known, released, supplied, trouble, stops>>

-----------------------------------------------------------------------------
(* The data *)

\* Faulty variant: the categories are inserted without a look.
SeedAgain ==
  /\ Moves("api", "seed", "hs_codes")
  /\ categories' = [n \in DOMAIN categories |-> IF n \in Names THEN categories[n] + 1 ELSE categories[n]]
  /\ filled' = filled \cup {"coupang_fees"}
  /\ UNCHANGED <<revision, schema, keywords, image, seen, known, released, supplied, trouble, stops>>

\* Each category is looked up by name and must not be there twice. The sample rows of
\* hs_codes have short names, which any revision holds, and are not told apart.
Seed ==
  /\ Moves("api", "seed", "hs_codes")
  /\ \A n \in Names : categories[n] <= 1
  /\ categories' = [n \in DOMAIN categories |-> IF n \in Names THEN 1 ELSE categories[n]]
  /\ filled' = filled \cup {"coupang_fees"}
  /\ UNCHANGED <<revision, schema, keywords, image, seen, known, released, supplied, trouble, stops>>

\* Without its file a script ends, and the container with it.
MissesFile ==
  /\ phase["api"] \in Files \ supplied
  /\ Restarted("api")
  /\ UNCHANGED <<revision, schema, data, image, known, released, supplied, trouble, stops>>

\* ON CONFLICT names columns that must be unique, in PostgreSQL.
Import(table, target, next) ==
  /\ table \in supplied /\ Moves("api", table, next)
  /\ target \in schema[table].unique
  /\ filled' = filled \cup {table}
  /\ UNCHANGED <<revision, schema, categories, keywords, image, seen, known, released, supplied, trouble, stops>>

ImportHsCodes ==
  /\ Import("hs_codes", {"code"}, "customs_duty_rates")
  /\ schema["hs_codes"].columns["name_ko"].type = Text
ImportCustomsRates == Import("customs_duty_rates", {"hs_code"}, "international_shipping_rates")
ImportShippingRates == Import("international_shipping_rates", {"method", "max_weight_kg"}, "keywords")

ReadSeeds ==
  /\ Moves("api", "keywords", "insert")
  /\ categories[Pet] <= 1
  /\ known' = {t \in SeedTerms : keywords[t] # None}
  /\ UNCHANGED <<revision, schema, data, image, seen, released, supplied, trouble, stops>>

\* Faulty variants: known seeds are put into the category again, or never.
PromotedAgain(row) == [seed |-> TRUE, category |-> Pet]
PromotedOnly(row) == [row EXCEPT !.seed = TRUE]

Promoted(row) ==
  [seed |-> TRUE,
   category |-> IF row.category = None /\ categories[Pet] = 1 THEN Pet ELSE row.category]

\* A seed that a job has inserted meanwhile makes the commit fail: the next start finds it.
InsertSeeds ==
  /\ phase["api"] = "insert"
  /\ IF \E t \in SeedTerms \ known : keywords[t] # None
     THEN Restarted("api") /\ UNCHANGED keywords
     ELSE /\ phase' = [phase EXCEPT !["api"] = "run"] /\ UNCHANGED seen
          /\ keywords' = [t \in Terms |->
               IF t \in known THEN Promoted(keywords[t])
               ELSE IF t \in SeedTerms THEN [seed |-> TRUE, category |-> Pet]
               ELSE keywords[t]]
  /\ UNCHANGED <<revision, schema, categories, filled, image, known, released, supplied, trouble, stops>>

-----------------------------------------------------------------------------
(* What runs meanwhile *)

\* A job of the scheduler, older or new, inserts a term with the category of a seed.
Collect(t) ==
  /\ phase["scheduler"] = "run" /\ keywords[t] = None
  /\ \E s \in Terms :
       /\ keywords[s] # None /\ keywords[s].seed
       /\ keywords' = [keywords EXCEPT ![t] = [seed |-> FALSE, category |-> keywords[s].category]]
  /\ UNCHANGED <<revision, schema, categories, filled, phase, image, seen, known, released, supplied, trouble, stops>>

\* POST /keywords/seed: the term is classified.
Type(t, name) ==
  /\ phase["api"] = "run" /\ image["api"] = "head"
  /\ keywords' = [keywords EXCEPT ![t] = [seed |-> TRUE, category |-> name]]
  /\ UNCHANGED <<revision, schema, categories, filled, phase, image, seen, known, released, supplied, trouble, stops>>

-----------------------------------------------------------------------------

\* A new machine, or one on which an older release runs.
Init ==
  /\ released \in Deployed /\ revision = released
  /\ schema = Known[released]
  /\ categories = [n \in Names \cup {Legacy} |->
       IF released > 0 /\ (n = Legacy <=> released < 13) THEN 1 ELSE 0]
  /\ \E typed \in IF released = 0 THEN {{}} ELSE SUBSET Terms :
       keywords = [t \in Terms |->
         IF t \in typed
         THEN [seed |-> TRUE, category |-> IF released < 13 THEN Legacy ELSE Pet] ELSE None]
  /\ filled = {t \in {"coupang_fees", "hs_codes", "customs_duty_rates", "international_shipping_rates"} :
                 t \in DOMAIN schema}
  /\ phase = [p \in Containers |-> IF released = 0 THEN "down" ELSE "run"]
  /\ image = [p \in Containers |-> "older"] /\ supplied \in Supplies
  /\ seen = [p \in Containers |-> None] /\ known = {} /\ trouble = 0 /\ stops = 0

Boot(p) ==
  \/ ReadRevision(p) \/ Migrate(p)
  \/ /\ p = "api"
     /\ \/ Seed \/ MissesFile \/ ImportHsCodes \/ ImportCustomsRates \/ ImportShippingRates
        \/ ReadSeeds \/ InsertSeeds

Next ==
  \/ Deploy \/ Recreate \/ Down
  \/ \E p \in Containers : Boot(p) \/ Breaks(p)
  \/ \E to \in Deployed : Downgrade(to)
  \/ \E t \in Terms : Collect(t) \/ \E n \in Names : Type(t, n)

Spec == Init /\ [][Next]_vars

\* What is started goes on. Nobody has to start anything: compose gives up waiting for an
\* API that is long unhealthy, and leaves the scheduler as it was.
FairSpec == Spec /\ \A p \in Containers : WF_vars(Boot(p))

-----------------------------------------------------------------------------
(* Properties *)

\* Every step of a boot finds the tables it works on, and the counts are small.
TypeOK ==
  /\ revision \in 0..HeadRevision
  /\ DOMAIN schema = DOMAIN Known[revision] /\ filled \subseteq DOMAIN schema
  /\ \A n \in DOMAIN categories : categories[n] \in 0..1
  /\ keywords \in [Terms -> Rows \cup {None}]
  /\ \A t \in Terms : keywords[t] # None /\ keywords[t].category # None => categories[keywords[t].category] = 1
  /\ trouble \in 0..MaxTrouble /\ stops \in 0..MaxStops

\* "Hand-written initial migration covering every model" (alembic/versions/0001): whatever
\* runs finds the database it was written for, the new code the tables of app/models/, the
\* older scheduler, which runs through the migration, all that it knows.
CodeFits ==
  \A p \in Containers : phase[p] = "run" =>
    Serves(schema, IF image[p] = "head" THEN Declared ELSE Known[released])

\* "default category should exist from seed.py" (routers/keywords.py): once the API answers,
\* each category is there, once, so are the rates, and the seeds are seeds of a category.
Bootstrapped ==
  phase["api"] = "run" /\ image["api"] = "head" =>
    /\ \A n \in Names : categories[n] = 1
    /\ filled = {"coupang_fees", "hs_codes", "customs_duty_rates", "international_shipping_rates"}
    /\ \A t \in SeedTerms : keywords[t] # None /\ keywords[t].seed /\ keywords[t].category # None

\* "All steps are idempotent -- safe to re-run on every container start"
\* (docker-entrypoint.sh): a start takes back nothing that the operator has set.
RestartsKeep ==
  [][revision >= 13 /\ revision' >= 13 /\ phase["api"] # "run" =>
       \A t \in Terms : keywords[t] # None =>
         /\ keywords'[t] # None /\ (keywords[t].seed => keywords'[t].seed)
         /\ keywords[t].category # None => keywords'[t].category = keywords[t].category]_vars

\* The entrypoint ends at the first step that fails, and compose starts it again
\* (docker-entrypoint.sh, docker-compose.yml): from any revision, after any downgrade and
\* any crash, a container of this release runs in the end, or is stopped, the scheduler
\* always and the API once all files are in its image.
Started(p) == phase[p] = "migrate" /\ image[p] = "head"
Ready ==
  \A p \in Containers :
    Started(p) /\ (p = "api" => supplied = Files) ~> phase[p] \in {"run", "down"}

=============================================================================
