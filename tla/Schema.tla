------------------------------- MODULE Schema -------------------------------
(***************************************************************************)
(* The schema of the database and its migrations.                          *)
(*                                                                         *)
(*   alembic/versions/0001 ... 0016   hand-written, both ways              *)
(*   app/models/                      what the code of the head expects    *)
(*                                                                         *)
(* A schema is a function from the names of its tables. Indexes that are   *)
(* not unique and CHECK constraints are left out.                          *)
(***************************************************************************)
EXTENDS Naturals, Sequences

\* f, and what g adds to it.
f ++ g == [x \in DOMAIN f \cup DOMAIN g |-> IF x \in DOMAIN f THEN f[x] ELSE g[x]]

Bigint == <<"bigint">>
Int4 == <<"integer">>
Bool == <<"boolean">>
Day == <<"date">>
Instant == <<"timestamptz">>
Text == <<"text">>
Jsonb == <<"jsonb">>
Varchar(n) == <<"varchar", n>>
Numeric(digits, scale) == <<"numeric", digits, scale>>
Enum(name) == <<"enum", name>>

\* A column is NOT NULL, NULL, or NOT NULL with a default of the server.
Columns(names, type, kind) == [c \in names |-> [type |-> type, kind |-> kind]]
Required(names, type) == Columns(names, type, "required")
Optional(names, type) == Columns(names, type, "optional")
Defaulted(names, type) == Columns(names, type, "defaulted")

Stamps == Defaulted({"created_at", "updated_at"}, Instant)

Table(columns, unique, refs) ==
  [columns |-> Defaulted({"id"}, Bigint) ++ Stamps ++ columns,
   unique |-> {{"id"}} \cup unique, refs |-> refs]

Ref(column, table, target, ondelete) ==
  [column |-> column, table |-> table, target |-> target, ondelete |-> ondelete]

OfKeyword(ondelete) == {Ref("keyword_id", "keywords", "id", ondelete)}
OfCategory == {Ref("category_id", "categories", "id", "SET NULL")}
OfHsCode == {Ref("hs_code", "hs_codes", "code", "CASCADE")}
OfProduct == {Ref("product_id", "products", "id", "CASCADE")}

-----------------------------------------------------------------------------
(* What a migration does *)

NoChange ==
  [create |-> <<>>, order |-> <<>>, drop |-> <<>>, add |-> <<>>, remove |-> <<>>, retype |-> <<>>]

Creates(tables, order) == [[NoChange EXCEPT !.create = tables] EXCEPT !.order = order]
Drops(order) == [NoChange EXCEPT !.drop = order]
Adds(table, columns) == [NoChange EXCEPT !.add = [t \in {table} |-> columns]]
Removes(table, columns) == [NoChange EXCEPT !.remove = [t \in {table} |-> columns]]
Retypes(table, columns, type) == [NoChange EXCEPT !.retype = [t \in {table} |-> [c \in columns |-> type]]]

Elements(list) == {list[n] : n \in DOMAIN list}
At(changes, table, none) == IF table \in DOMAIN changes THEN changes[table] ELSE none

Changed(columns, change, table) ==
  LET kept == [c \in DOMAIN columns \ At(change.remove, table, {}) |->
                 IF c \in DOMAIN At(change.retype, table, <<>>)
                 THEN [columns[c] EXCEPT !.type = change.retype[table][c]] ELSE columns[c]]
  IN  kept ++ At(change.add, table, <<>>)

Applied(schema, change) ==
  LET all == schema ++ change.create IN
  [t \in DOMAIN all \ Elements(change.drop) |->
     [all[t] EXCEPT !.columns = Changed(@, change, t)]]

\* What is referred to is there, unique and of the same type.
Resolves(schema, table, ref) ==
  /\ ref.table \in DOMAIN schema /\ {ref.target} \in schema[ref.table].unique
  /\ schema[ref.table].columns[ref.target].type = table.columns[ref.column].type

Refers(schema, t) == {r.table : r \in schema[t].refs} \ {t}

Narrower(type, than) ==
  \/ type[1] = "varchar" /\ than = Text
  \/ type[1] = "numeric" /\ than[1] = "numeric" /\ type[2] < than[2]

\* Postgres refuses what exists already, what is missing, and to drop what is referred to;
\* and a narrower type for a column that holds a wider value.
Possible(schema, change, wide) ==
  LET at(n) == DOMAIN schema \cup {change.order[m] : m \in 1..n}
      rest(n) == DOMAIN schema \ {change.drop[m] : m \in 1..n}
      after == Applied(schema, change) IN
  /\ \A n \in DOMAIN change.order :
       change.order[n] \notin at(n - 1) /\ Refers(change.create, change.order[n]) \subseteq at(n)
  /\ \A t \in DOMAIN change.create : \A r \in change.create[t].refs : Resolves(after, change.create[t], r)
  /\ \A n \in DOMAIN change.drop :
       change.drop[n] \in rest(n - 1) /\ \A t \in rest(n) : change.drop[n] \notin Refers(schema, t)
  /\ \A t \in DOMAIN change.add :
       t \in DOMAIN schema /\ DOMAIN change.add[t] \cap DOMAIN schema[t].columns = {}
  /\ \A t \in DOMAIN change.remove : t \in DOMAIN schema /\ change.remove[t] \subseteq DOMAIN schema[t].columns
  /\ \A t \in DOMAIN change.retype :
       /\ t \in DOMAIN schema /\ DOMAIN change.retype[t] \subseteq DOMAIN schema[t].columns
       /\ t \in wide => \A c \in DOMAIN change.retype[t] :
            ~Narrower(change.retype[t][c], schema[t].columns[c].type)

-----------------------------------------------------------------------------
(* 0001 *)

Taxonomy ==
  [categories |-> Table(
    Required({"name"}, Varchar(100)) ++ Optional({"parent_id"}, Bigint)
      ++ Defaulted({"is_certification_required"}, Bool),
    {}, {Ref("parent_id", "categories", "id", "RESTRICT")}),
   hs_codes |-> Table(
    Required({"code"}, Varchar(10)) ++ Required({"name_ko"}, Varchar(255))
      ++ Optional({"name_en"}, Varchar(255)) ++ Optional({"category_id"}, Bigint),
    {{"code"}}, OfCategory)]

Searches ==
  [keywords |-> Table(
    Required({"term"}, Varchar(255)) ++ Optional({"category_id"}, Bigint) ++ Defaulted({"is_seed"}, Bool)
      ++ Defaulted({"status"}, Enum("keyword_status")) ++ Optional({"last_collected_at"}, Instant),
    {{"term"}}, OfCategory),
   keyword_hs_mappings |-> Table(
    Required({"keyword_id"}, Bigint) ++ Required({"hs_code"}, Varchar(10))
      ++ Defaulted({"confidence"}, Numeric(4, 3)) ++ Defaulted({"is_manual"}, Bool),
    {{"keyword_id", "hs_code"}}, OfKeyword("CASCADE") \cup OfHsCode)]

Snapshots ==
  [keyword_metrics |-> Table(
    Required({"keyword_id"}, Bigint) ++ Required({"snapshot_date"}, Day)
      ++ Optional({"monthly_search_volume", "naver_shopping_count", "blog_post_count", "youtube_video_count"}, Int4)
      ++ Optional({"competition_score"}, Numeric(6, 3))
      ++ Optional({"growth_rate_3m", "growth_rate_6m"}, Numeric(7, 4)),
    {{"keyword_id", "snapshot_date"}}, OfKeyword("CASCADE")),
   import_stats |-> Table(
    Required({"hs_code"}, Varchar(10)) ++ Required({"year_month"}, Varchar(7))
      ++ Defaulted({"country_code"}, Varchar(3)) ++ Optional({"import_quantity"}, Numeric(20, 3))
      ++ Optional({"import_value_usd"}, Numeric(20, 2)),
    {{"hs_code", "year_month", "country_code"}}, OfHsCode),
   opportunity_scores |-> Table(
    Required({"keyword_id"}, Bigint) ++ Required({"snapshot_date"}, Day)
      ++ Required({"total_score", "demand_score", "growth_score", "competition_score", "customs_score",
                   "trend_score", "stability_score"}, Numeric(6, 2))
      ++ Defaulted({"is_excluded"}, Bool) ++ Optional({"exclusion_reasons"}, Text),
    {{"keyword_id", "snapshot_date"}}, OfKeyword("CASCADE"))]

Offer ==
  (Optional({"keyword_id"}, Bigint) ++ Required({"url"}, Varchar(2048)) ++ Optional({"name"}, Varchar(500))
    ++ Required({"cny_price"}, Numeric(12, 2)) ++ Required({"moq"}, Int4))
  ++ (Optional({"image_url"}, Varchar(2048)) ++ Optional({"notes"}, Text)
    ++ Optional({"created_by_user"}, Varchar(255)))

Sourcing ==
  [products |-> Table(Offer, {}, OfKeyword("SET NULL")),
   product_scores |-> Table(
    Required({"product_id"}, Bigint) ++ Required({"snapshot_date"}, Day)
      ++ Required({"total_score", "opportunity_score", "profit_score", "risk_score", "stability_score"}, Numeric(6, 2))
      ++ Required({"recommendation"}, Enum("product_recommendation")),
    {{"product_id", "snapshot_date"}}, OfProduct),
   channel_profits |-> Table(
    Required({"product_score_id"}, Bigint) ++ Required({"channel"}, Enum("sales_channel"))
      ++ Required({"unit_cost_krw", "expected_price_krw", "unit_profit_krw"}, Numeric(12, 2))
      ++ Required({"platform_fee_pct", "ad_cost_pct", "margin_pct"}, Numeric(6, 3))
      ++ Required({"roi_pct"}, Numeric(7, 3)) ++ Required({"breakeven_units"}, Int4),
    {{"product_score_id", "channel"}}, {Ref("product_score_id", "product_scores", "id", "CASCADE")})]

Outcomes ==
  [feedbacks |-> Table(
    Required({"product_id"}, Bigint) ++ Defaulted({"purchased"}, Bool) ++ Optional({"monthly_sales"}, Int4)
      ++ Optional({"actual_revenue"}, Numeric(14, 2)) ++ Optional({"notes"}, Text)
      ++ Defaulted({"recorded_at"}, Instant),
    {}, OfProduct),
   coupang_fees |-> Table(
    Required({"category_path"}, Varchar(255)) ++ Required({"fee_pct"}, Numeric(6, 3))
      ++ Required({"effective_from"}, Day),
    {{"category_path", "effective_from"}}, {}),
   exchange_rates |-> Table(
    Required({"currency_pair"}, Varchar(10)) ++ Required({"rate"}, Numeric(14, 6))
      ++ Defaulted({"fetched_at"}, Instant),
    {}, {}),
   api_cache |-> Table(
    Required({"cache_key"}, Varchar(512)) ++ Required({"response_json"}, Jsonb) ++ Required({"expires_at"}, Instant),
    {{"cache_key"}}, {})]

Migration(up, down) == [up |-> up, down |-> down]

InitialSchema == Migration(
  Creates(Taxonomy ++ Searches ++ Snapshots ++ Sourcing ++ Outcomes,
    <<"categories", "hs_codes", "keywords", "keyword_hs_mappings", "keyword_metrics", "import_stats",
      "opportunity_scores", "products", "product_scores", "channel_profits", "feedbacks", "coupang_fees",
      "exchange_rates", "api_cache">>),
  Drops(<<"api_cache", "exchange_rates", "coupang_fees", "feedbacks", "channel_profits", "product_scores",
    "products", "opportunity_scores", "import_stats", "keyword_metrics", "keyword_hs_mappings", "keywords",
    "hs_codes", "categories">>))

-----------------------------------------------------------------------------
(* 0002 ... 0016 *)

HsCodesNameText ==
  LET names == {"name_ko", "name_en"} IN
  Migration(Retypes("hs_codes", names, Text), Retypes("hs_codes", names, Varchar(255)))

KeywordMetricsWidenGrowth ==
  LET rates == {"growth_rate_3m", "growth_rate_6m"} IN
  Migration(Retypes("keyword_metrics", rates, Numeric(10, 4)), Retypes("keyword_metrics", rates, Numeric(7, 4)))

\* A column, or columns, that may be NULL.
NewColumns(table, columns, type) ==
  Migration(Adds(table, Optional(columns, type)), Removes(table, columns))

MetricsAvgPrice == NewColumns("keyword_metrics", {"shopping_avg_price_krw"}, Int4)
ScoreDetails == NewColumns("opportunity_scores", {"details"}, Jsonb)
ChineseTerm == NewColumns("keywords", {"chinese_term"}, Text)
ProductShipping == NewColumns("products", {"china_domestic_shipping_krw", "intl_shipping_krw"}, Int4)

\* Faulty variant: a rate that must be given.
ProductDutyRateRequired ==
  Migration(Adds("products", Required({"customs_duty_pct"}, Numeric(5, 4))),
            Removes("products", {"customs_duty_pct"}))

ProductDutyRate == NewColumns("products", {"customs_duty_pct"}, Numeric(5, 4))

ProductSellPrice == NewColumns("products", {"expected_sell_price_krw"}, Int4)
ProductAdCost == NewColumns("products", {"ad_cost_pct"}, Numeric(5, 4))

DutyTable == [customs_duty_rates |-> Table(
  Required({"hs_code"}, Varchar(10)) ++ Optional({"base_duty_pct", "kcfta_duty_pct"}, Numeric(5, 4))
    ++ Optional({"effective_start", "effective_end"}, Day),
  {{"hs_code"}}, {})]

CustomsDutyRates ==
  Migration(Creates(DutyTable, <<"customs_duty_rates">>), Drops(<<"customs_duty_rates">>))

RateTable == [international_shipping_rates |-> Table(
  Required({"method"}, Varchar(32)) ++ Required({"max_weight_kg"}, Numeric(7, 2))
    ++ Required({"general_seller_krw", "super_seller_krw", "partner_krw"}, Int4),
  {{"method", "max_weight_kg"}}, {})]
RateColumns == Optional({"unit_weight_kg"}, Numeric(6, 3)) ++ Optional({"shipping_method"}, Varchar(32))

\* Faulty variant: the way back leaves the columns of products.
ShippingRatesLeft ==
  Migration([Creates(RateTable, <<"international_shipping_rates">>) EXCEPT !.add = [products |-> RateColumns]],
            Drops(<<"international_shipping_rates">>))

ShippingRates ==
  Migration([Creates(RateTable, <<"international_shipping_rates">>) EXCEPT !.add = [products |-> RateColumns]],
            [Drops(<<"international_shipping_rates">>) EXCEPT !.remove = [products |-> DOMAIN RateColumns]])

\* Rows only.
ResetCategories == Migration(NoChange, NoChange)

CandidateTable == [seed_candidates |-> Table(
  (Required({"term"}, Varchar(255)) ++ Optional({"hs_code"}, Varchar(10))
    ++ Optional({"import_value_krw_3m"}, Bigint)
    ++ Optional({"import_growth_3m_pct", "search_growth_3m_pct"}, Numeric(8, 2))
    ++ Optional({"avg_unit_price_krw", "monthly_search_volume"}, Int4))
    ++ (Defaulted({"combined_score"}, Numeric(8, 2)) ++ Defaulted({"is_approved"}, Bool)
      ++ Optional({"approved_at"}, Instant) ++ Defaulted({"last_refreshed_at"}, Instant)),
  {{"term"}}, {})]

SeedCandidates ==
  Migration(Creates(CandidateTable, <<"seed_candidates">>), Drops(<<"seed_candidates">>))

PageTables ==
  [source_products |-> Table(
     Required({"source_url"}, Varchar(2048)) ++ Required({"source_platform"}, Varchar(16))
       ++ Required({"raw_payload"}, Jsonb),
     {{"source_url"}}, {}),
   detail_pages |-> Table(
     Required({"source_product_id"}, Bigint) ++ Defaulted({"status"}, Varchar(16))
       ++ Optional({"title_ko"}, Varchar(200)) ++ Optional({"props"}, Jsonb)
       ++ Optional({"image_path"}, Varchar(255)) ++ Optional({"failure_reason"}, Text),
     {}, {Ref("source_product_id", "source_products", "id", "CASCADE")})]

DetailPageTables ==
  Migration(Creates(PageTables, <<"source_products", "detail_pages">>),
            Drops(<<"detail_pages", "source_products">>))

DetailPageTemplate ==
  Migration(Adds("detail_pages", Defaulted({"template_name"}, Varchar(64))),
            Removes("detail_pages", {"template_name"}))

Migrations ==
  <<InitialSchema, HsCodesNameText, KeywordMetricsWidenGrowth, MetricsAvgPrice, ScoreDetails, ChineseTerm,
    ProductShipping, ProductDutyRate, CustomsDutyRates, ProductSellPrice, ProductAdCost, ShippingRates,
    ResetCategories, SeedCandidates, DetailPageTables, DetailPageTemplate>>

HeadRevision == Len(Migrations)

\* The changes on the way from one revision to another, either way.
Changes(from, to) ==
  IF from <= to THEN [n \in 1..(to - from) |-> Migrations[from + n].up]
  ELSE [n \in 1..(from - to) |-> Migrations[from - n + 1].down]

\* The schema that changes lead to, or none if the database refuses one of them.
Reached(schema, changes, wide) ==
  LET reached[n \in 0..Len(changes)] ==
        IF n = 0 THEN {schema}
        ELSE {Applied(s, changes[n]) : s \in {r \in reached[n - 1] : Possible(r, changes[n], wide)}}
  IN  reached[Len(changes)]

\* The schema of each revision, as the migrations build it.
Known ==
  LET known[r \in 0..HeadRevision] == IF r = 0 THEN <<>> ELSE Applied(known[r - 1], Migrations[r].up)
  IN  [r \in 0..HeadRevision |-> known[r]]

=============================================================================
