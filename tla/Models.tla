------------------------------- MODULE Models -------------------------------
(***************************************************************************)
(* The tables as app/models/ declares them: what the code of the head      *)
(* expects of the database. Relationships and defaults that Python fills   *)
(* in are left out.                                                        *)
(***************************************************************************)
EXTENDS Schema

ApiCache == Table(
  Required({"cache_key"}, Varchar(512)) ++ Required({"response_json"}, Jsonb) ++ Required({"expires_at"}, Instant),
  {{"cache_key"}}, {})

Category == Table(
  Required({"name"}, Varchar(100)) ++ Optional({"parent_id"}, Bigint)
    ++ Defaulted({"is_certification_required"}, Bool),
  {}, {Ref("parent_id", "categories", "id", "RESTRICT")})

ChannelProfit == Table(
  Required({"product_score_id"}, Bigint) ++ Required({"channel"}, Enum("sales_channel"))
    ++ Required({"unit_cost_krw", "expected_price_krw", "unit_profit_krw"}, Numeric(12, 2))
    ++ Required({"platform_fee_pct", "ad_cost_pct", "margin_pct"}, Numeric(6, 3))
    ++ Required({"roi_pct"}, Numeric(7, 3)) ++ Required({"breakeven_units"}, Int4),
  {{"product_score_id", "channel"}}, {Ref("product_score_id", "product_scores", "id", "CASCADE")})

CoupangFee == Table(
  Required({"category_path"}, Varchar(255)) ++ Required({"fee_pct"}, Numeric(6, 3))
    ++ Required({"effective_from"}, Day),
  {{"category_path", "effective_from"}}, {})

CustomsDutyRate == Table(
  Required({"hs_code"}, Varchar(10)) ++ Optional({"base_duty_pct", "kcfta_duty_pct"}, Numeric(5, 4))
    ++ Optional({"effective_start", "effective_end"}, Day),
  {{"hs_code"}}, {})

DetailPage == Table(
  Required({"source_product_id"}, Bigint) ++ Defaulted({"status"}, Varchar(16))
    ++ Optional({"title_ko"}, Varchar(200)) ++ Optional({"props"}, Jsonb)
    ++ Optional({"image_path"}, Varchar(255)) ++ Optional({"failure_reason"}, Text)
    ++ Defaulted({"template_name"}, Varchar(64)),
  {}, {Ref("source_product_id", "source_products", "id", "CASCADE")})

ExchangeRate == Table(
  Required({"currency_pair"}, Varchar(10)) ++ Required({"rate"}, Numeric(14, 6))
    ++ Defaulted({"fetched_at"}, Instant),
  {}, {})

Feedback == Table(
  Required({"product_id"}, Bigint) ++ Defaulted({"purchased"}, Bool) ++ Optional({"monthly_sales"}, Int4)
    ++ Optional({"actual_revenue"}, Numeric(14, 2)) ++ Optional({"notes"}, Text)
    ++ Defaulted({"recorded_at"}, Instant),
  {}, OfProduct)

HsCode == Table(
  Required({"code"}, Varchar(10)) ++ Required({"name_ko"}, Text) ++ Optional({"name_en"}, Text)
    ++ Optional({"category_id"}, Bigint),
  {{"code"}}, OfCategory)

ImportStat == Table(
  Required({"hs_code"}, Varchar(10)) ++ Required({"year_month"}, Varchar(7))
    ++ Defaulted({"country_code"}, Varchar(3)) ++ Optional({"import_quantity"}, Numeric(20, 3))
    ++ Optional({"import_value_usd"}, Numeric(20, 2)),
  {{"hs_code", "year_month", "country_code"}}, OfHsCode)

InternationalShippingRate == Table(
  Required({"method"}, Varchar(32)) ++ Required({"max_weight_kg"}, Numeric(7, 2))
    ++ Required({"general_seller_krw", "super_seller_krw", "partner_krw"}, Int4),
  {{"method", "max_weight_kg"}}, {})

Keyword == Table(
  Required({"term"}, Varchar(255)) ++ Optional({"category_id"}, Bigint) ++ Defaulted({"is_seed"}, Bool)
    ++ Defaulted({"status"}, Enum("keyword_status")) ++ Optional({"last_collected_at"}, Instant)
    ++ Optional({"chinese_term"}, Text),
  {{"term"}}, OfCategory)

KeywordHsMapping == Table(
  Required({"keyword_id"}, Bigint) ++ Required({"hs_code"}, Varchar(10))
    ++ Defaulted({"confidence"}, Numeric(4, 3)) ++ Defaulted({"is_manual"}, Bool),
  {{"keyword_id", "hs_code"}}, OfKeyword("CASCADE") \cup OfHsCode)

KeywordMetric == Table(
  Required({"keyword_id"}, Bigint) ++ Required({"snapshot_date"}, Day)
    ++ Optional({"monthly_search_volume", "naver_shopping_count", "blog_post_count", "youtube_video_count"}, Int4)
    ++ Optional({"competition_score"}, Numeric(6, 3))
    ++ Optional({"growth_rate_3m", "growth_rate_6m"}, Numeric(10, 4))
    ++ Optional({"shopping_avg_price_krw"}, Int4),
  {{"keyword_id", "snapshot_date"}}, OfKeyword("CASCADE"))

OpportunityScore == Table(
  Required({"keyword_id"}, Bigint) ++ Required({"snapshot_date"}, Day)
    ++ Required({"total_score", "demand_score", "growth_score", "competition_score", "customs_score",
                 "trend_score", "stability_score"}, Numeric(6, 2))
    ++ Defaulted({"is_excluded"}, Bool) ++ Optional({"exclusion_reasons"}, Text) ++ Optional({"details"}, Jsonb),
  {{"keyword_id", "snapshot_date"}}, OfKeyword("CASCADE"))

Product == Table(
  ((Optional({"keyword_id"}, Bigint) ++ Required({"url"}, Varchar(2048)) ++ Optional({"name"}, Varchar(500))
      ++ Required({"cny_price"}, Numeric(12, 2)) ++ Required({"moq"}, Int4))
    ++ (Optional({"image_url"}, Varchar(2048)) ++ Optional({"notes"}, Text)
      ++ Optional({"created_by_user"}, Varchar(255))))
  ++ (Optional({"china_domestic_shipping_krw", "intl_shipping_krw"}, Int4)
    ++ Optional({"customs_duty_pct"}, Numeric(5, 4)) ++ Optional({"expected_sell_price_krw"}, Int4)
    ++ Optional({"ad_cost_pct"}, Numeric(5, 4))
    ++ (Optional({"unit_weight_kg"}, Numeric(6, 3)) ++ Optional({"shipping_method"}, Varchar(32)))),
  {}, OfKeyword("SET NULL"))

ProductScore == Table(
  Required({"product_id"}, Bigint) ++ Required({"snapshot_date"}, Day)
    ++ Required({"total_score", "opportunity_score", "profit_score", "risk_score", "stability_score"}, Numeric(6, 2))
    ++ Required({"recommendation"}, Enum("product_recommendation")),
  {{"product_id", "snapshot_date"}}, OfProduct)

SeedCandidate == Table(
  (Required({"term"}, Varchar(255)) ++ Optional({"hs_code"}, Varchar(10))
    ++ Optional({"import_value_krw_3m"}, Bigint)
    ++ Optional({"import_growth_3m_pct", "search_growth_3m_pct"}, Numeric(8, 2))
    ++ Optional({"avg_unit_price_krw", "monthly_search_volume"}, Int4))
    ++ (Required({"combined_score"}, Numeric(8, 2)) ++ Required({"is_approved"}, Bool)
      ++ Optional({"approved_at"}, Instant) ++ Required({"last_refreshed_at"}, Instant)),
  {{"term"}}, {})

SourceProduct == Table(
  Required({"source_url"}, Varchar(2048)) ++ Required({"source_platform"}, Varchar(16))
    ++ Required({"raw_payload"}, Jsonb),
  {{"source_url"}}, {})

Declared ==
  [api_cache |-> ApiCache, categories |-> Category, channel_profits |-> ChannelProfit,
   coupang_fees |-> CoupangFee, customs_duty_rates |-> CustomsDutyRate, detail_pages |-> DetailPage,
   exchange_rates |-> ExchangeRate, feedbacks |-> Feedback, hs_codes |-> HsCode, import_stats |-> ImportStat,
   international_shipping_rates |-> InternationalShippingRate, keywords |-> Keyword,
   keyword_hs_mappings |-> KeywordHsMapping, keyword_metrics |-> KeywordMetric,
   opportunity_scores |-> OpportunityScore, products |-> Product, product_scores |-> ProductScore,
   seed_candidates |-> SeedCandidate, source_products |-> SourceProduct]

\* What a column of the code asks of one of the database: a type that holds as much, and a
\* default of the server where the code leaves the value to it.
ColumnServes(db, code) ==
  /\ db.type = code.type \/ Narrower(code.type, db.type)
  /\ db.kind = code.kind \/ (code.kind = "required" /\ db.kind = "defaulted")

\* Code for one schema runs on another: it finds all it uses, it is refused nothing more,
\* and it may leave out of an INSERT what it does not know.
Serves(db, code) ==
  \A t \in DOMAIN code :
    /\ t \in DOMAIN db /\ db[t].unique = code[t].unique /\ db[t].refs = code[t].refs
    /\ \A c \in DOMAIN code[t].columns :
         c \in DOMAIN db[t].columns /\ ColumnServes(db[t].columns[c], code[t].columns[c])
    /\ \A c \in DOMAIN db[t].columns \ DOMAIN code[t].columns : db[t].columns[c].kind # "required"

=============================================================================
