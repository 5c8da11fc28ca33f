---------------------------- MODULE ToolSources ----------------------------
(***************************************************************************)
(* Where the tools of tools_legacy.py get their answers: for each tool the *)
(* sources it asks, in order, and what it does with what they say.  A      *)
(* source gives data, answers without giving any (a gap), or fails: an     *)
(* error, which stands for one that is skipped too, for want of a key, of  *)
(* quota or of health.  An answer without data should carry the marker     *)
(* [DATA_MISSING:...].                                                     *)
(***************************************************************************)
Outcomes == {"data", "gap", "error"}
Data     == {"data"}
Missing  == {"gap", "error"}

(* ends:  outcomes that end the call with the answer of this source         *)
(* keeps: answers that are put into the cache when it ends here             *)
(* mute:  outcomes that end it without data and without a marker            *)
(* part:  what it gives is one part of the answer                           *)
Step(source, ends, keeps, mute, part) ==
    [source |-> source, ends |-> ends, keeps |-> keeps, mute |-> mute, part |-> part]

(* The next source is asked unless this one has data.                      *)
Else(source) == Step(source, Data, Data, {}, FALSE)

(* The answer is put together from this and the sources after it.          *)
Part(source) == Step(source, {}, {}, {}, TRUE)

Final(source, keeps, mute) == Step(source, Outcomes, keeps, mute, TRUE)

(***************************************************************************)
(* News, posts and models.                                                 *)
(***************************************************************************)
(* The order of the first two is that of their health.                     *)
MarketSearch == <<Else("newsapi"), Else("gnews"), Final("apify", {"data", "gap"}, {})>>
RumorScanner == <<Else("rss"), Else("newsapi"), Final("apify", {"data", "gap"}, {})>>
AiMomentum   == <<Else("huggingface"), Else("openrouter"), Else("rss"),
                  Final("apify", {"data", "gap"}, {})>>
CryptoPanic  == <<Final("cryptopanic", Data, {"gap"})>>
XSearch      == <<Else("twitter"), Final("rapidapi", Outcomes, {})>>
NewsApi      == <<Final("newsapi", Data, {})>>
GNews        == <<Final("gnews", Data, {})>>
RssFeed      == <<Final("rss", Data, {})>>
PredictionMarkets == <<Final("polymarket", Data, {})>>

(* A model that is gone (a gap) gives way to the next; any other error     *)
(* ends the call.                                                          *)
SentimentScore == <<Step("gemini", {"data", "error"}, Data, {}, FALSE),
                    Step("openai", {"data", "error"}, Data, {}, FALSE),
                    Final("openrouter", Data, {})>>

(***************************************************************************)
(* Derivatives, flows and the chain.                                       *)
(***************************************************************************)
(* A parser's own "missing" is an answer like any other; only an empty     *)
(* open interest goes on to the next source, as an error.                  *)
CoinGlass == Step("coinglass", {"data", "gap"}, {"data", "gap"}, {}, FALSE)

CoinglassRates        == <<CoinGlass, Final("binance", Outcomes, {})>>
CoinglassLiquidations == <<CoinGlass, Else("binance"), Final("apify", Outcomes, {})>>
CoinglassOptions      == <<CoinGlass, Final("deribit", Outcomes, {})>>
EtfFlow     == <<Else("coinglass"), Else("sosovalue"), Else("apify"), Final("yfinance", Data, {})>>
Onchain     == <<Part("cryptoquant_sopr"), Part("cryptoquant_netflow"), Part("blockchain_info"),
                 Final("glassnode", Outcomes, {})>>
FearGreed   == <<Final("alternative_me", Data, {})>>
Cot         == <<Final("cftc", Data, {})>>
Grayscale   == <<Part("yfinance_gbtc"), Final("yfinance_ethe", Data, {})>>

(***************************************************************************)
(* Readings and verdicts made of several parts; what is missing is a       *)
(* neutral score or an N/A.                                                *)
(***************************************************************************)
RegimeScorecard == <<Part("yfinance_vix"), Part("coinglass_etf"), Part("coinglass_funding"),
                     Part("coinglass_liquidations"), Part("alternative_me"),
                     Final("yfinance_rsi", Outcomes, Missing)>>
MultiTimeframe  == <<Part("yfinance_1d"), Part("yfinance_4h"), Final("yfinance_1h", Outcomes, Missing)>>
ValuationAnchor == <<Part("yfinance_mvrv"), Part("blockchain_info_nvt"),
                     Final("coingecko_dominance", Outcomes, Missing)>>
(* Each yield from yfinance or else from FRED.                             *)
MacroContext    == <<Part("yield_10y"), Part("yield_2y"), Part("yfinance_gspc"), Part("yfinance_spy"),
                     Final("yfinance_sofr", Outcomes, Missing)>>
(* Both the history and the prices are needed.                             *)
MlQuant         == <<Step("bigquery", Missing, {}, Missing, FALSE),
                     Final("coingecko", Data, Missing)>>

(***************************************************************************)
(* The rest.                                                               *)
(***************************************************************************)
(* A reply of FMP that is no list is read as "no events this week".        *)
EconCalendar == <<Step("fmp", {"data", "gap"}, {"data", "gap"}, {"gap"}, FALSE),
                  Final("apify", Outcomes, {"gap"})>>
(* Without a valid ticker there is nothing to ask: a gap.                  *)
FinancialDatasets == <<Final("financialdatasets", {"data", "error"}, {"error"})>>
Correlation      == <<Final("yfinance", Data, {})>>
HistoricalAnalog == <<Final("yfinance", Data, {})>>
(* Prices of no symbol are lines of N/A (a gap); no prices at all an error.*)
AiSectorMarket   == <<Final("yfinance", {"data", "gap"}, {"gap"})>>
GspcAnchor       == <<Final("yfinance", Data, Missing)>>
SpyAnchor        == <<Final("yfinance", Data, Missing)>>

Chain ==
    [market_search |-> MarketSearch, rumor_scanner |-> RumorScanner, ai_momentum |-> AiMomentum,
     cryptopanic |-> CryptoPanic, x_search |-> XSearch, newsapi |-> NewsApi, gnews |-> GNews,
     rss_feed |-> RssFeed, prediction_markets |-> PredictionMarkets,
     sentiment_score |-> SentimentScore, coinglass_rates |-> CoinglassRates,
     coinglass_liquidations |-> CoinglassLiquidations, coinglass_options |-> CoinglassOptions,
     etf_flow |-> EtfFlow, onchain_metrics |-> Onchain, fear_greed |-> FearGreed,
     cot_positioning |-> Cot, grayscale_premium |-> Grayscale,
     regime_scorecard |-> RegimeScorecard, multi_timeframe |-> MultiTimeframe,
     valuation_anchor |-> ValuationAnchor, macro_context |-> MacroContext, ml_quant |-> MlQuant,
     econ_calendar |-> EconCalendar, financial_datasets |-> FinancialDatasets,
     correlation_matrix |-> Correlation, historical_analog |-> HistoricalAnalog,
     ai_sector_market |-> AiSectorMarket, gspc_anchor |-> GspcAnchor, spy_anchor |-> SpyAnchor]

Tools == DOMAIN Chain
=============================================================================
