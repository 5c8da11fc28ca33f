----------------------------- MODULE ToolCalls -----------------------------
(***************************************************************************)
(* Calls of one tool by the threads of the two crews, through the cache    *)
(* they share (tools_cache_http.py): looked up without its lock, changed   *)
(* under it, for ten minutes.                                              *)
(***************************************************************************)
EXTENDS Naturals, Sequences, ToolSources

CONSTANTS Crews,    \* the threads
          MaxCalls  \* bound, for model checking

ASSUME ToolCallsConstants == MaxCalls \in Nat

VARIABLES tool,    \* the tool they call, with the same arguments
          cache,   \* its entry in _CACHE
          call,    \* [Crews -> where its call is]
          \* what happened so far
          calls,
          answer   \* [Crews -> what its last call returned]

toolVars == <<tool, cache, call, calls, answer>>

NoEntry == [kept |-> FALSE, expired |-> FALSE, data |-> FALSE, mute |-> FALSE]
NoCall  == [at |-> "none", step |-> 1, got |-> FALSE, data |-> FALSE, mute |-> FALSE]
Nothing == [data |-> TRUE, mute |-> FALSE, cached |-> FALSE, asked |-> 0]

ToolInit ==
    /\ tool \in Tools
    /\ cache = NoEntry
    /\ call = [c \in Crews |-> NoCall]
    /\ calls = 0 /\ answer = [c \in Crews |-> Nothing]

Set(c, r) == call' = [call EXCEPT ![c] = r]

Return(c, data, mute, cached, asked) ==
    answer' = [answer EXCEPT ![c] = [data |-> data, mute |-> mute, cached |-> cached, asked |-> asked]]

(* _get_cache: a hit ends the call; an entry whose time is up is found     *)
(* here and dropped a moment later.                                        *)
LookUp(c) ==
    /\ call[c].at = "none" /\ calls < MaxCalls
    /\ calls' = calls + 1
    /\ IF cache.kept /\ ~ cache.expired
       THEN Return(c, cache.data, cache.mute, TRUE, 0) /\ UNCHANGED call
       ELSE /\ Set(c, [NoCall EXCEPT !.at = IF cache.kept THEN "drop" ELSE "ask"])
            /\ UNCHANGED answer
    /\ UNCHANGED <<tool, cache>>

(* Whatever is there now, also what the other thread just put there.       *)
DropExpired(c) ==
    /\ call[c].at = "drop"
    /\ cache' = NoEntry
    /\ Set(c, [NoCall EXCEPT !.at = "ask"])
    /\ UNCHANGED <<tool, calls, answer>>

(* Puts whatever the last source said into the cache. *)
Ask_Mutant_KeepsAll(c) ==
    /\ call[c].at = "ask"
    /\ \E o \in Outcomes :
          LET s    == Chain[tool][call[c].step]
              data == o = "data" \/ (s.part /\ call[c].got)
              now  == [call[c] EXCEPT !.got = @ \/ (s.part /\ o = "data"), !.data = data,
                                      !.mute = ~ data /\ o \in s.mute]
          IN  Set(c, IF o \in s.ends THEN [now EXCEPT !.at = "keep"]
                                     ELSE [now EXCEPT !.step = @ + 1])
    /\ UNCHANGED <<tool, cache, calls, answer>>

(* The next source answers, fails, or is skipped.                          *)
Ask(c) ==
    /\ call[c].at = "ask"
    /\ \E o \in Outcomes :
          LET s    == Chain[tool][call[c].step]
              data == o = "data" \/ (s.part /\ call[c].got)
              out  == IF data THEN "data" ELSE o
              now  == [call[c] EXCEPT !.got = @ \/ (s.part /\ o = "data"), !.data = data,
                                      !.mute = ~ data /\ o \in s.mute]
          IN  IF o \notin s.ends
              THEN Set(c, [now EXCEPT !.step = @ + 1]) /\ UNCHANGED answer
              ELSE IF out \in s.keeps
              THEN Set(c, [now EXCEPT !.at = "keep"]) /\ UNCHANGED answer
              ELSE Set(c, NoCall) /\ Return(c, data, now.mute, FALSE, call[c].step)
    /\ UNCHANGED <<tool, cache, calls>>

(* _set_cache, and the end of the call.                                    *)
Keep(c) ==
    /\ call[c].at = "keep"
    /\ cache' = [kept |-> TRUE, expired |-> FALSE, data |-> call[c].data, mute |-> call[c].mute]
    /\ Return(c, call[c].data, call[c].mute, FALSE, call[c].step)
    /\ Set(c, NoCall)
    /\ UNCHANGED <<tool, calls>>

EntryExpires ==
    /\ cache.kept /\ ~ cache.expired
    /\ cache' = [cache EXCEPT !.expired = TRUE]
    /\ UNCHANGED <<tool, call, calls, answer>>

(* The cache is full and this is among its oldest quarter.                 *)
EntryEvicted ==
    /\ cache.kept
    /\ cache' = NoEntry
    /\ UNCHANGED <<tool, call, calls, answer>>

ToolNext == \/ EntryExpires \/ EntryEvicted
            \/ \E c \in Crews : LookUp(c) \/ DropExpired(c) \/ Ask(c) \/ Keep(c)

ToolSpec == ToolInit /\ [][ToolNext]_toolVars

(***************************************************************************)
(* Properties.                                                             *)
(***************************************************************************)
ToolTypeOK ==
    /\ tool \in Tools
    /\ DOMAIN cache = DOMAIN NoEntry /\ cache.expired => cache.kept
    /\ \A c \in Crews : /\ call[c].at \in {"none", "drop", "ask", "keep"}
                        /\ call[c].step \in 1..Len(Chain[tool])

(* Tools whose missing answers are given out again for ten minutes.        *)
Stubborn == {"market_search", "rumor_scanner", "ai_momentum", "x_search", "coinglass_rates",
             "coinglass_liquidations", "coinglass_options", "onchain_metrics",
             "regime_scorecard", "multi_timeframe", "valuation_anchor", "macro_context",
             "econ_calendar", "financial_datasets", "ai_sector_market"}

(* Tools that may answer "missing" with a source left to ask: CoinGlass's  *)
(* reply without data, FMP's reply that is no list, a model's failure; and *)
(* the one that needs all its sources.                                     *)
Hasty == {"coinglass_rates", "coinglass_liquidations", "coinglass_options", "econ_calendar",
          "sentiment_score", "ml_quant"}

(* Tools that may answer without data and without the marker: a neutral    *)
(* verdict, N/A lines, an excuse.                                          *)
Silent == {"cryptopanic", "regime_scorecard", "multi_timeframe", "valuation_anchor",
           "macro_context", "ml_quant", "econ_calendar", "financial_datasets",
           "ai_sector_market", "gspc_anchor", "spy_anchor"}

(* A tool that says it has no data has come to the last of its sources     *)
(* just now, and each one it asked or had to skip on the way, and its      *)
(* answer carries the marker, so that whoever counts gaps sees it and the  *)
(* next call tries again: whichever call filled the cache, or dropped it,  *)
(* in between.  The tools for which one of the three does not hold are     *)
(* those above.                                                            *)
GapsExplained ==
    \A c \in Crews : ~ answer[c].data =>
        /\ answer[c].cached   => tool \in Stubborn
        /\ ~ answer[c].cached => answer[c].asked = Len(Chain[tool]) \/ tool \in Hasty
        /\ answer[c].mute     => tool \in Silent
=============================================================================
