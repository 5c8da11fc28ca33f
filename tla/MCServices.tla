----------------------------- MODULE MCServices -----------------------------
(***************************************************************************)
(* The services that share no state with one another, checked side by      *)
(* side: the initial state picks one, and only that one moves.             *)
(***************************************************************************)
EXTENDS RunCrew, WebPush, Portfolio, TelegramSender, IntradayMonitor, ToolCalls, ToolLimits,
        SignalWeights, ReportGates, BriefAssembly

VARIABLE part

MCInit ==
    /\ part \in {"crew", "push", "holdings", "telegram", "intraday", "tools", "limits",
                "weights", "gates", "brief"}
    /\ RunInit /\ PushInit /\ PortfolioInit /\ TelegramInit /\ MonitorInit /\ ToolInit /\ LimitInit
    /\ WeightsInit /\ GateInit /\ BriefInit
    /\ part # "push"     => ~ url
    /\ part # "holdings" => ~ table
    /\ part # "telegram" => broken = {}
    /\ part # "tools"    => tool = "fear_greed"
    /\ part # "gates"    => profile = "full" /\ gates = DefaultOn
    /\ part = "gates"    =>
         LET strict == DefaultOn \cup NewsSwitches \cup PickSwitches \cup StrictSwitches
         IN \/ gates \in {DefaultOn, strict \cup {"dashboard_numbers"}}
            \/ profile = "full" /\ gates = strict

Only(p) == part = p /\ UNCHANGED part

MCNext ==
    \/ Only("crew")     /\ RunNext       /\ UNCHANGED <<pushVars, portfolioVars, telegramVars, monitorVars, toolVars, limitVars, weightsVars, gateVars, briefVars>>
    \/ Only("push")     /\ PushNext      /\ UNCHANGED <<runVars, portfolioVars, telegramVars, monitorVars, toolVars, limitVars, weightsVars, gateVars, briefVars>>
    \/ Only("holdings") /\ PortfolioNext /\ UNCHANGED <<runVars, pushVars, telegramVars, monitorVars, toolVars, limitVars, weightsVars, gateVars, briefVars>>
    \/ Only("telegram") /\ TelegramNext  /\ UNCHANGED <<runVars, pushVars, portfolioVars, monitorVars, toolVars, limitVars, weightsVars, gateVars, briefVars>>
    \/ Only("intraday") /\ MonitorNext   /\ UNCHANGED <<runVars, pushVars, portfolioVars, telegramVars, toolVars, limitVars, weightsVars, gateVars, briefVars>>
    \/ Only("tools")    /\ ToolNext      /\ UNCHANGED <<runVars, pushVars, portfolioVars, telegramVars, monitorVars, limitVars, weightsVars, gateVars, briefVars>>
    \/ Only("limits")   /\ LimitNext     /\ UNCHANGED <<runVars, pushVars, portfolioVars, telegramVars, monitorVars, toolVars, weightsVars, gateVars, briefVars>>
    \/ Only("gates")    /\ GateNext      /\ UNCHANGED <<runVars, pushVars, portfolioVars, telegramVars, monitorVars, toolVars, limitVars, weightsVars, briefVars>>
    \/ Only("brief")    /\ BriefNext     /\ UNCHANGED <<runVars, pushVars, portfolioVars, telegramVars, monitorVars, toolVars, limitVars, weightsVars, gateVars>>
    \/ Only("weights")  /\ WeightsNext   /\ UNCHANGED <<runVars, pushVars, portfolioVars, telegramVars, monitorVars, toolVars, limitVars, gateVars, briefVars>>

MCVars == <<part, runVars, pushVars, portfolioVars, telegramVars, monitorVars, toolVars, limitVars, weightsVars, gateVars, briefVars>>

MCSpec == MCInit /\ [][MCNext]_MCVars /\ RunFairness
=============================================================================
