------------------------------ MODULE MCServices ------------------------------
(* The smaller components side by side, for TLC.  They share no state: the *)
(* initial state chooses one of them, which then runs by itself, while the *)
(* others rest in one of their own initial states.                         *)
EXTENDS MCTrading, Harvest, Alerting, AuditTrail, RateLimiter, Signing, Deployment,
        Soak, MarketObserver, ProtectedTokenList, PriceOracle

VARIABLE service

servicesVars == <<service, tradeVars, harvestBalanceVars, alertVars, auditVars, limiterVars,
                  signingVars, deployVars, soakVars, vars, listVars, oracleVars>>

Services == {"trading", "harvest", "alerting", "audit", "limiter", "signing", "deployment",
             "soak", "observer", "list", "oracle"}

Decimals == [t \in Quoted |-> IF t = "usdt" THEN 10 ELSE 1]
FeedDecimals == [f \in Aggregators |-> IF f = "f8" THEN 10 ELSE 1]

\* What a component that does not run has chosen at its start, and bounds on the others.
Pinned ==
    /\ service # "trading" =>
          /\ token0 = "A" /\ actor = "pipeline" /\ tradeMode = "canary"
          /\ \A bps \in SlippageBps : params.maxSlippageBps <= bps /\ guardParams = params
    /\ stableAt[1].amount = 0
    /\ minSeverity # "info"   \* drops no more than "warn"
    /\ service # "alerting" => minSeverity = "warn"
    /\ service # "audit" => page.date = 1
    /\ service # "signing" => signerMode = "local" /\ kmsKey = NoKey
    /\ service # "deployment" =>
          wallet = "hot" /\ \A d \in Deployments : moduleAgent[d] = "hot"
    /\ service # "oracle" => oracleOwner = "owner" /\ \A f \in Aggregators : answer[f] = 0

ServicesInit ==
    /\ service \in Services
    /\ TradingInit /\ HarvestInit /\ AlertingInit /\ AuditInit
    /\ LimiterInit /\ SigningInit /\ DeployInit /\ SoakInit /\ Init /\ ListInit
    /\ PriceOracleInit
    /\ Pinned

TradingRest == UNCHANGED tradeVars
HarvestRest == UNCHANGED harvestBalanceVars
AlertingRest == UNCHANGED alertVars
AuditRest == UNCHANGED auditVars
SmallRest == UNCHANGED <<limiterVars, signingVars, deployVars, soakVars, vars, listVars, oracleVars>>
CoreRest == TradingRest /\ HarvestRest /\ AlertingRest /\ AuditRest

ServicesNext ==
    /\ UNCHANGED service
    /\ \/ service = "trading" /\ TradingNext
          /\ HarvestRest /\ AlertingRest /\ AuditRest /\ SmallRest
       \/ service = "harvest" /\ ~wentBack /\ HarvestNext   \* HarvestWithinGains says no more
          /\ TradingRest /\ AlertingRest /\ AuditRest /\ SmallRest
       \/ service = "alerting" /\ AlertingNext
          /\ TradingRest /\ HarvestRest /\ AuditRest /\ SmallRest
       \/ service = "audit" /\ AuditNext
          /\ TradingRest /\ HarvestRest /\ AlertingRest /\ SmallRest
       \/ service = "limiter" /\ LimiterNext /\ CoreRest
          /\ UNCHANGED <<signingVars, deployVars, soakVars, vars, listVars, oracleVars>>
       \/ service = "signing" /\ SigningNext /\ CoreRest
          /\ UNCHANGED <<limiterVars, deployVars, soakVars, vars, listVars, oracleVars>>
       \/ service = "deployment" /\ DeployNext /\ CoreRest
          /\ UNCHANGED <<limiterVars, signingVars, soakVars, vars, listVars, oracleVars>>
       \/ service = "soak" /\ SoakNext /\ CoreRest
          /\ UNCHANGED <<limiterVars, signingVars, deployVars, vars, listVars, oracleVars>>
       \/ service = "observer" /\ Next /\ CoreRest
          /\ UNCHANGED <<limiterVars, signingVars, deployVars, soakVars, listVars, oracleVars>>
       \/ service = "list" /\ ListNext /\ CoreRest
          /\ UNCHANGED <<limiterVars, signingVars, deployVars, soakVars, vars, oracleVars>>
       \/ service = "oracle" /\ PriceOracleNext /\ CoreRest
          /\ UNCHANGED <<limiterVars, signingVars, deployVars, soakVars, vars, listVars>>

ServicesSpec == ServicesInit /\ [][ServicesNext]_servicesVars
=============================================================================
