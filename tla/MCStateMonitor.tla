--------------------------- MODULE MCStateMonitor ---------------------------
(* A small instance of StateMonitor for TLC: the collector, at most two    *)
(* listeners of the API and at most one of the gateway.                    *)
EXTENDS StateMonitor, TLC

CONSTANTS collector, api1, api2, gateway1

MCServiceOf == (collector :> "gc") @@ (api1 :> "api") @@ (api2 :> "api")
               @@ (gateway1 :> "gateway")

MCConfigs == SUBSET Services
=============================================================================
