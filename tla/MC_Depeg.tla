------------------------------ MODULE MC_Depeg ------------------------------
(***************************************************************************)
(* TLC instances of Depeg.                                                 *)
(***************************************************************************)
EXTENDS Depeg, TLC

\* An exchange and an oracle.
SourceKind == ("cex" :> "cex") @@ ("orc" :> "oracle")

\* A divergence of 1 is a breach in a systemic context only.
PolicyWithout(S) ==
    [peg |-> 10, minSources |-> 1, minHealthy |-> 2, quorumPct |-> 50,
     cooldown |-> 2, stale |-> 1,
     isolated |-> [medium |-> 2, high |-> 3, critical |-> 4],
     systemic |-> [medium |-> 1, high |-> 2, critical |-> 3],
     isolatedFloor |-> 2, systemicFloor |-> 1, deescalation |-> 2, resolution |-> 2,
     whitelist |-> {}, oracles |-> TRUE, aggregators |-> FALSE,
     oracleConfirmation |-> TRUE, volumeConfirmation |-> FALSE, contagion |-> TRUE,
     agreementWeight |-> 60, oracleWeight |-> 25, volumeWeight |-> 15,
     minConfidence |-> 60, overridden |-> S,
     override |-> LET off == [weight |-> 1, enabled |-> FALSE, stale |-> None]
                  IN  ("cex" :> off) @@ ("orc" :> off)]

TenantWithout(S) ==
    [markets |-> Markets, bound |-> Sources \ S,
     policies |-> ("m1" :> PolicyWithout(S)) @@ ("m2" :> PolicyWithout(S))]

\* The exchange may be unbound and switched off by a reload.
Tenants == ("on" :> TenantWithout({})) @@ ("off" :> TenantWithout({"cex"}))
ExchangeOnOff == Tenants

\* In one market the oracle leaves the peg; the other has one source, too few
\* to alert, enough to make the context of the first systemic.
TwoMarkets ==
    {<<"m1", "cex", 10>>, <<"m1", "orc", 10>>, <<"m1", "orc", 8>>, <<"m2", "cex", 8>>}
=============================================================================
