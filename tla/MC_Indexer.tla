----------------------------- MODULE MC_Indexer -----------------------------
(***************************************************************************)
(* The values that TLC gives the parts of Indexer.                         *)
(***************************************************************************)
EXTENDS Indexer, TLC

\* A stream of live quotes, edited among others to have no tenants, and one
\* that may be of the simulator.
Row(profile, targets) ==
    [profile |-> profile, enabled |-> TRUE, sourceEnabled |-> TRUE, endpoint |-> "ok",
     owner |-> {}, targets |-> targets, static |-> FALSE]
TwoStreams ==
    ("s1" :> {Row("live", {"t1", "t2"}), Row("live", {"t1"}), Row("live", {}),
              [Row("live", {"t1"}) EXCEPT !.sourceEnabled = FALSE],
              [Row("live", {"t1"}) EXCEPT !.static = TRUE]})
    @@ ("s2" :> {[Row("test", {}) EXCEPT !.sourceEnabled = FALSE],
                 [Row("test", {}) EXCEPT !.endpoint = "placeholder"],
                 [Row("live", {}) EXCEPT !.owner = {"t1"}]})

\* Live quotes of two markets, for two tenants, which two other sources may have
\* quoted too.
Quote(id, quote, market) ==
    [ok |-> TRUE, etype |-> "quote", eid |-> id, tx |-> None, ts |-> None, replay |-> None,
     run |-> None, market |-> market, price |-> 2, quote |-> quote]
LiveQuotes ==
    [targets |-> <<"t1", "t2">>, mode |-> "push", live |-> TRUE, hasRaw |-> TRUE, rawRequired |-> TRUE,
     feed |-> {Quote("e1", "USDT", "USDT/USD"), Quote("e2", "USD", "coin/USD")},
     others |-> {"o1" :> 1, "o1" :> 1 @@ "o2" :> 5},
     window |-> 1, freshness |-> 1, ttl |-> 0, interval |-> 2, retention |-> 0,
     maxBackoff |-> 1, deliveries |-> 2]

\* Polled for one tenant: a batch with a payload no parser takes and a log,
\* twice; and one of simulated quotes, the first of them again at the end.
Polled ==
    LET log == [Quote(None, None, None) EXCEPT !.etype = "log", !.tx = "tx", !.price = 0]
        sim == [Quote(None, "USDT", "coin/USD") EXCEPT !.run = "r", !.replay = 0]
    IN  [targets |-> <<"t1">>, mode |-> "poll", live |-> FALSE, hasRaw |-> TRUE, rawRequired |-> FALSE,
         feed |-> {<<[log EXCEPT !.ok = FALSE, !.tx = None], log, log>>,
                   <<sim, [sim EXCEPT !.replay = 1], sim>>},
         others |-> {<<>>},
         window |-> None, freshness |-> 0, ttl |-> 1, interval |-> 2, retention |-> 0,
         maxBackoff |-> 1, deliveries |-> 1]

LiveAndPolled == {LiveQuotes, Polled}

\* The heartbeat works, has no room for the timeout, has no timeout, has no ping.
FourHeartbeats ==
    {[interval |-> 4, timeout |-> 2], [interval |-> 2, timeout |-> 2],
     [interval |-> 2, timeout |-> None], [interval |-> None, timeout |-> 2]}
=============================================================================
