-------------------------- MODULE RpcLogsConnector --------------------------
(***************************************************************************)
(* The log connector of the indexer, stream_connector/rpc_logs.rs: the     *)
(* logs of the blocks since the last refresh are fetched up to the head    *)
(* and handed over one by one.  The cursor lives as long as the connection *)
(* does: a new one starts a few blocks behind the head.  The nodes behind  *)
(* the endpoint need not agree on the head: one may tell it, and another,  *)
(* which has not seen it, give the logs.  A block stands for its logs.     *)
(***************************************************************************)
EXTENDS Integers, Sequences

CONSTANTS
    NoBlock,    \* last_block of a new connection
    Lookback,   \* the blocks behind the head where a connection starts
    MaxLag,     \* how far behind the head an answering node may be
    MaxHead,    \* bound: the height of the chain
    MaxFaults   \* bound: connections that fail

VARIABLES
    head,       \* the height of the chain
    last_block, \* the cursor
    asked,      \* while the logs are asked for: the head they are asked up to
    pending,    \* logs fetched and not handed over
    faults,     \* connections that failed
    handed,     \* for the property: blocks handed over, in any connection
    passed,     \* for the property: blocks behind the start of a connection, or
                \* dropped with one, and not handed over then
    young       \* for the property: blocks asked for at less than MaxLag below the head

vars == <<head, last_block, asked, pending, faults, handed, passed, young>>

Init ==
    /\ head = 0 /\ last_block = NoBlock /\ asked = NoBlock /\ pending = <<>> /\ faults = 0
    /\ handed = {} /\ passed = {} /\ young = {}

Blocks == 0 .. MaxHead

TypeOK ==
    /\ head \in Blocks /\ {last_block, asked} \subseteq Blocks \cup {NoBlock}
    /\ pending \in Seq(Blocks) /\ Len(pending) <= MaxHead + 1
    /\ faults \in 0 .. MaxFaults /\ handed \subseteq Blocks
    /\ passed \subseteq Blocks /\ young \subseteq Blocks

\* saturating_sub
Monus(a, b) == IF a >= b THEN a - b ELSE 0

NewBlock ==
    /\ head < MaxHead /\ head' = head + 1
    /\ UNCHANGED <<last_block, asked, pending, faults, handed, passed, young>>

\* Mutant: the cursor is taken for the first block not fetched, and passed.
FromAfter(seen) == IF last_block = NoBlock THEN Monus(seen, Lookback) ELSE last_block + 2

From(seen) == IF last_block = NoBlock THEN Monus(seen, Lookback) ELSE last_block + 1

\* refresh_pending_logs begins, when all that was fetched is handed over.
\* `seen` is the head that the node reports; one behind the cursor takes it back.
AskHead(seen) ==
    /\ pending = <<>> /\ asked = NoBlock
    /\ IF From(seen) > seen THEN last_block' = seen /\ UNCHANGED asked
                            ELSE asked' = seen /\ UNCHANGED last_block
    /\ UNCHANGED <<head, pending, faults, handed, passed, young>>

\* The answer of a node whose own head is `served`: the logs of the blocks it
\* has.  The cursor moves to the head that was asked for, whatever is missing.
LogsAnswered(served) ==
    LET from == From(asked)
        last == IF served < asked THEN served ELSE asked
    IN  /\ asked # NoBlock
        /\ last_block' = asked /\ asked' = NoBlock
        /\ pending' = [i \in 1 .. last + 1 - from |-> from + i - 1]
        /\ passed' = IF last_block = NoBlock
                     THEN passed \cup {b \in Blocks : b < from /\ b \notin handed} ELSE passed
        /\ young' = young \cup {b \in from .. asked : head - b < MaxLag}
        /\ UNCHANGED <<head, faults, handed>>

\* next_payload hands over the next log.
HandOver ==
    /\ pending # <<>>
    /\ handed' = handed \cup {Head(pending)} /\ pending' = Tail(pending)
    /\ UNCHANGED <<head, last_block, asked, faults, passed, young>>

\* A call to the node, or the processing of a log, fails: the worker drops the
\* connector and makes a new one.
Reconnect ==
    /\ faults < MaxFaults /\ faults' = faults + 1
    /\ last_block' = NoBlock /\ asked' = NoBlock /\ pending' = <<>>
    /\ UNCHANGED <<head, handed, passed, young>>

Next ==
    \/ NewBlock \/ HandOver \/ Reconnect
    \/ \E lag \in 0 .. MaxLag : lag <= head /\ (AskHead(head - lag) \/ LogsAnswered(head - lag))

Spec == Init /\ [][Next]_vars

\* While a connection lasts, no block below the cursor is missed that lay MaxLag
\* or more below the head when it was asked for: it was handed over or waits for
\* it, or it was behind the start of the connection.  (A younger block is missed
\* if the node that answers has not seen it; and what is behind the start of a
\* connection is never fetched.)
OldBlocksNotMissed ==
    last_block # NoBlock =>
        \A b \in 0 .. last_block :
            b \in handed \/ b \in passed \/ b \in young \/ \E i \in DOMAIN pending : pending[i] = b
=============================================================================
