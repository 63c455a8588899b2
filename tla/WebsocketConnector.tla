------------------------- MODULE WebsocketConnector -------------------------
(***************************************************************************)
(* The websocket connector of the indexer, stream_connector/websocket.rs:  *)
(* next_payload reads with a timeout of a second, and keeps a heartbeat in *)
(* between.  The peer may fall silent without closing the connection; the  *)
(* heartbeat is there to find out.  A step of the clock is a second.       *)
(***************************************************************************)
EXTENDS Integers

CONSTANTS
    None,        \* an absent time
    Heartbeats,  \* the settings a stream may have: the interval between pings and
                 \* the timeout of a pong, None where it is not configured
    MaxTime      \* bound: clock

VARIABLES
    heartbeat, \* ping_interval and pong_timeout
    now,       \* the clock
    ping,      \* pending_ping_sent_at
    link,      \* "up"; "dead": nothing will ever come; "error": next_payload failed
    heard,     \* for the property: when the peer fell silent
    read       \* where next_payload is: about to read, reading, or not called

vars == <<heartbeat, now, ping, link, heard, read>>

\* connect, which subscribes and forgets the heartbeat of an earlier connection.
Init ==
    /\ heartbeat \in Heartbeats
    /\ now = 0 /\ ping = None /\ link = "up" /\ heard = None /\ read = "called"

TypeOK ==
    /\ heartbeat \in Heartbeats
    /\ now \in 0 .. MaxTime /\ ping \in {None} \cup 0 .. MaxTime
    /\ link \in {"up", "dead", "error"} /\ read \in {"called", "reading", "handled"}
    /\ heard \in {None} \cup 0 .. MaxTime

\* Mutant: a heartbeat is sent whenever there is one to wait for.
HeartbeatAlways == heartbeat.interval # None

\* A ping is due when none is waited for, or the last was an interval ago.
HeartbeatDue ==
    /\ heartbeat.interval # None
    /\ IF ping = None THEN TRUE ELSE now - ping >= heartbeat.interval

TimedOut(sent) ==
    IF heartbeat.timeout = None \/ sent = None THEN FALSE ELSE now - sent > heartbeat.timeout

\* The head of the loop: send_heartbeat_if_due, ensure_heartbeat_not_timed_out.
Heartbeat ==
    LET sent == IF HeartbeatDue THEN now ELSE ping
    IN  /\ read = "called" /\ link # "error"
        /\ ping' = sent
        /\ IF TimedOut(sent) THEN link' = "error" /\ UNCHANGED read
                             ELSE read' = "reading" /\ UNCHANGED link
        /\ UNCHANGED <<heartbeat, now, heard>>

\* The ping cannot be sent.
SendFails ==
    /\ read = "called" /\ link # "error" /\ HeartbeatDue
    /\ link' = "error"
    /\ UNCHANGED <<heartbeat, now, ping, heard, read>>

\* A frame of the peer: a payload is handed over, a ping or pong noted, a
\* bare frame ignored; a close, or a payload that is no JSON, is an error.
Frame(kind) ==
    /\ read = "reading" /\ link = "up"
    /\ ping' = IF kind \in {"payload", "control"} THEN None ELSE ping
    /\ link' = IF kind = "close" THEN "error" ELSE link
    /\ read' = IF kind = "payload" THEN "handled" ELSE "called"
    /\ UNCHANGED <<heartbeat, now, heard>>

\* The read times out after a second, and the loop starts over.
ReadTimeout ==
    /\ read = "reading" /\ now < MaxTime
    /\ now' = now + 1 /\ read' = "called"
    /\ UNCHANGED <<heartbeat, ping, link, heard>>

\* The worker is done with the payload and calls again.  The time that takes
\* is not counted: nothing is read meanwhile.
Call ==
    /\ read = "handled" /\ read' = "called"
    /\ UNCHANGED <<heartbeat, now, ping, link, heard>>

PeerFallsSilent ==
    /\ link = "up" /\ link' = "dead" /\ heard' = now
    /\ UNCHANGED <<heartbeat, now, ping, read>>

Next ==
    \/ Heartbeat \/ SendFails \/ ReadTimeout \/ Call \/ PeerFallsSilent
    \/ \E kind \in {"payload", "control", "bare", "close"} : Frame(kind)

Spec == Init /\ [][Next]_vars

\* With these settings a ping is answered for, or found unanswered, before the
\* next one, which restarts the wait.  Nothing in the code asks for them.
HeartbeatWorks ==
    /\ heartbeat.interval # None /\ heartbeat.timeout # None
    /\ heartbeat.timeout + 1 < heartbeat.interval

\* A connection whose peer fell silent is given up, for the worker to connect
\* again, within the time a pong may take and the second of a read, if the
\* settings leave the heartbeat room for that.
SilenceIsNoticed ==
    HeartbeatWorks /\ link = "dead" => now - heard <= heartbeat.timeout + 1
=============================================================================
