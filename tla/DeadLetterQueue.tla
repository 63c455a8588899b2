--------------------------- MODULE DeadLetterQueue ---------------------------
(***************************************************************************)
(* The dead letter queue, crates/state-manager/src/dead_letter_queue.rs,   *)
(* for one stream entry.  record_failure is two statements: it reads the   *)
(* retry count and writes it back, or inserts the row.                     *)
(*                                                                         *)
(* No program of the repository calls it yet.  The callers here use it the *)
(* way its comments say: ask should_retry, process the entry, record a     *)
(* failure or remove the entry after a success; several may have the same  *)
(* entry.                                                                  *)
(***************************************************************************)
EXTENDS Integers, FiniteSets

CONSTANTS
    Callers,      \* the processes that handle the entry
    MaxRetries,   \* max_retries
    MaxSuccess    \* bound: attempts that succeed

VARIABLES
    row,          \* retry_count of the entry's row, or Absent
    caller,       \* where each caller is
    read,         \* the count that record_failure has read
    succeeded     \* attempts that succeeded

vars == <<row, caller, read, succeeded>>

Absent == -1

Init ==
    /\ row = Absent /\ succeeded = 0
    /\ caller = [c \in Callers |-> "ask"]
    /\ read = [c \in Callers |-> Absent]

Places == {"ask", "attempt", "count", "write", "remove", "stopped"}

TypeOK ==
    /\ row \in {Absent} \cup Nat /\ read \in [Callers -> {Absent} \cup Nat]
    /\ caller \in [Callers -> Places] /\ succeeded \in 0 .. MaxSuccess

Goto(c, place) == caller' = [caller EXCEPT ![c] = place]

ShouldRetry(n) == n = Absent \/ n < MaxRetries

\* should_retry.
Ask(c) ==
    /\ caller[c] = "ask"
    /\ Goto(c, IF ShouldRetry(row) THEN "attempt" ELSE "stopped")
    /\ UNCHANGED <<row, read, succeeded>>

\* The caller processes the entry.
Attempt(c, ok) ==
    /\ caller[c] = "attempt"
    /\ ok => succeeded < MaxSuccess
    /\ succeeded' = IF ok THEN succeeded + 1 ELSE succeeded
    /\ Goto(c, IF ok THEN "remove" ELSE "count")
    /\ UNCHANGED <<row, read>>

\* record_failure, the SELECT.
ReadCount(c) ==
    /\ caller[c] = "count"
    /\ read' = [read EXCEPT ![c] = row] /\ Goto(c, "write")
    /\ UNCHANGED <<row, succeeded>>

\* Mutant: the count is written back as it was.
CountKept(n) == n

\* Mutant: a failure counts twice.
CountTwice(n) == n + 2

NewRetryCount(n) == n + 1

\* Mutant: the row of an entry that is given up is deleted.
UpdateDeletes(n) == IF row = Absent \/ n >= MaxRetries THEN Absent ELSE n

\* The UPDATE touches no row when the entry was removed in the meantime.
Updated(n) == IF row = Absent THEN Absent ELSE n

\* record_failure, the UPDATE: true from max_retries on.
Update(c) ==
    /\ caller[c] = "write" /\ read[c] # Absent
    /\ row' = Updated(NewRetryCount(read[c]))
    /\ Goto(c, IF NewRetryCount(read[c]) >= MaxRetries THEN "stopped" ELSE "ask")
    /\ UNCHANGED <<read, succeeded>>

\* record_failure, the INSERT: false, whatever max_retries is; the second of
\* two inserts is an error, and the failure is not counted.
Insert(c) ==
    /\ caller[c] = "write" /\ read[c] = Absent
    /\ row' = IF row = Absent THEN 1 ELSE row
    /\ Goto(c, "ask")
    /\ UNCHANGED <<read, succeeded>>

\* remove_entry.
Remove(c) ==
    /\ caller[c] = "remove"
    /\ row' = Absent /\ Goto(c, "stopped")
    /\ UNCHANGED <<read, succeeded>>

Step(c) ==
    \/ Ask(c) \/ ReadCount(c) \/ Update(c) \/ Insert(c) \/ Remove(c)
    \/ \E ok \in BOOLEAN : Attempt(c, ok)

Next == \E c \in Callers : Step(c)

Spec == Init /\ [][Next]_vars

FairSpec == Spec /\ \A c \in Callers : WF_vars(Step(c))

-----------------------------------------------------------------------------
\* "Prevents event loss": when a caller has given the entry up its row is
\* there to be looked at, unless somebody processed the entry after all.
GivenUpIsKept ==
    \A c \in Callers : caller[c] = "stopped" => row # Absent \/ succeeded > 0

\* The count passes the limit only by failures of attempts that had begun when
\* it was reached: nobody begins one after that.
CountBounded == row <= MaxRetries + Cardinality(Callers) - 1

\* "while avoiding infinite retry loops": every caller stops in the end,
\* although two failures at once may count as one and a slow one may set the
\* count back.
AllStopped == \A c \in Callers : caller[c] = "stopped"
GivesUp == <>[]AllStopped
=============================================================================
