----------------------------- MODULE QueryCache -----------------------------
(***************************************************************************)
(* One entry of the browser's query cache, as the screens use it: retry is *)
(* off, nothing is refetched on focus, and no query of a screen states a   *)
(* staleTime, so what is cached is shown and asked for again whenever a    *)
(* component starts to watch it.                                           *)
(*                                                                         *)
(* The server's data is abstracted to a stamp, the number of writes it has *)
(* seen; 0 stands for no data.  The server reads at some moment between    *)
(* the request and its answer, so a request in flight carries the stamp it *)
(* was asked at, the oldest it can answer with.                            *)
(***************************************************************************)
EXTENDS Naturals

\* data: what the entry holds; err: its last fetch failed (isError);
\* asked: the stamp the fetch in flight was asked at, 0 if there is none.
Entries(max) == [data: 0..max, err: BOOLEAN, asked: 0..max]

Empty == [data |-> 0, err |-> FALSE, asked |-> 0]

\* A fetch begins; an entry without data forgets its error.
Fetched(q, now) ==
    [data |-> q.data, err |-> q.err /\ q.data # 0, asked |-> now]

\* A component starts to watch: fetch, or join the fetch in flight.
Watched(q, now) == IF q.asked = 0 THEN Fetched(q, now) ELSE q

\* invalidateQueries on a watched entry: fetch again. A fetch in flight is
\* abandoned for a new one, but an entry that has no data yet keeps it.
Restarts(q) == q.asked = 0 \/ q.data # 0

\* A mistake the runs must notice: the fetch under way is always joined.
InvalidatedJoins(q, now) == Watched(q, now)

Invalidated(q, now) == IF Restarts(q) THEN Fetched(q, now) ELSE q

\* A mistake the runs must notice: the answer of an abandoned fetch counts.
AnsweredLate(q, now) ==
    {[data |-> s, err |-> FALSE, asked |-> 0] : s \in 1..now}
        \cup {[q EXCEPT !.err = TRUE, !.asked = 0]}

\* The answers that may come, had the server seen now writes: what it read on
\* the way, or an error, which leaves the data it had.
Answered(q, now) ==
    {[data |-> s, err |-> FALSE, asked |-> 0] : s \in q.asked..now}
        \cup {[q EXCEPT !.err = TRUE, !.asked = 0]}
=============================================================================
