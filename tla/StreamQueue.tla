----------------------------- MODULE StreamQueue -----------------------------
(***************************************************************************)
(* A Redis stream read through one consumer group (streamq package).       *)
(* The stream is kept as a log: entry i is the i-th XADD and its state in  *)
(* the group is "new" (not yet delivered to the group), "pending" (in the  *)
(* pending entries list) or "acked".  Entry ids are the log positions, so  *)
(* they are monotonic as the stream ids are.  MAXLEN trimming (100000) is  *)
(* beyond every bound used here and is left out.                           *)
(***************************************************************************)
EXTENDS Naturals, Sequences

EntryStates == {"new", "pending", "acked"}

\* RedisStreamQueue.Enqueue: XADD of {jobId}.
XAdd(s) == Append(s, "new")

\* Entries a ">" read has not delivered yet.
Undelivered(s) == {i \in 1..Len(s) : s[i] = "new"}

\* XREADGROUP ">" delivers the oldest undelivered entry first (the set
\* holds that one entry, or nothing when all were delivered).
OldestNew(s) == {i \in Undelivered(s) : \A k \in Undelivered(s) : i <= k}

\* The group's pending entries list.
PendingEntries(s) == {i \in 1..Len(s) : s[i] = "pending"}

\* Delivery moves an entry into the PEL; XACK removes it from there.
Deliver(s, i) == [s EXCEPT ![i] = "pending"]
XAck(s, i) == [s EXCEPT ![i] = "acked"]
=============================================================================
