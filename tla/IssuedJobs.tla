----------------------------- MODULE IssuedJobs -----------------------------
(***************************************************************************)
(* The bounded table of jobs one session has issued, oldest first.         *)
(***************************************************************************)
EXTENDS Naturals, Sequences

CONSTANT JOB_HISTORY_DEPTH   \* jobs a session remembers

ASSUME DepthAssumption == JOB_HISTORY_DEPTH \in Nat \ {0}

JobEntry(job, superseded, difficulty) ==
    [job |-> job, superseded_by_clean |-> superseded, difficulty |-> difficulty]

\* A clean job supersedes every entry.
Superseded(entries) ==
    [i \in 1 .. Len(entries) |-> JobEntry(entries[i].job, TRUE, entries[i].difficulty)]

MakeRoom(entries) == IF Len(entries) >= JOB_HISTORY_DEPTH THEN Tail(entries) ELSE entries

\* The difficulty is the session's at this moment: what the miner knows.
issue(entries, job, clean, difficulty) ==
    Append(MakeRoom(IF clean THEN Superseded(entries) ELSE entries),
           JobEntry(job, FALSE, difficulty))

\* The entries holding a job of the given id: one at most, ids are unique.
find(entries, id) == {entries[i] : i \in {j \in 1 .. Len(entries) : entries[j].job.id = id}}
=============================================================================
