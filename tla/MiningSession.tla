--------------------------- MODULE MiningSession ---------------------------
(***************************************************************************)
(* One miner's session, Stratum V1 or V2, from its first message to its    *)
(* end: negotiation, authorisation, the jobs it is sent, and the judging   *)
(* of its shares with bounded tables of jobs, ids and credited shares.     *)
(* Every handler runs to its end before the session's loop takes another   *)
(* event, so a handler is one action; a share may be in flight meanwhile.  *)
(*                                                                         *)
(* A template is left out but for whether the session has one: TemplateFlow*)
(* follows its tip.  Difficulty is DifficultyControl's.                    *)
(***************************************************************************)
EXTENDS Integers, FiniteSets, IssuedJobs

CONSTANTS
    Names, Identities, Canonical,   \* names as typed, and the identity each stands for
    Nonces, MaskBits,               \* the work a share carries; version bits that may roll
    JobIds,                         \* SV2 job ids: 1 .. 2^32 - 1 in the code
    MaxShareSet,                    \* ShareSet::max_size
    MaxInvalid,                     \* max_invalid_shares, 0 = no limit
    MaxAuthorizations,              \* max_authorizations_per_session, 0 = no limit
    MaxJobs, MaxCredits,            \* bounds: jobs sent and shares credited in the run
    NoOne, NoShare

ASSUME SessionAssumption ==
    /\ Canonical \in [Names -> Identities] /\ NoOne \notin Names \cup Identities
    /\ JobIds \in Nat \ {0} /\ JOB_HISTORY_DEPTH <= JobIds /\ MaxShareSet \in Nat \ {0}
    /\ MaxInvalid \in Nat /\ MaxAuthorizations \in Nat
    /\ MaxJobs \in Nat /\ MaxCredits \in Nat

VARIABLES
    proto, running,                     \* "sv1" or "sv2"; the loop has not ended
    introduced, ready,                  \* subscribed or set up; authorised or channel open
    worker, identity,                   \* as typed, and canonical
    rolling, mask,                      \* version rolling: enabled, negotiated mask
    has_template,
    issued_jobs, job_ids, next_job_id,  \* job table; SV2 ids to job ids
    share_set,                          \* keys of credited shares, oldest first
    invalid_shares, authorizations,     \* SessionGuard
    nextJob,                            \* the engine's job-id counter
    wire,                               \* the submission in flight
    sent, credited                      \* history: jobs sent to identity, shares credited

greeting == <<proto, introduced, rolling, mask>>
tables == <<issued_jobs, job_ids, next_job_id, share_set, nextJob, sent>>
vars == <<greeting, running, ready, worker, identity, has_template, tables,
          invalid_shares, authorizations, wire, credited>>

\* What a device may submit: an id it makes up or was given, the fields the
\* header is built from, and how they turn out: a hash that is good or too
\* high, an ntime out of range, an extranonce of the wrong width, which SV2
\* checks and SV1 hashes to nothing.  SV2 shares carry no name.
Work == [nonce : Nonces, bits : SUBSET MaskBits]
Shares == [name : Names \cup {NoOne}, id : 1 .. MaxJobs, work : Work,
           quality : {"good", "low", "malformed", "short"}]

Init ==
    /\ proto \in {"sv1", "sv2"} /\ running = TRUE
    /\ introduced = FALSE /\ ready = FALSE /\ worker = NoOne /\ identity = NoOne
    /\ rolling = FALSE /\ mask = MaskBits
    /\ has_template \in BOOLEAN
    /\ issued_jobs = <<>> /\ job_ids = <<>> /\ next_job_id = 1 /\ share_set = <<>>
    /\ invalid_shares = 0 /\ authorizations = 0
    /\ nextJob = 1 /\ wire = NoShare /\ sent = <<>> /\ credited = <<>>

-----------------------------------------------------------------------------
(* Negotiation *)

\* mining.configure: the mask only ever narrows; too few bits disable it.
handle_configure(requested, min_bits) ==
    /\ running /\ proto = "sv1"
    /\ mask' = mask \cap requested
    /\ rolling' = (mask' # {} /\ Cardinality(mask') >= min_bits)
    /\ UNCHANGED <<proto, introduced, running, ready, worker, identity, has_template, tables,
                   invalid_shares, authorizations, wire, credited>>

handle_subscribe ==
    /\ running /\ proto = "sv1"
    /\ introduced' = TRUE
    /\ UNCHANGED <<proto, rolling, mask, running, ready, worker, identity, has_template, tables,
                   invalid_shares, authorizations, wire, credited>>

\* SetupConnection: a wrong protocol, version or feature flag ends it.
handle_setup_connection(acceptable) ==
    /\ running /\ proto = "sv2"
    /\ introduced' = (introduced \/ acceptable) /\ running' = acceptable
    /\ UNCHANGED <<proto, rolling, mask, ready, worker, identity, has_template, tables,
                   invalid_shares, authorizations, wire, credited>>

-----------------------------------------------------------------------------
(* Jobs *)

assign_job_id(ids, job) ==
    LET all == Append(ids, [id |-> next_job_id, job |-> job])
    IN  IF Len(all) > JOB_HISTORY_DEPTH THEN Tail(all) ELSE all

NextJobId(id) == IF id = JobIds THEN 1 ELSE id + 1

Retired(jobs) == [i \in 1 .. Len(jobs) |->
                     [id |-> jobs[i].id, number |-> jobs[i].number,
                      payee |-> jobs[i].payee, live |-> FALSE]]

\* Mutant: the job is built before the new identity is in place.
MutOldIdentityPaid(who) ==
    [id |-> nextJob, payee |-> IF identity = NoOne THEN who ELSE identity]

materialize_job(who) == [id |-> nextJob, payee |-> who]

\* A job paying who is built from the template, entered in the tables and
\* sent under the given id.
Send(jobs, history, who, clean, id) ==
    /\ nextJob <= MaxJobs /\ nextJob' = nextJob + 1
    /\ issued_jobs' = issue(jobs, materialize_job(who), clean, 0)
    /\ sent' = Append(IF clean THEN Retired(history) ELSE history,
                      [id |-> id, number |-> nextJob, payee |-> who, live |-> TRUE])

\* SV1: the job goes by its own id.
build_notify(jobs, history, who, clean) ==
    /\ proto = "sv1"
    /\ Send(jobs, history, who, clean, nextJob)
    /\ UNCHANGED <<job_ids, next_job_id>>

\* SV2: by the next id of the channel.
send_job(jobs, history, who, clean) ==
    /\ proto = "sv2"
    /\ Send(jobs, history, who, clean, next_job_id)
    /\ job_ids' = assign_job_id(job_ids, nextJob)
    /\ next_job_id' = NextJobId(next_job_id)

\* Mutant: every broadcast empties the dedup set, clean or not.
MutAlwaysEmptied(set, clean) == <<>>

\* A clean job retires all others, whose dedup keys guard nothing any more.
ShareSetAfter(set, clean) == IF clean THEN <<>> ELSE set

\* The session's loop takes a broadcast.
RecvJob(clean) ==
    /\ running
    /\ has_template' = TRUE
    /\ share_set' = ShareSetAfter(share_set, clean)
    /\ IF ready THEN \/ build_notify(issued_jobs, sent, identity, clean)
                     \/ send_job(issued_jobs, sent, identity, clean)
       ELSE UNCHANGED <<issued_jobs, job_ids, next_job_id, nextJob, sent>>
    /\ UNCHANGED <<greeting, running, ready, worker, identity, invalid_shares, authorizations,
                   wire, credited>>

-----------------------------------------------------------------------------
(* Authorisation *)

\* record_new_authorization; beyond the cap the session ends.
WithinBudget == MaxAuthorizations = 0 \/ authorizations < MaxAuthorizations
Spent == IF MaxAuthorizations = 0 THEN authorizations ELSE authorizations + 1

TooManyIdentities ==
    /\ ~WithinBudget
    /\ running' = FALSE /\ authorizations' = Spent
    /\ UNCHANGED <<greeting, ready, worker, identity, has_template, tables, invalid_shares,
                   wire, credited>>

\* issued_jobs.clear, share_set.clear.
ClearedIf(new, table) == IF new THEN <<>> ELSE table

\* mining.authorize, any number of times.  A new identity starts with empty
\* tables; another spelling of the same one keeps them.
handle_authorize(typed) ==
    /\ running /\ proto = "sv1" /\ introduced
    /\ LET who == Canonical[typed]
           new == who # identity
       IN  IF new /\ ~WithinBudget THEN TooManyIdentities
           ELSE /\ authorizations' = IF new THEN Spent ELSE authorizations
                /\ share_set' = ClearedIf(new, share_set)
                /\ ready' = TRUE /\ worker' = typed /\ identity' = who
                /\ \E found \in BOOLEAN :   \* the session's template, else the engine's, if any
                       /\ has_template => found
                       /\ has_template' = found
                       /\ LET jobs == ClearedIf(new, issued_jobs)
                              history == IF new THEN <<>> ELSE sent
                          IN  IF found THEN build_notify(jobs, history, who, TRUE)
                              ELSE /\ issued_jobs' = jobs /\ sent' = history
                                   /\ UNCHANGED <<job_ids, next_job_id, nextJob>>
                /\ UNCHANGED <<greeting, running, invalid_shares, wire, credited>>

\* OpenExtendedMiningChannel: one channel per connection.  An extranonce that
\* does not fit is refused after the identity was counted.
handle_open_extended(typed, fits) ==
    /\ running /\ proto = "sv2" /\ ~ready
    /\ IF ~introduced
       THEN /\ running' = FALSE
            /\ UNCHANGED <<ready, worker, identity, has_template, tables, authorizations>>
       ELSE IF ~WithinBudget
       THEN /\ running' = FALSE /\ authorizations' = Spent
            /\ UNCHANGED <<ready, worker, identity, has_template, tables>>
       ELSE /\ authorizations' = Spent
            /\ ready' = fits
            /\ worker' = (IF fits THEN typed ELSE NoOne)
            /\ identity' = (IF fits THEN Canonical[typed] ELSE NoOne)
            /\ IF fits /\ has_template THEN send_job(issued_jobs, sent, Canonical[typed], TRUE)
               ELSE UNCHANGED <<issued_jobs, job_ids, next_job_id, nextJob, sent>>
            /\ UNCHANGED <<running, has_template, share_set>>
    /\ UNCHANGED <<greeting, invalid_shares, wire, credited>>

-----------------------------------------------------------------------------
(* Shares *)

Mine(share) ==
    /\ running /\ wire = NoShare /\ (share.name = NoOne <=> proto = "sv2")
    /\ wire' = share
    /\ UNCHANGED <<greeting, running, ready, worker, identity, has_template, tables,
                   invalid_shares, authorizations, credited>>

\* reject_share for a reason that counts_as_invalid: over the budget the
\* session ends.  Stale, LowDifficulty and Unauthorized do not count.
RejectInvalid ==
    /\ invalid_shares' = IF MaxInvalid = 0 THEN 0 ELSE invalid_shares + 1
    /\ running' = (MaxInvalid = 0 \/ invalid_shares + 1 < MaxInvalid)
    /\ UNCHANGED <<share_set, credited>>

Reject == UNCHANGED <<invalid_shares, running, share_set, credited>>

\* SV2: the jobs an id of the channel stands for.
engine_job_id(id) == {job_ids[i].job : i \in {j \in 1 .. Len(job_ids) : job_ids[j].id = id}}

ShareKey(job, work) == [job |-> job, nonce |-> work.nonce, bits |-> work.bits]

contains(set, key) == \E i \in 1 .. Len(set) : set[i] = key

\* ShareSet::insert of a key that is not there.
insert(set, key) == Append(IF Len(set) >= MaxShareSet THEN Tail(set) ELSE set, key)

\* The mask a session judges version bits by; SV1 drops them when rolling is
\* off.  SV2 always uses the whole BIP320 mask.
RolledOutside(bits) == proto = "sv1" /\ rolling /\ ~(bits \subseteq mask)

accept_share(entry, work) ==
    /\ share_set' = insert(share_set, ShareKey(entry.job.id, work))
    /\ credited' = Append(credited, [payee |-> identity, paid |-> entry.job.payee,
                                     number |-> entry.job.id, work |-> work])
    /\ UNCHANGED <<invalid_shares, running>>

validate_share_no_dedup(entry, share) ==
    IF entry.superseded_by_clean THEN Reject
    ELSE IF share.quality = "malformed" \/ RolledOutside(share.work.bits) THEN RejectInvalid
    ELSE IF share.quality \in {"low", "short"} THEN Reject
    ELSE accept_share(entry, share.work)

\* entries: the job the submission names, if the session remembers it.
Judge(entries, share) ==
    \/ entries = {} /\ RejectInvalid
    \/ \E entry \in entries :
           IF contains(share_set, ShareKey(entry.job.id, share.work)) THEN RejectInvalid
           ELSE validate_share_no_dedup(entry, share)

\* The loop takes the submission; what it leaves alone.
TakeShare ==
    /\ running /\ wire # NoShare
    /\ Len(credited) < MaxCredits
    /\ wire' = NoShare
    /\ UNCHANGED <<greeting, ready, worker, identity, has_template, issued_jobs, job_ids,
                   next_job_id, nextJob, sent, authorizations>>

\* mining.submit asks for the very spelling that was authorised.
handle_submit_sv1 ==
    /\ TakeShare /\ proto = "sv1"
    /\ IF ~ready \/ worker # wire.name THEN Reject
       ELSE Judge(find(issued_jobs, wire.id), wire)

\* SubmitSharesExtended: before the channel opens it ends the session.
handle_submit_sv2 ==
    /\ TakeShare /\ proto = "sv2"
    /\ IF ~ready
       THEN running' = FALSE /\ UNCHANGED <<invalid_shares, share_set, credited>>
       ELSE IF wire.quality = "short" THEN RejectInvalid
       ELSE Judge(UNION {find(issued_jobs, job) : job \in engine_job_id(wire.id)}, wire)

\* The peer hangs up, is idle too long, or is rate limited and banned.
EndSession ==
    /\ running /\ running' = FALSE
    /\ UNCHANGED <<greeting, ready, worker, identity, has_template, tables, invalid_shares,
                   authorizations, wire, credited>>

-----------------------------------------------------------------------------
Next ==
    \/ \E requested \in SUBSET MaskBits, min_bits \in 0 .. 2 : handle_configure(requested, min_bits)
    \/ handle_subscribe
    \/ \E acceptable \in BOOLEAN : handle_setup_connection(acceptable)
    \/ \E clean \in BOOLEAN : RecvJob(clean)
    \/ \E typed \in Names : handle_authorize(typed)
    \/ \E typed \in Names, fits \in BOOLEAN : handle_open_extended(typed, fits)
    \/ \E share \in Shares : Mine(share)
    \/ handle_submit_sv1 \/ handle_submit_sv2
    \/ EndSession

Spec == Init /\ [][Next]_vars

-----------------------------------------------------------------------------
(* Properties *)

Jobs == [id : Nat, payee : Identities]
SentJobs == [id : Nat, number : Nat, payee : Identities, live : BOOLEAN]
Keys == [job : Nat, nonce : Nonces, bits : SUBSET MaskBits]
Credits == [payee : Identities, paid : Identities, number : Nat, work : Work]

TypeOK ==
    /\ proto \in {"sv1", "sv2"} /\ running \in BOOLEAN
    /\ introduced \in BOOLEAN /\ ready \in BOOLEAN /\ rolling \in BOOLEAN
    /\ mask \subseteq MaskBits /\ has_template \in BOOLEAN
    /\ worker \in Names \cup {NoOne} /\ identity \in Identities \cup {NoOne}
    /\ issued_jobs \in Seq([job : Jobs, superseded_by_clean : BOOLEAN, difficulty : {0}])
    /\ Len(issued_jobs) <= JOB_HISTORY_DEPTH
    /\ job_ids \in Seq([id : 1 .. JobIds, job : Nat]) /\ Len(job_ids) <= JOB_HISTORY_DEPTH
    /\ next_job_id \in 1 .. JobIds
    /\ share_set \in Seq(Keys) /\ Len(share_set) <= MaxShareSet
    /\ invalid_shares \in Nat /\ (MaxInvalid > 0 => invalid_shares <= MaxInvalid)
    /\ authorizations \in Nat
    /\ (MaxAuthorizations > 0 => authorizations <= MaxAuthorizations + 1)
    /\ nextJob \in Nat /\ wire \in Shares \cup {NoShare}
    /\ sent \in Seq(SentJobs) /\ credited \in Seq(Credits)

\* Whoever is credited with a share is who its coinbase pays, through every
\* change of identity with jobs and shares outstanding (session.rs:680-701,
\* sv2/mod.rs:567-583).
PaidIsCredited == \A i \in DOMAIN credited : credited[i].payee = credited[i].paid

Contract == INSTANCE ShareContract WITH
    permitted <- IF proto = "sv1" /\ rolling THEN mask ELSE MaskBits,
    name <- worker, payee <- identity, blamed <- invalid_shares, asked <- wire,
    Depth <- JOB_HISTORY_DEPTH, Memory <- MaxShareSet

\* The bounded job table, the SV2 id table with its wrapping counter, the
\* dedup set that is cut short and cleared, and the blame rules credit and
\* blame exactly the submissions the contract does: a share of a job that is
\* still valid is judged by that very job, credited once, and an honest miner
\* is never charged for bad luck, a clean job or a race
\* (jobs.rs:31-53, sv2/mod.rs:172-191, validator.rs:76-157, accounting.rs:52-63).
KeepsContract == Contract!Spec
=============================================================================
