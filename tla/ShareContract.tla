--------------------------- MODULE ShareContract ---------------------------
(***************************************************************************)
(* What a pool session promises about shares, without saying how: which    *)
(* submission is credited, which is turned down, and which counts against  *)
(* the miner.  It remembers everything it ever sent and credited; the      *)
(* sessions of the program keep bounded tables instead, and MiningSession  *)
(* shows that these keep the promise.                                      *)
(***************************************************************************)
EXTENDS Integers, Sequences

CONSTANTS
    Identities,         \* canonical worker identities, each with its payout
    Depth, Memory,      \* jobs that stay valid; credited shares remembered
    NoOne, NoShare

VARIABLES
    permitted,          \* version bits a share may roll
    name, payee,        \* the spelling authorised, and the identity it stands for
    sent,               \* every job sent to payee: id, number, identity it pays, still live
    credited,           \* every credit: who, and for which job and work
    blamed,             \* submissions counted against the miner
    asked               \* the submission in flight

vars == <<permitted, name, payee, sent, credited, blamed, asked>>

Init ==
    /\ name = NoOne /\ payee = NoOne /\ sent = <<>>
    /\ credited = <<>> /\ blamed = 0 /\ asked = NoShare

-----------------------------------------------------------------------------
\* The last n elements.
Recent(seq, n) == {seq[i] : i \in {j \in 1 .. Len(seq) : j > Len(seq) - n}}

\* The job an id names: of those still valid, the one sent with it last.
Named(id) == {job \in Recent(sent, Depth) :
                 job.id = id /\ \A other \in Recent(sent, Depth) :
                                    other.id = id => other.number <= job.number}

Repeated(share) ==
    \E job \in Named(share.id), c \in Recent(credited, Memory) :
        c.number = job.number /\ c.work = share.work

\* SV1 names the worker in every share and SV2 in none.
Addressed(share) == share.name \in {NoOne, name}

Malformed(share) ==
    share.quality \in {"malformed", "short"} \/ ~(share.work.bits \subseteq permitted)

\* Credit is due for work of the right quality, once, on a live job.
Due(share) ==
    /\ Addressed(share) /\ share.quality = "good" /\ ~Malformed(share)
    /\ \E job \in Named(share.id) : job.live
    /\ ~Repeated(share)

\* Blame takes an id that names no valid job, a repetition, or a malformed
\* submission; never bad luck or a job that was retired meanwhile.
Deserved(share) ==
    /\ Addressed(share)
    /\ Named(share.id) = {} \/ Repeated(share) \/ Malformed(share)

Credit(share) ==
    /\ Due(share)
    /\ \E job \in Named(share.id) :
           credited' = Append(credited, [payee |-> payee, paid |-> job.payee,
                                         number |-> job.number, work |-> share.work])
    /\ UNCHANGED blamed

Blame(share) == Deserved(share) /\ blamed' = blamed + 1 /\ UNCHANGED credited

TurnDown(share) == ~Due(share) /\ UNCHANGED <<credited, blamed>>

-----------------------------------------------------------------------------
Ask == asked = NoShare /\ asked' # NoShare /\ UNCHANGED <<permitted, name, payee, sent, credited, blamed>>

Answer ==
    /\ asked # NoShare /\ asked' = NoShare
    /\ Credit(asked) \/ Blame(asked) \/ TurnDown(asked)
    /\ UNCHANGED <<permitted, name, payee, sent>>

\* A job is sent, paying the identity of that moment; a clean one retires
\* the others.
After(jobs, job, clean) ==
    Append([i \in 1 .. Len(jobs) |-> [id |-> jobs[i].id, number |-> jobs[i].number,
                                      payee |-> jobs[i].payee, live |-> jobs[i].live /\ ~clean]],
           job)

\* What was sent is what was there and one new job that pays who.
Sends(jobs, who, clean) ==
    /\ sent' # <<>>
    /\ LET job == sent'[Len(sent')]
       IN  job.payee = who /\ job.live /\ sent' = After(jobs, job, clean)

Send ==
    /\ payee # NoOne
    /\ \E clean \in BOOLEAN : Sends(sent, payee, clean)
    /\ UNCHANGED <<permitted, name, payee, credited, blamed, asked>>

\* Another spelling of the same identity, or another identity, to which no
\* earlier job belongs; either may come with its first job.
Authorise ==
    /\ name' # NoOne /\ payee' \in Identities
    /\ LET kept == IF payee' = payee THEN sent ELSE <<>>
       IN  sent' = kept \/ Sends(kept, payee', TRUE)
    /\ UNCHANGED <<permitted, credited, blamed, asked>>

\* Version rolling is negotiated anew.
Negotiate == UNCHANGED <<name, payee, sent, credited, blamed, asked>>

Next == Negotiate \/ Ask \/ Answer \/ Send \/ Authorise

Spec == Init /\ [][Next]_vars
=============================================================================
