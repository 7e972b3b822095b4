---------------------------- MODULE TemplateFlow ----------------------------
(***************************************************************************)
(* How a template becomes work in front of a miner: the broadcast channel  *)
(* with its bounded ring, and the sessions, SV1 and SV2, that subscribe,   *)
(* cache the current template, keep a table of issued jobs and tell their  *)
(* device.  A session's task runs at its own pace, so a broadcast may      *)
(* reach it long after the engine sent it, or never.  That the engine's    *)
(* own task may die is TipWatch's matter.                                  *)
(***************************************************************************)
EXTENDS TemplateEngine, IssuedJobs, Sequences

CONSTANTS
    Sessions,               \* miner connections
    JOB_BROADCAST_CAP,      \* ring size of the broadcast channel
    MaxLeaves               \* bound: sessions that end

ASSUME FlowAssumption ==
    JOB_BROADCAST_CAP \in Nat \ {0} /\ MaxLeaves \in Nat

VARIABLES
    phase, proto, queue, lagged,    \* the session's task and its receiver
    cached, ready, issued,          \* its template, authorised or channel open, its job table
    device,                         \* the prev-hash the device was last told
    missedClean,                    \* a clean broadcast was overrun and none was read since
    leaves                          \* sessions that ended

workVars == <<cached, ready, issued, device, missedClean>>
recvVars == <<phase, proto, queue, lagged>>
vars == <<engineVars, recvVars, workVars, leaves>>

-----------------------------------------------------------------------------
(* The broadcast channel and the sessions *)

Subscribers == {s \in Sessions : phase[s] # "gone"}

\* What is lost when a subscriber's ring is full: its oldest broadcast.
Overflows(s) == s \in Subscribers /\ Len(queue[s]) = JOB_BROADCAST_CAP

Broadcast ==
    /\ SendBroadcast
    /\ queue' = [s \in Sessions |->
           IF s \notin Subscribers THEN queue[s]
           ELSE Append(IF Overflows(s) THEN Tail(queue[s]) ELSE queue[s],
                       [template |-> refresh.template, clean |-> refresh.flag])]
    /\ lagged' = [s \in Sessions |-> lagged[s] \/ Overflows(s)]
    /\ missedClean' = [s \in Sessions |->
           missedClean[s] \/ (Overflows(s) /\ Head(queue[s]).clean)]
    /\ UNCHANGED <<phase, proto, cached, ready, issued, device, leaves>>

\* A connection is accepted: the session subscribes before it reads anything.
Connect(s) ==
    /\ phase[s] = "gone"
    /\ phase' = [phase EXCEPT ![s] = "subscribed"]
    /\ \E p \in {"sv1", "sv2"} : proto' = [proto EXCEPT ![s] = p]
    /\ UNCHANGED <<engineVars, leaves, queue, lagged, workVars>>

CacheTemplate(s) ==
    /\ phase[s] = "subscribed"
    /\ phase' = [phase EXCEPT ![s] = "running"]
    /\ cached' = [cached EXCEPT ![s] = current_template]
    /\ UNCHANGED <<engineVars, leaves, proto, queue, lagged, ready, issued, device, missedClean>>

\* A job goes out.  An SV1 notify carries its prev-hash; an SV2 job is worked
\* on the last SetNewPrevHash, which goes out with clean jobs only.  The
\* job's difficulty stamp is MiningSession's matter.
SendJob(s, template, clean) ==
    /\ issued' = [issued EXCEPT ![s] = issue(@, template, clean, 0)]
    /\ device' = [device EXCEPT ![s] = IF clean \/ proto[s] = "sv1" THEN template ELSE @]
    /\ cached' = [cached EXCEPT ![s] = template]

\* mining.authorize, also repeated: the cached template, else the engine's.
handle_authorize(s) ==
    /\ phase[s] = "running" /\ proto[s] = "sv1"
    /\ ready' = [ready EXCEPT ![s] = TRUE]
    /\ LET template == IF cached[s] # NoTemplate THEN cached[s] ELSE current_template
       IN  IF template = NoTemplate THEN UNCHANGED <<issued, device, cached>>
           ELSE SendJob(s, template, TRUE)
    /\ UNCHANGED <<engineVars, leaves, phase, proto, queue, lagged, missedClean>>

\* OpenExtendedMiningChannel: one channel, and the cached template only.
handle_open_extended(s) ==
    /\ phase[s] = "running" /\ proto[s] = "sv2" /\ ~ready[s]
    /\ ready' = [ready EXCEPT ![s] = TRUE]
    /\ IF cached[s] = NoTemplate THEN UNCHANGED <<issued, device, cached>>
       ELSE SendJob(s, cached[s], TRUE)
    /\ UNCHANGED <<engineVars, leaves, phase, proto, queue, lagged, missedClean>>

\* Mutant: a session with a job forgets to keep the template it was sent.
MutCacheNotKept(s) ==
    /\ phase[s] = "running" /\ ~lagged[s] /\ queue[s] # <<>>
    /\ queue' = [queue EXCEPT ![s] = Tail(@)]
    /\ LET b == Head(queue[s])
       IN  /\ IF ready[s]
              THEN /\ issued' = [issued EXCEPT ![s] = issue(@, b.template, b.clean, 0)]
                   /\ UNCHANGED <<cached, device>>
              ELSE cached' = [cached EXCEPT ![s] = b.template] /\ UNCHANGED <<issued, device>>
           /\ missedClean' = [missedClean EXCEPT ![s] = @ /\ ~b.clean]
    /\ UNCHANGED <<engineVars, leaves, phase, proto, lagged, ready>>

\* The session's job arm takes the next broadcast.
RecvJob(s) ==
    /\ phase[s] = "running" /\ ~lagged[s] /\ queue[s] # <<>>
    /\ queue' = [queue EXCEPT ![s] = Tail(@)]
    /\ LET b == Head(queue[s])
       IN  /\ IF ready[s] THEN SendJob(s, b.template, b.clean)
              ELSE cached' = [cached EXCEPT ![s] = b.template] /\ UNCHANGED <<issued, device>>
           /\ missedClean' = [missedClean EXCEPT ![s] = @ /\ ~b.clean]
    /\ UNCHANGED <<engineVars, leaves, phase, proto, lagged, ready>>

\* A receiver that was overrun learns it once, logs it and reads on.
RecvLagged(s) ==
    /\ phase[s] = "running" /\ lagged[s]
    /\ lagged' = [lagged EXCEPT ![s] = FALSE]
    /\ UNCHANGED <<engineVars, leaves, phase, proto, queue, workVars>>

\* The session ends, for whatever reason; all of it was local to its task.
Leave(s) ==
    /\ phase[s] # "gone"
    /\ leaves < MaxLeaves /\ leaves' = leaves + 1
    /\ phase' = [phase EXCEPT ![s] = "gone"]
    /\ queue' = [queue EXCEPT ![s] = <<>>]
    /\ lagged' = [lagged EXCEPT ![s] = FALSE]
    /\ cached' = [cached EXCEPT ![s] = NoTemplate]
    /\ ready' = [ready EXCEPT ![s] = FALSE]
    /\ issued' = [issued EXCEPT ![s] = <<>>]
    /\ device' = [device EXCEPT ![s] = NoTemplate]
    /\ missedClean' = [missedClean EXCEPT ![s] = FALSE]
    /\ UNCHANGED <<engineVars, proto>>

-----------------------------------------------------------------------------
Init ==
    /\ EngineInit
    /\ phase = [s \in Sessions |-> "gone"]
    /\ proto = [s \in Sessions |-> "sv1"]
    /\ queue = [s \in Sessions |-> <<>>]
    /\ lagged = [s \in Sessions |-> FALSE]
    /\ cached = [s \in Sessions |-> NoTemplate]
    /\ ready = [s \in Sessions |-> FALSE]
    /\ issued = [s \in Sessions |-> <<>>]
    /\ device = [s \in Sessions |-> NoTemplate]
    /\ missedClean = [s \in Sessions |-> FALSE]
    /\ leaves = 0

\* ZMQ and the poll may or may not hear of a moved tip: TipWatch has them.
NodeStep == TipMoves(TRUE) \/ TipMoves(FALSE) \/ RulesChange \/ FaultChanges

RefreshStep ==
    \/ /\ GetBlockTemplate \/ check_template_rules \/ WithdrawTemplate \/ StoreTemplate \/ BuildFails
       /\ UNCHANGED <<recvVars, workVars, leaves>>
    \/ Broadcast

NtimeTimer == NtimeTick /\ UNCHANGED <<recvVars, workVars, leaves>>

Next ==
    \/ /\ NodeStep \/ TipSignalled
       /\ UNCHANGED <<recvVars, workVars, leaves>>
    \/ NtimeTimer \/ RefreshStep
    \/ \E s \in Sessions : \/ Connect(s) \/ CacheTemplate(s) \/ RecvJob(s) \/ RecvLagged(s)
                           \/ handle_authorize(s) \/ handle_open_extended(s) \/ Leave(s)

Spec == Init /\ [][Next]_vars

\* The runtime polls every task: a refresh under way moves on, an idle engine
\* is woken by its timer, and a session takes its broadcasts, 30 seconds
\* apart, even if it is overrun now and then: hence strong fairness there.
Fairness ==
    /\ WF_vars(RefreshStep) /\ WF_vars(NtimeTimer)
    /\ \A s \in Sessions : WF_vars(CacheTemplate(s) \/ RecvLagged(s)) /\ SF_vars(RecvJob(s))

LiveSpec == Spec /\ Fairness

-----------------------------------------------------------------------------
(* Properties *)

TypeOK ==
    /\ EngineTypeOK
    /\ phase \in [Sessions -> {"gone", "subscribed", "running"}]
    /\ proto \in [Sessions -> {"sv1", "sv2"}]
    /\ queue \in [Sessions -> Seq([template : Tips, clean : BOOLEAN])]
    /\ \A s \in Sessions : Len(queue[s]) <= JOB_BROADCAST_CAP
    /\ lagged \in [Sessions -> BOOLEAN]
    /\ cached \in [Sessions -> Tips \cup {NoTemplate}]
    /\ ready \in [Sessions -> BOOLEAN]
    /\ issued \in [Sessions -> Seq([job : Tips, superseded_by_clean : BOOLEAN, difficulty : {0}])]
    /\ \A s \in Sessions : Len(issued[s]) <= JOB_HISTORY_DEPTH
    /\ device \in [Sessions -> Tips \cup {NoTemplate}]
    /\ missedClean \in [Sessions -> BOOLEAN] /\ leaves \in 0 .. MaxLeaves

\* A session with nothing more to read while the engine is not about to send.
Drained(s) == phase[s] = "running" /\ queue[s] = <<>> /\ refresh.pc # "send"

Newest(table) == table[Len(table)]
Working(s, t) == issued[s] # <<>> /\ Newest(issued[s]).job = t

\* A session that has read all its broadcasts holds the engine's template,
\* and its newest job, if it was to get one, is built on it: no order of
\* subscribing, caching, storing, broadcasting, overrunning and authorising
\* leaves a miner behind (session.rs:185-195, engine.rs:253-284).
DrainedIsCurrent ==
    \A s \in Sessions :
        Drained(s) /\ current_template # NoTemplate =>
            /\ cached[s] = current_template
            /\ ready[s] => Working(s, current_template)

\* Then also every job the pool would still credit is on that tip, and so is
\* the prev-hash the device works on; a new tip that only the ntime timer
\* found is no exception (engine.rs:529-546).  The one way out is a clean
\* broadcast the session was overrun past.
DrainedIsOnOneTip ==
    \A s \in Sessions :
        Drained(s) /\ ready[s] /\ current_template # NoTemplate /\ ~missedClean[s] =>
            /\ device[s] = current_template
            /\ \A i \in DOMAIN issued[s] :
                   ~issued[s][i].superseded_by_clean => issued[s][i].job = current_template

\* A ready miner gets a job on the node's tip, by whichever of ZMQ, poll and
\* timer survives, unless the tip moves on, the miner goes, the node
\* fails or the rules stop work (engine.rs:483-527).
TipReachesMiners ==
    \A s \in Sessions, t \in Tips :
        (tip = t /\ ready[s]) ~>
            \/ tip # t \/ ~ready[s] \/ Working(s, t)
            \/ fault # "none" \/ newRules
=============================================================================
