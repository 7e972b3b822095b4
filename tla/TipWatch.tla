------------------------------ MODULE TipWatch ------------------------------
(***************************************************************************)
(* What wakes the template engine and what notices that it stopped: the    *)
(* supervised ZMQ listener and the RPC poll behind the watch signal, the   *)
(* freshness clock, GET /health and the watchdog task.                     *)
(***************************************************************************)
EXTENDS TemplateEngine

CONSTANTS
    TEMPLATE_STALE_AFTER,   \* age, in ticks, at which a template is stale
    ZMQ_MAX_BACKOFF,        \* ceiling of the listener's retry delay
    ZMQ_STABLE_AFTER        \* uptime that makes a failure a fresh problem

ZMQ_INITIAL_BACKOFF == 1

ASSUME WatchAssumption ==
    /\ TEMPLATE_STALE_AFTER \in Nat \ {0}
    /\ ZMQ_MAX_BACKOFF \in Nat \ {0} /\ ZMQ_STABLE_AFTER \in Nat \ {0}

VARIABLES
    listening, uptime, backoff,     \* the ZMQ socket and its supervisor
    last_hash,                      \* the poll's memory
    has_refreshed, age, was_stale   \* freshness, and the watchdog's memory

zmqVars == <<listening, uptime, backoff>>
freshVars == <<has_refreshed, age>>
vars == <<engineVars, zmqVars, last_hash, freshVars, was_stale>>

-----------------------------------------------------------------------------
\* run_zmq_listener returns: the socket was refused, errored or closed.
run_zmq_listener_Fails ==
    /\ listening
    /\ listening' = FALSE
    /\ UNCHANGED <<engineVars, uptime, backoff, last_hash, freshVars, was_stale>>

next_backoff(current) == IF 2 * current < ZMQ_MAX_BACKOFF THEN 2 * current ELSE ZMQ_MAX_BACKOFF

\* The supervisor after its sleep; uptime was sampled before it.  The next
\* attempt fails at once or gets a socket.
supervise_zmq_listener ==
    /\ ~listening
    /\ backoff' = IF uptime >= ZMQ_STABLE_AFTER THEN ZMQ_INITIAL_BACKOFF ELSE next_backoff(backoff)
    /\ uptime' = 0
    /\ listening' \in BOOLEAN
    /\ UNCHANGED <<engineVars, last_hash, freshVars, was_stale>>

\* One turn of the poll: a hash that changed since the last one is announced.
run_poll_fallback ==
    /\ fault # "rpc"
    /\ last_hash' = tip
    /\ tip_signal' = (tip_signal \/ tip # last_hash)
    /\ UNCHANGED <<nodeVars, left, refresh, current_template, unsupported_rules,
                   zmqVars, freshVars, was_stale>>

-----------------------------------------------------------------------------
\* Time passes: the template ages and a listening socket stays up.
Tick ==
    /\ age' = IF age < TEMPLATE_STALE_AFTER THEN age + 1 ELSE age
    /\ uptime' = IF listening /\ uptime < ZMQ_STABLE_AFTER THEN uptime + 1 ELSE uptime
    /\ UNCHANGED <<engineVars, listening, backoff, last_hash, has_refreshed, was_stale>>

\* The stored template restarts the freshness clock; nothing else does.
TemplateLands ==
    /\ StoreTemplate
    /\ has_refreshed' = TRUE /\ age' = 0
    /\ UNCHANGED <<zmqVars, last_hash, was_stale>>

\* Mutant: a template that once arrived is fresh for good.
MutFreshForGood(refreshed, ticks) == refreshed

is_fresh(refreshed, ticks) == refreshed /\ ticks < TEMPLATE_STALE_AFTER
is_template_fresh == is_fresh(has_refreshed, age)
is_blocked_on_rules == strict_gbt_rules /\ unsupported_rules

\* GET /health.
health == IF is_blocked_on_rules THEN "unsupported_rules"
          ELSE IF is_template_fresh THEN "ok" ELSE "stale"

Watchdog ==
    /\ was_stale' = ~is_template_fresh
    /\ UNCHANGED <<engineVars, zmqVars, last_hash, freshVars>>

-----------------------------------------------------------------------------
Init ==
    /\ EngineInit
    /\ listening \in BOOLEAN /\ uptime = 0 /\ backoff = ZMQ_INITIAL_BACKOFF
    /\ last_hash = NoTemplate
    /\ has_refreshed = FALSE /\ age = 0 /\ was_stale = FALSE

\* A tip that moves is heard by a listening socket, unless the publisher
\* drops the notification.
NodeStep == TipMoves(FALSE) \/ (listening /\ TipMoves(TRUE)) \/ RulesChange \/ FaultChanges

RefreshStep ==
    \/ /\ GetBlockTemplate \/ check_template_rules \/ WithdrawTemplate \/ BuildFails \/ SendBroadcast
       /\ UNCHANGED <<zmqVars, last_hash, freshVars, was_stale>>
    \/ TemplateLands

NtimeTimer == NtimeTick /\ UNCHANGED <<zmqVars, last_hash, freshVars, was_stale>>
TipSignal == TipSignalled /\ UNCHANGED <<zmqVars, last_hash, freshVars, was_stale>>

Next ==
    \/ NodeStep /\ UNCHANGED <<zmqVars, last_hash, freshVars, was_stale>>
    \/ run_zmq_listener_Fails \/ supervise_zmq_listener \/ run_poll_fallback
    \/ TipSignal \/ NtimeTimer \/ RefreshStep
    \/ EngineDies /\ UNCHANGED <<zmqVars, last_hash, freshVars, was_stale>>
    \/ Tick \/ Watchdog

Spec == Init /\ [][Next]_vars

\* The runtime polls every task: a refresh under way moves on, an idle engine
\* is woken by its timer, the clock, the watchdog and the supervisor go on.
\* Nothing is assumed of the poll, which is optional, or of ZMQ.
Fairness ==
    /\ WF_vars(RefreshStep) /\ WF_vars(NtimeTimer)
    /\ WF_vars(Tick) /\ WF_vars(Watchdog) /\ WF_vars(supervise_zmq_listener)

LiveSpec == Spec /\ Fairness

-----------------------------------------------------------------------------
\* The engine comes to hold a template of the node's tip, by whichever of
\* ZMQ, poll and timer survives, unless the tip moves on, the node fails, the
\* rules stop work or the engine's task died (engine.rs:483-527).
TipReachesEngine ==
    \A t \in Tips :
        tip = t ~> \/ tip # t \/ current_template = t
                   \/ fault # "none" \/ newRules \/ refresh.pc = "dead"

\* Either templates keep landing, or the health probe and the watchdog say in
\* the end that they do not and never take it back: a node that stopped
\* answering, templates that do not build, rules that stop work, and a dead
\* engine task, which nothing inside that task can report
\* (engine.rs:266-280, main.rs:197-224).
FreezeIsReported ==
    []<><<TemplateLands>>_vars \/ <>[](was_stale /\ health # "ok")

=============================================================================
