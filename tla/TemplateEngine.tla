--------------------------- MODULE TemplateEngine ---------------------------
(***************************************************************************)
(* The template engine: it refreshes on a tip signal and on a timer, gates *)
(* the node's template on the rules it announces, stores it for sessions   *)
(* to read, and sends it to the subscribers.  TipWatch adds where the      *)
(* signal comes from and who watches the engine; TemplateFlow adds the     *)
(* sessions that take the templates.                                       *)
(*                                                                         *)
(* A template is named by the tip it builds on: that is the one field the  *)
(* clean flag, the job tables and a device's prev-hash depend on.  Two     *)
(* refreshes on one tip differ only in ntime and transactions.             *)
(***************************************************************************)
EXTENDS Integers

CONSTANTS
    Tips,               \* prev-hashes the node may build on
    strict_gbt_rules,   \* the operator's setting
    MaxTipChanges,      \* bound: how often the tip moves
    MaxRuleChanges,     \* bound: how often the template's rules change
    MaxFaults,          \* bound: how often the node goes wrong or recovers
    MaxDeaths           \* bound: panics of the engine's task

NoTemplate == "none"

ASSUME TemplateAssumption ==
    /\ NoTemplate \notin Tips /\ strict_gbt_rules \in BOOLEAN
    /\ MaxTipChanges \in Nat /\ MaxRuleChanges \in Nat /\ MaxFaults \in Nat /\ MaxDeaths \in Nat

VARIABLES
    tip, newRules, fault,   \* the node: its tip, whether its templates announce an unknown
                            \* rule, and whether RPC calls or template builds fail
    left,                   \* how many events of each bounded kind may still happen
    tip_signal,             \* the watch channel: a version the engine has not seen
    refresh,                \* the engine's program counter and locals
    current_template, unsupported_rules

nodeVars == <<tip, newRules, fault>>
engineVars == <<nodeVars, left, tip_signal, refresh, current_template, unsupported_rules>>

\* One event of a bounded kind happens.
Spend(kind) == /\ left[kind] > 0
               /\ left' = [left EXCEPT ![kind] = @ - 1]

-----------------------------------------------------------------------------
\* The best chain's tip moves, by a block or a reorganisation, back to an
\* earlier tip included.  Its notification may raise the signal or be lost.
TipMoves(heard) ==
    /\ Spend("tip")
    /\ \E t \in Tips \ {tip} : tip' = t
    /\ tip_signal' = (tip_signal \/ heard)
    /\ UNCHANGED <<newRules, fault, refresh, current_template, unsupported_rules>>

\* Templates start, or stop, announcing a rule this build does not implement.
RulesChange ==
    /\ Spend("rules")
    /\ newRules' = ~newRules
    /\ UNCHANGED <<tip, fault, tip_signal, refresh, current_template, unsupported_rules>>

\* The node stops answering, hands out templates that do not build, or is
\* well again.
FaultChanges ==
    /\ Spend("fault")
    /\ fault' \in {"none", "rpc", "build"} \ {fault}
    /\ UNCHANGED <<tip, newRules, tip_signal, refresh, current_template, unsupported_rules>>

Refreshing(pc, clean_jobs, template, flag) ==
    [pc |-> pc, clean_jobs |-> clean_jobs, template |-> template, flag |-> flag]
Idle == Refreshing("idle", FALSE, NoTemplate, FALSE)

\* drive_refresh_loop: a refresh starts on the tip signal, which it consumes,
\* or on the ntime timer.
TipSignalled ==
    /\ refresh.pc = "idle" /\ tip_signal
    /\ tip_signal' = FALSE
    /\ refresh' = Refreshing("fetch", TRUE, NoTemplate, FALSE)
    /\ UNCHANGED <<nodeVars, left, current_template, unsupported_rules>>

\* Mutant: the timer refreshes only when a signal is pending.
MutTimerAwaitsSignal ==
    /\ refresh.pc = "idle" /\ tip_signal
    /\ refresh' = Refreshing("fetch", FALSE, NoTemplate, FALSE)
    /\ UNCHANGED <<nodeVars, left, tip_signal, current_template, unsupported_rules>>

NtimeTick ==
    /\ refresh.pc = "idle"
    /\ refresh' = Refreshing("fetch", FALSE, NoTemplate, FALSE)
    /\ UNCHANGED <<nodeVars, left, tip_signal, current_template, unsupported_rules>>

\* getblocktemplate answers with the tip and the rules of that moment, or
\* fails.
GetBlockTemplate ==
    /\ refresh.pc = "fetch"
    /\ refresh' = IF fault = "rpc" THEN Idle
                  ELSE Refreshing("rules", refresh.clean_jobs, tip, newRules)
    /\ UNCHANGED <<nodeVars, left, tip_signal, current_template, unsupported_rules>>

\* The unknown rules are published whatever the setting; under
\* strict_gbt_rules they also withdraw the template, in a step of its own.
check_template_rules ==
    /\ refresh.pc = "rules"
    /\ unsupported_rules' = refresh.flag
    /\ refresh' = Refreshing(IF refresh.flag /\ strict_gbt_rules THEN "withdraw" ELSE "build",
                             refresh.clean_jobs, refresh.template, FALSE)
    /\ UNCHANGED <<nodeVars, left, tip_signal, current_template>>

WithdrawTemplate ==
    /\ refresh.pc = "withdraw"
    /\ current_template' = NoTemplate
    /\ refresh' = Idle
    /\ UNCHANGED <<nodeVars, left, tip_signal, unsupported_rules>>

\* Mutant: the caller's flag decides whether the broadcast is clean.
MutCallerDecides(previous, new_prev_hash) == refresh.clean_jobs

should_force_clean(previous, new_prev_hash) == previous # new_prev_hash

\* The template is built and stored.  refresh.flag is now the broadcast's
\* clean flag: the outgoing template's prev-hash decides it, not the caller.
StoreTemplate ==
    /\ refresh.pc = "build" /\ fault # "build"
    /\ current_template' = refresh.template
    /\ refresh' = Refreshing("send", refresh.clean_jobs, refresh.template,
                             should_force_clean(current_template, refresh.template))
    /\ UNCHANGED <<nodeVars, left, tip_signal, unsupported_rules>>

BuildFails ==
    /\ refresh.pc = "build" /\ fault = "build"
    /\ refresh' = Idle
    /\ UNCHANGED <<nodeVars, left, tip_signal, current_template, unsupported_rules>>

\* What the subscribers get is up to the module that has them.
SendBroadcast ==
    /\ refresh.pc = "send"
    /\ refresh' = Idle
    /\ UNCHANGED <<nodeVars, left, tip_signal, current_template, unsupported_rules>>

\* A panic while a template is fetched, gated or built: the task is gone.
EngineDies ==
    /\ refresh.pc \in {"fetch", "rules", "build"}
    /\ Spend("death")
    /\ refresh' = Refreshing("dead", FALSE, NoTemplate, FALSE)
    /\ UNCHANGED <<nodeVars, tip_signal, current_template, unsupported_rules>>

-----------------------------------------------------------------------------
EngineInit ==
    /\ tip \in Tips /\ newRules = FALSE /\ fault = "none"
    /\ left = [tip |-> MaxTipChanges, rules |-> MaxRuleChanges,
               fault |-> MaxFaults, death |-> MaxDeaths]
    /\ tip_signal = FALSE
    /\ refresh = Refreshing("fetch", TRUE, NoTemplate, FALSE)
    /\ current_template = NoTemplate /\ unsupported_rules = FALSE

EngineTypeOK ==
    /\ tip \in Tips /\ newRules \in BOOLEAN /\ fault \in {"none", "rpc", "build"}
    /\ left \in [{"tip", "rules", "fault", "death"} -> Nat]
    /\ tip_signal \in BOOLEAN
    /\ refresh \in [pc : {"idle", "fetch", "rules", "withdraw", "build", "send", "dead"},
                    clean_jobs : BOOLEAN, template : Tips \cup {NoTemplate}, flag : BOOLEAN]
    /\ current_template \in Tips \cup {NoTemplate}
    /\ unsupported_rules \in BOOLEAN
=============================================================================
