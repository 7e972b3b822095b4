--------------------------- MODULE BlockBuilding ---------------------------
(***************************************************************************)
(* The way of one block through JobBuilding: a configuration, a template,  *)
(* the job that a session makes of it and the share that a device sends    *)
(* back.  The state holds what is chosen on the way; what the pool makes   *)
(* of it is computed.                                                      *)
(***************************************************************************)
EXTENDS JobBuilding

CONSTANTS
    Configs,                \* [tag, en1, en2]: lengths in the configuration file, and
                            \* strict: templates under unknown rules are refused
    Templates,              \* what getblocktemplate may answer
    PayoutLengths,          \* lengths of the payout script
    Delays                  \* time from the template to the share

\* An int of 32 bits has three bytes and seven bits.
IsInt(n) == Shift(Shift(Shift(n))) < 128

\* The smallest transaction, by the node's rules.
MIN_TRANSACTION_WEIGHT == 240

\* What a node promises of a template: whole words in its hashes, a height that
\* is an int, a time after the median of the blocks before it, and the version
\* bits that it requires.
ASSUME BlockAssumption ==
    /\ \A c \in Configs : c.tag \in Nat /\ c.en1 \in Nat /\ c.en2 \in Nat
    /\ PayoutLengths \subseteq Nat /\ Delays \subseteq Nat
    /\ \A t \in Templates :
        /\ t.prev_hash \in Seq(STRING) /\ Len(t.prev_hash) % 2 = 0
        /\ t.txids \in Seq(Seq(STRING) \ {<<>>})
        /\ t.height \in Nat \ {0} /\ IsInt(t.height) /\ t.txWeight \in Nat /\ t.commitment \in BOOLEAN
        /\ MIN_TRANSACTION_WEIGHT * Len(t.txids) <= t.txWeight
        /\ t.asked \in Nat /\ t.cur_time \in Nat /\ t.median_time \in Nat
        /\ t.median_time < t.cur_time
        /\ t.vbrequired \subseteq t.version

VARIABLES
    stage,                  \* how far the block has come
    config, gbt,            \* the pool's configuration, the node's template
    order,                  \* [payout, en1, en2]: the payout and the extranonce split of a job
    share                   \* the device's submission

block_vars == <<stage, config, gbt, order, share>>

-----------------------------------------------------------------------------
(* From configuration to share *)

NoChoice == [none |-> TRUE]

\* Config::load refuses what validate does not pass.
BlockInit ==
    /\ stage = "boot"
    /\ config \in {c \in Configs : validate(c.tag, c.en1, c.en2)}
    /\ gbt = NoChoice /\ order = NoChoice /\ share = NoChoice

\* TemplateEngine::refresh: without strict rules an unknown rule is only
\* reported.
Refresh ==
    /\ stage = "boot"
    /\ gbt' \in Templates
    /\ stage' = IF \/ config.strict /\ unsupported_gbt_rules(gbt') # {}
                   \/ ~build_job_template(gbt').ok
                THEN "refused" ELSE "template"
    /\ UNCHANGED <<config, order, share>>

JobOf(choice) ==
    build_job_for_payout(build_job_template(gbt), choice.payout, config.tag, choice.en1, choice.en2)

\* Materialise the job for a session: an SV1 session has the configured
\* split, an SV2 channel gets as much of the total as it asks for.
Issue(choice) ==
    /\ stage = "template"
    /\ order' = choice
    /\ stage' = IF JobOf(choice).ok THEN "issued" ELSE "unbuilt"
    /\ UNCHANGED <<config, gbt, share>>

IssueSv1 ==
    \E payout \in PayoutLengths :
        Issue([payout |-> payout, en1 |-> config.en1, en2 |-> config.en2])

IssueSv2 ==
    \E payout \in PayoutLengths, requested \in 0..(config.en1 + config.en2) :
        LET granted == IF requested = 0 THEN 1 ELSE requested
        IN  Issue([payout |-> payout, en1 |-> config.en1 + config.en2 - granted, en2 |-> granted])

\* The extranonces of the session and of the device.
Ours == Repeat(7, order.en1)
Theirs == Repeat(9, order.en2)

\* The job is bound by a quantifier, here and in the properties of a share, and
\* not by a LET, so that it is computed once for all.
Submit ==
    /\ stage = "issued"
    /\ \E job \in {JobOf(order)}, mask \in SUBSET VERSION_ROLLING_MASK, delay \in Delays :
        \E bits \in SUBSET VERSION_ROLLING_MASK, ntime \in (gbt.cur_time - 1)..(gbt.cur_time + MAX_NTIME_DRIFT_SECS + 1) :
            /\ share' = [extranonce2 |-> Theirs, bits |-> bits, mask |-> mask,
                         ntime |-> ntime, now |-> gbt.asked + delay]
            /\ stage' = IF validate_share(job, Ours, share', share'.now).ok
                        THEN "accepted" ELSE "rejected"
    /\ UNCHANGED <<config, gbt, order>>

BlockNext == Refresh \/ IssueSv1 \/ IssueSv2 \/ Submit

BlockSpec == BlockInit /\ [][BlockNext]_block_vars

-----------------------------------------------------------------------------
\* What a device makes of a job, and the pool of the device's share, is one
\* and the same header, for every number of transactions, every split of the
\* extranonce between pool and device, every version the negotiated mask
\* allows and both wire formats.
HeadersAgree ==
    stage = "accepted" =>
        \A job \in {JobOf(order)} :
            LET header == validate_share(job, Ours, share, share.now).header
                Device(wire, prev) ==
                    DeviceHeader(wire, prev, Ours, Theirs, share.bits, share.mask, share.ntime)
            IN  /\ header = Device(notify(job), SwapWords(notify(job).prev))
                /\ header = Device(build_new_extended_job(job), build_set_new_prev_hash(job))

\* A share that the pool takes, and that is lucky enough, is a block that a
\* node takes: it builds on the tip, commits to the transactions of the
\* template, pushes its height as consensus demands, is within the weight
\* limit, and its time is one that the node allows, also while the chain runs
\* ahead of the clocks.  With strict rules it has every version bit that the
\* node requires, whatever mask was negotiated before the template came.
BlocksAreValid ==
    stage = "accepted" =>
        \A job \in {JobOf(order)} : \A judged \in {validate_share(job, Ours, share, share.now)} :
            /\ NodeAccepts(assemble_block_hex(job, judged), gbt, gbt.median_time, share.now)
            /\ config.strict => gbt.vbrequired \subseteq judged.header.version

\* A configuration that passes validate, with a payout script of a standard
\* length, builds a coinbase at every height, and the field that the
\* extranonces overwrite is the placeholder left for them, neither the tag nor
\* the height.
ConfiguredCoinbaseBuilds ==
    stage \in {"issued", "unbuilt"} /\ order.payout <= 34 =>
        LET job == JobOf(order)
            script == encode_bip34_height(gbt.height) \o Tag(config.tag)
        IN  /\ job.ok
            /\ SubSeq(job.coinbase1, 43, job.offset) = script
            /\ job.coinbase1[42] = Len(script) + order.en1 + order.en2
=============================================================================
