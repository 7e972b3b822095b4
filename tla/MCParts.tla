------------------------------ MODULE MCParts ------------------------------
(***************************************************************************)
(* Machines with no variable in common: a session that judges shares, the  *)
(* block that one becomes, the target it is measured against, the meters   *)
(* and the charts that show it, and the credentials of the RPC client.  A  *)
(* behaviour is about one of them and the others rest.                     *)
(***************************************************************************)
EXTENDS MiningSession, BlockBuilding, Targets, RateMeters, WorkHistory, RpcAuth, TLC

VARIABLE topic

MCCanonical == "A" :> "A" @@ "a" :> "A" @@ "B" :> "B"

MCConfigs ==
    {[tag |-> t, en1 |-> a, en2 |-> b, strict |-> TRUE] : t \in {0, 87, 88}, a \in {0, 4}, b \in {0, 4}}
    \cup {[tag |-> 3, en1 |-> 4, en2 |-> 4, strict |-> FALSE]}

Template(n, commitment, height, txWeight, median, asked) ==
    [prev_hash |-> <<"a", "b", "c", "d">>, txids |-> [i \in 1..n |-> <<ToString(i), "tx">>],
     forced |-> {"segwit"}, advisory |-> {"csv"}, vbrequired |-> {1},
     commitment |-> commitment, version |-> {1, 2},
     height |-> height, txWeight |-> txWeight, median_time |-> median, asked |-> asked,
     cur_time |-> IF median < asked THEN asked ELSE median + 1]

\* The heights at which the push of the height changes its form or length.
MCHeights == {1, 16, 17, 127, 128, 255, 256, 32767, 32768, 65535, 65536,
              8388607, 8388608, 2147483647}

Ruled(forced, advisory, vbrequired) ==
    [Template(1, TRUE, 500, 240, 1, 5) EXCEPT
        !.forced = forced, !.advisory = advisory, !.vbrequired = vbrequired]

\* One factor at a time: the node's rules, the height, the shape of the merkle tree, the weight
\* around its limit, and the chain's time ahead of and behind the clock.
MCTemplates ==
    {Ruled(forced, {"csv", "new"}, required) : forced \in {{}, {"segwit"}, {"segwit", "new"}}, required \in {{}, {2}}}
    \cup {Template(1, TRUE, h, 240, 1, 5) : h \in MCHeights}
    \cup {Template(n, TRUE, 500, 240 * n, 1, 5) : n \in 0..8}
    \cup {Template(1, FALSE, 500, 240, 1, 5)}
    \cup {Template(1, TRUE, 500, w, 1, 5) : w \in 3995660..3995676}
    \cup {Template(1, TRUE, 500, 240, m, 5) : m \in 3..9}

\* Standard scripts, and lengths around the largest a coinbase has room for.
MCPayoutLengths == {22, 34, 872, 873}

OneFloor == CHOOSE d \in MinDifficulties : TRUE
OneConfig == CHOOSE c \in Configs : validate(c.tag, c.en1, c.en2)

\* chart_window, an hour having four minutes: minutes and half hours, and
\* buckets of two hours over a part of the history and over all of it.
MCWindows == {[duration |-> 5, bucket |-> 1], [duration |-> 9, bucket |-> 2],
              [duration |-> 12, bucket |-> 8], [duration |-> MaxMinute, bucket |-> 8]}

MCInit ==
    /\ topic \in {"session", "block", "channel", "bits", "rates", "charts", "auth"}
    /\ Init /\ BlockInit /\ TargetInit /\ MetersInit /\ HistoryInit /\ AuthInit
    /\ topic # "session" => proto = "sv1" /\ has_template
    /\ topic # "block" => config = OneConfig
    /\ topic # "channel" => min_difficulty = OneFloor
    /\ topic # "auth" => may_read /\ has_explicit

others == <<ledger_vars, auth_vars>>

MCNext ==
    /\ \/ topic = "session" /\ Next /\ UNCHANGED <<block_vars, target_vars, meter_vars, others>>
       \/ topic = "block" /\ BlockNext /\ UNCHANGED <<vars, target_vars, meter_vars, others>>
       \/ topic = "channel" /\ ChannelNext /\ UNCHANGED <<vars, block_vars, meter_vars, others>>
       \/ topic = "bits" /\ NewBits /\ UNCHANGED <<vars, block_vars, meter_vars, others>>
       \/ topic = "rates" /\ MetersNext /\ UNCHANGED <<vars, block_vars, target_vars, others>>
       \/ /\ topic = "charts" /\ HistoryNext
          /\ UNCHANGED <<vars, block_vars, target_vars, meter_vars, auth_vars>>
       \/ /\ topic = "auth" /\ AuthNext
          /\ UNCHANGED <<vars, block_vars, target_vars, meter_vars, ledger_vars>>
    /\ UNCHANGED topic

MCSpec ==
    MCInit /\ [][MCNext]_<<vars, block_vars, target_vars, meter_vars, others, topic>>
=============================================================================
