---------------------------- MODULE JobBuilding ----------------------------
(***************************************************************************)
(* From a block template to a block: the coinbase and its extranonce       *)
(* field, the merkle branch, the job as SV1 and SV2 put it on the wire,    *)
(* the header the pool rebuilds from a share, and the block it submits.    *)
(* All of it is arithmetic on bytes, checked against what a device hashes  *)
(* and what a node accepts.                                                *)
(*                                                                         *)
(* A hash is a short sequence of symbolic bytes, which are strings:        *)
(* display order reverses it, and the double SHA-256 is free of            *)
(* collisions.                                                             *)
(***************************************************************************)
EXTENDS Integers, Sequences

MAX_BLOCK_WEIGHT == 4000000
COINBASE_WEIGHT_RESERVE == 4000
MAX_NTIME_DRIFT_SECS == 2
VERSION_ROLLING_MASK == {2, 3}
Failed == [ok |-> FALSE]

-----------------------------------------------------------------------------
(* Bytes *)

Repeat(byte, n) == [i \in 1..n |-> byte]

Reverse(bytes) == [i \in 1..Len(bytes) |-> bytes[Len(bytes) + 1 - i]]
Last(bytes) == bytes[Len(bytes)]

LowByte(n) == n % 256
Shift(n) == n \div 256
Join(byte, n) == byte + 256 * n

\* A u64 from its lowest byte, until nothing is left of it.
Shifted(n) ==
    LET rest[k \in 0..8] == IF k = 0 THEN n ELSE Shift(rest[k - 1])
    IN  rest

LowBytes(n, len) ==
    LET rest == Shifted(n)
    IN  [k \in 1..len |-> LowByte(rest[k - 1])]

LittleEndian(n) ==
    LET rest == Shifted(n)
    IN  LowBytes(n, CHOOSE k \in 0..8 : rest[k] = 0 /\ \A j \in 0..(k - 1) : rest[j] # 0)

encode_varint(n) ==
    IF n < 253 THEN <<n>>
    ELSE IF Shifted(n)[2] = 0 THEN <<253>> \o LowBytes(n, 2)
    ELSE IF Shifted(n)[4] = 0 THEN <<254>> \o LowBytes(n, 4)
    ELSE <<255>> \o LowBytes(n, 8)

find_bytes(haystack, needle) ==
    LET at == {p \in 0..(Len(haystack) - Len(needle)) :
                \A k \in DOMAIN needle : haystack[p + k] = needle[k]}
    IN  IF at = {} THEN -1 ELSE CHOOSE p \in at : \A q \in at : p <= q

double_sha256(data) == <<"sha", data>>

\* Hashes travel as words whose bytes are swapped; here a word has two bytes.
SwapWords(hash) == [i \in DOMAIN hash |-> hash[IF i % 2 = 1 THEN i + 1 ELSE i - 1]]

\* Mutant: swap the words of the display form, without the reversal.
MutSwapOnly(display) == SwapWords(display)

stratum_prev_hash(display) == SwapWords(Reverse(display))

stratum_prevhash_to_internal(stratum) == SwapWords(stratum)

-----------------------------------------------------------------------------
(* The coinbase *)

encode_bip34_height(height) ==
    IF height = 0 THEN <<0>>
    ELSE IF height <= 16 THEN <<80 + height>>
    ELSE LET bytes == LittleEndian(height)
             signed == IF Last(bytes) >= 128 THEN Append(bytes, 0) ELSE bytes
         IN  <<Len(signed)>> \o signed

check_coinbase_script_sig_len(len) == len \in 2..100

\* Mutant: the height's push taken for one byte shorter than it gets.
MutNarrowPush(tagLen, en1, en2) ==
    /\ en1 + en2 # 0
    /\ check_coinbase_script_sig_len(4 + tagLen + en1 + en2)

\* Config::validate on what goes into the scriptSig.
validate(tagLen, en1, en2) ==
    /\ en1 + en2 # 0
    /\ check_coinbase_script_sig_len(5 + tagLen + en1 + en2)

\* An output of the coinbase: eight bytes of value, then the script.
TxOut(script) == Repeat(80, 8) \o encode_varint(Len(script)) \o script

\* bitcoin::consensus::serialize of a coinbase without a witness: the outputs
\* are counted, and listed.
serialize(scriptSig, count, outputs) ==
    <<1, 0, 0, 0, 1>> \o Repeat(0, 32) \o Repeat(255, 4)
        \o encode_varint(Len(scriptSig)) \o scriptSig \o Repeat(255, 4)
        \o <<count>> \o outputs \o Repeat(0, 4)

PayoutScript(len) == Repeat(118, len)
CommitmentScript == <<106, 36>> \o Repeat(170, 36)
Tag(len) == Repeat(47, len)

build_coinbase(height, payoutLen, tagLen, en1, en2, commitment) ==
    LET heightScript == encode_bip34_height(height)
        script == heightScript \o Tag(tagLen) \o Repeat(0, en1 + en2)
        payout == TxOut(PayoutScript(payoutLen))
        bytes == IF commitment THEN serialize(script, 2, payout \o TxOut(CommitmentScript))
                 ELSE serialize(script, 1, payout)
    IN  IF \/ en1 + en2 = 0
           \/ ~check_coinbase_script_sig_len(Len(script))
           \/ find_bytes(bytes, script) # 42
           \/ 4 * Len(bytes) + 36 > COINBASE_WEIGHT_RESERVE
        THEN Failed
        ELSE [ok |-> TRUE, bytes |-> bytes, offset |-> 42 + Len(heightScript) + tagLen]

-----------------------------------------------------------------------------
(* The merkle branch.  The coinbase's own place in a level is None. *)

None == <<>>

EvenLevel(level) == IF Len(level) % 2 # 0 THEN Append(level, Last(level)) ELSE level

NextLevel(level) ==
    [i \in 1..(Len(level) \div 2) |->
        IF level[2 * i - 1] = None \/ level[2 * i] = None
        THEN None
        ELSE double_sha256(level[2 * i - 1] \o level[2 * i])]

\* A pass of the loop: what is left of the tree, and the siblings met so far.
\* The path of leaf 0 stays at index 0, so its sibling is always the second.
Pass(last) ==
    LET even == EvenLevel(last.level)
    IN  IF Len(last.level) <= 1 THEN last
        ELSE [level |-> NextLevel(even),
              branch |-> IF even[2] = None THEN last.branch ELSE Append(last.branch, even[2])]

Passes(txids) ==
    LET pass[k \in 0..Len(txids)] ==
            IF k = 0 THEN [level |-> <<None>> \o txids, branch |-> <<>>] ELSE Pass(pass[k - 1])
    IN  pass

\* Each pass leaves fewer, so the loop has ended after as many as there are ids.
compute_merkle_branch_raw(txids) == Passes(txids)[Len(txids)].branch

Climb(branch, coinbase) ==
    LET hash[k \in 0..Len(branch)] ==
            IF k = 0 THEN double_sha256(coinbase) ELSE double_sha256(hash[k - 1] \o branch[k])
    IN  hash

merkle_root(branch, coinbase) == Climb(branch, coinbase)[Len(branch)]

-----------------------------------------------------------------------------
(* Template and job *)

SUPPORTED_GBT_RULES == {"csv", "segwit", "taproot"}

\* The rules marked with ! that the pool does not know, and the required
\* version bits that a device may roll.
unsupported_gbt_rules(gbt) ==
    {<<"rule", r>> : r \in gbt.forced \ SUPPORTED_GBT_RULES}
        \cup {<<"vbrequired", b>> : b \in gbt.vbrequired \cap VERSION_ROLLING_MASK}

announces_segwit(gbt) == "segwit" \in gbt.forced \cup gbt.advisory

check_block_weight(gbt) ==
    4 * (80 + 3) + gbt.txWeight + COINBASE_WEIGHT_RESERVE <= MAX_BLOCK_WEIGHT

\* The node lists ids in display order; leaves are in internal order.
build_job_template(gbt) ==
    LET txids == [i \in DOMAIN gbt.txids |-> Reverse(gbt.txids[i])]
    IN  IF (announces_segwit(gbt) /\ ~gbt.commitment) \/ ~check_block_weight(gbt)
        THEN Failed
        ELSE [ok |-> TRUE,
              prev_hash |-> stratum_prev_hash(gbt.prev_hash),
              merkle_branch |-> compute_merkle_branch_raw(txids),
              version |-> gbt.version, cur_time |-> gbt.cur_time,
              height |-> gbt.height, transactions |-> gbt.txids,
              commitment |-> gbt.commitment]

build_job_for_payout(template, payoutLen, tagLen, en1, en2) ==
    LET coinbase ==
            build_coinbase(template.height, payoutLen, tagLen, en1, en2, template.commitment)
    IN  IF ~coinbase.ok THEN Failed
        ELSE [ok |-> TRUE, template |-> template,
              coinbase1 |-> SubSeq(coinbase.bytes, 1, coinbase.offset),
              coinbase2 |-> SubSeq(coinbase.bytes, coinbase.offset + en1 + en2 + 1,
                                   Len(coinbase.bytes)),
              coinbase_template |-> coinbase.bytes, offset |-> coinbase.offset,
              extranonce1_len |-> en1, extranonce2_len |-> en2]

\* The job on the wire: mining.notify, and NewExtendedMiningJob with
\* SetNewPrevHash.
notify(job) ==
    [prev |-> job.template.prev_hash, prefix |-> job.coinbase1, suffix |-> job.coinbase2,
     path |-> job.template.merkle_branch, version |-> job.template.version]

build_new_extended_job(job) ==
    [prefix |-> job.coinbase1, suffix |-> job.coinbase2,
     path |-> job.template.merkle_branch, version |-> job.template.version]

build_set_new_prev_hash(job) == stratum_prevhash_to_internal(job.template.prev_hash)

-----------------------------------------------------------------------------
(* The share, judged *)

assemble_coinbase_into(job, en1, en2) ==
    LET total == job.extranonce1_len + job.extranonce2_len
        cb == job.coinbase_template
    IN  IF Len(en1) + Len(en2) # total
        THEN cb
        ELSE SubSeq(cb, 1, job.offset) \o en1 \o en2
                \o SubSeq(cb, job.offset + total + 1, Len(cb))

ntime_ceiling(cur_time, now) ==
    (IF cur_time < now THEN cur_time ELSE now) + MAX_NTIME_DRIFT_SECS

\* A version is the set of its bits.
resolve_version(base, bits, mask) ==
    IF bits \subseteq mask THEN [ok |-> TRUE, version |-> (base \ mask) \cup bits] ELSE Failed

\* Mutant: the words are not swapped back.
MutNotSwappedBack(version, prev, root, ntime) ==
    [version |-> version, prev |-> prev, root |-> root, time |-> ntime]

build_header(version, prev, root, ntime) ==
    [version |-> version, prev |-> SwapWords(prev), root |-> root, time |-> ntime]

\* What validate_share_no_dedup rebuilds; whether its hash meets a target is
\* the device's luck.
validate_share(job, en1, share, now) ==
    LET coinbase == assemble_coinbase_into(job, en1, share.extranonce2)
        resolved == resolve_version(job.template.version, share.bits, share.mask)
    IN  IF \/ share.ntime < job.template.cur_time
           \/ share.ntime > ntime_ceiling(job.template.cur_time, now)
           \/ ~resolved.ok
        THEN Failed
        ELSE [ok |-> TRUE, coinbase |-> coinbase,
              header |-> build_header(resolved.version, job.template.prev_hash,
                            merkle_root(job.template.merkle_branch, coinbase), share.ntime)]

assemble_block_hex(job, share) ==
    [header |-> share.header, count |-> encode_varint(1 + Len(job.template.transactions)),
     coinbase |-> share.coinbase, witness |-> job.template.commitment,
     transactions |-> job.template.transactions]

-----------------------------------------------------------------------------
(* The other side of each: a device, and a node *)

DeviceHeader(wire, internalPrev, en1, en2, bits, mask, ntime) ==
    [version |-> (wire.version \ mask) \cup bits, prev |-> internalPrev,
     root |-> merkle_root(wire.path, wire.prefix \o en1 \o en2 \o wire.suffix),
     time |-> ntime]

\* The row above a row of the tree; the last of an odd number is paired with
\* itself.
RowAbove(row) ==
    IF Len(row) = 1 THEN row
    ELSE [i \in 1..((Len(row) + 1) \div 2) |->
            double_sha256(row[2 * i - 1] \o row[IF 2 * i <= Len(row) THEN 2 * i ELSE Len(row)])]

Rows(leaves) ==
    LET row[k \in 0..Len(leaves)] == IF k = 0 THEN leaves ELSE RowAbove(row[k - 1])
    IN  row

TreeRoot(leaves) == Rows(leaves)[Len(leaves)][1]

\* The value of a script number: little-endian, the top bit its sign.
HighBytes(bytes) ==
    LET value[k \in 0..Len(bytes)] ==
            IF k = 0 THEN 0 ELSE Join(bytes[Len(bytes) + 1 - k], value[k - 1])
    IN  value

Magnitude(bytes) == HighBytes(bytes)[Len(bytes)]

\* A script begins with the one minimal push of a number: it reads back as the
\* number, is not negative, and no byte of it can be spared.
BeginsWith(script, number) ==
    \/ number \in 1..16 /\ Head(script) = 80 + number
    \/ /\ number > 16 /\ Head(script) \in 1..(Len(script) - 1)
       /\ LET bytes == SubSeq(script, 2, 1 + Head(script))
          IN  /\ Magnitude(bytes) = number /\ Last(bytes) < 128
              /\ Last(bytes) = 0 => bytes[Len(bytes) - 1] >= 128

\* Its header, the number of its transactions and the coinbase's witness count.
BlockWeight(block, txWeight) ==
    4 * (80 + Len(block.count)) + txWeight
        + 4 * Len(block.coinbase) + (IF block.witness THEN 36 ELSE 0)

NodeAccepts(block, gbt, medianTime, now) ==
    /\ block.header.prev = Reverse(gbt.prev_hash)
    /\ block.header.root = TreeRoot(<<double_sha256(block.coinbase)>>
            \o [i \in DOMAIN block.transactions |-> Reverse(block.transactions[i])])
    /\ block.coinbase[42] \in 2..100
    /\ BeginsWith(SubSeq(block.coinbase, 43, 42 + block.coinbase[42]), gbt.height)
    /\ block.witness = gbt.commitment
    /\ BlockWeight(block, gbt.txWeight) <= MAX_BLOCK_WEIGHT
    /\ medianTime < block.header.time /\ block.header.time <= now + MAX_NTIME_DRIFT_SECS

=============================================================================
