------------------------------ MODULE NodeProofs ------------------------------
(***************************************************************************)
(* What the pool has from its node.                                        *)
(*                                                                         *)
(* RpcAuth: for any number of callers and of restarts of the node, a call  *)
(* that nothing disturbs succeeds, because no cookie is newer than the     *)
(* node and a running node has its cookie in the file.                     *)
(*                                                                         *)
(* TemplateFlow: for any number of sessions, any ring and any job table, a *)
(* session that has read its broadcasts works on the engine's template,    *)
(* and nothing it would still credit is on another tip.                    *)
(*                                                                         *)
(* BlockFate: verdicts on found blocks outlive every reorg shallower than  *)
(* Depth, and the count of wins is what the chain saw.                     *)
(***************************************************************************)
EXTENDS RpcAuth, TemplateFlow, BlockFate, TLAPS

-----------------------------------------------------------------------------
(* The RPC client *)

Cookies == Nat \cup {Unreadable}
Credentials == Nat \cup {Unreadable, Explicit}

Types ==
    /\ node \in [up : BOOLEAN, starts : Nat]
    /\ cookie_file \in Cookies /\ cookie \in Cookies /\ client \in Credentials
    /\ may_read \in BOOLEAN /\ has_explicit \in BOOLEAN
    /\ opened \in {"new", "build", "open"}
    /\ call \in [Callers -> [pc : {"idle", "ok", "failed", "read", "compare", "swap", "again"},
                             fresh : Cookies]]
    /\ settled \in [Callers -> BOOLEAN] /\ outpaced \in [Callers -> BOOLEAN]

\* No cookie is newer than the node, none that was read is newer than the
\* file's, and a running node has its cookie in the file.
NotNewer(k) ==
    k \in Nat => k <= node.starts /\ (cookie_file \in Nat => k <= cookie_file)

CookiesAreOld ==
    /\ node.up => cookie_file = node.starts
    /\ cookie_file \in Nat => cookie_file <= node.starts
    /\ client \in Nat => client <= node.starts
    /\ NotNewer(cookie) /\ \A c \in Callers : NotNewer(call[c].fresh)

\* The client is never behind the cookie remembered for it.
ClientIsAhead ==
    opened = "open" /\ cookie \in Nat => client = Explicit \/ (client \in Nat /\ client >= cookie)

\* What a call without interference knows at each of its steps.
Undisturbed(c) == settled[c] /\ ~outpaced[c] /\ may_read

CallKnows(c) ==
    Undisturbed(c) =>
        /\ node.up
        /\ call[c].pc \in {"read", "compare", "swap", "again"} => opened = "open"
        /\ call[c].pc \in {"read", "compare", "swap"} => client \notin {node.starts, Explicit}
        /\ call[c].pc \in {"compare", "swap"} => call[c].fresh = node.starts
        /\ call[c].pc = "again" => client = node.starts
        /\ call[c].pc # "failed"

AuthInv ==
    /\ Types /\ CookiesAreOld /\ ClientIsAhead
    /\ \A c \in Callers : CallKnows(c)

-----------------------------------------------------------------------------
(* Nothing has been read yet but the configuration: every caller is idle. *)
LEMMA AuthInitInv == AuthInit => AuthInv
BY AuthAssumption
   DEF AuthInit, NoCall, AuthInv, Types, Cookies, Credentials, CookiesAreOld, NotNewer, ClientIsAhead,
       CallKnows, Undisturbed

(* What a caller reads is a cookie no newer than the node, and the node's own *)
(* while it runs and the file may be read.                                    *)
LEMMA ReadCookie ==
    ASSUME AuthInv
    PROVE  /\ read_cookie \in Cookies
           /\ read_cookie \in Nat => read_cookie = cookie_file /\ read_cookie <= node.starts
           /\ may_read /\ node.up => read_cookie = node.starts
BY AuthAssumption, Zenon DEF AuthInv, Types, CookiesAreOld, NotNewer, Cookies, read_cookie

(* A stop of the node leaves no call undisturbed. *)
LEMMA NodeStopsInv == AuthInv /\ NodeStops => AuthInv'
<1> SUFFICES ASSUME AuthInv, NodeStops PROVE AuthInv'
  BY Zenon
<1> USE AuthAssumption DEF AuthInv, NodeStops, rpc_config
<1>1. Types'
  BY Zenon DEF Types, Cookies
<1>2. CookiesAreOld' /\ ClientIsAhead'
  BY DEF Types, Cookies, CookiesAreOld, NotNewer, ClientIsAhead
<1>3. \A c \in Callers : CallKnows(c)'
  BY Zenon DEF CallKnows, Undisturbed
<1> QED
  BY <1>1, <1>2, <1>3, Zenon

(* A start finds no call undisturbed, for the node was down. *)
LEMMA NodeStartsInv == AuthInv /\ NodeStarts => AuthInv'
<1> SUFFICES ASSUME AuthInv, NodeStarts PROVE AuthInv'
  BY Zenon
<1> USE AuthAssumption DEF AuthInv, NodeStarts, rpc_config, calls
<1>0. node.starts \in Nat /\ ~node.up
  BY Zenon DEF Types
<1>1. Types'
  BY <1>0 DEF Types, Cookies
<1>2. CookiesAreOld' /\ ClientIsAhead'
  BY <1>0 DEF Types, Cookies, Credentials, CookiesAreOld, NotNewer, ClientIsAhead
<1>3. \A c \in Callers : CallKnows(c)'
  BY <1>0, Zenon DEF CallKnows, Undisturbed
<1> QED
  BY <1>1, <1>2, <1>3, Zenon

(* RpcClient::new: no caller is under way before it is done, and the second   *)
(* of its two reads is the one the client is built from.                      *)
LEMMA NewInv == AuthInv /\ (NewReads \/ NewBuilds) => AuthInv'
<1>1. ASSUME AuthInv, NewReads PROVE AuthInv'
  <2> USE AuthAssumption, ReadCookie, <1>1 DEF AuthInv, NewReads, rpc_config, calls
  <2>1. Types'
    BY Zenon DEF Types
  <2>2. CookiesAreOld' /\ ClientIsAhead'
    BY DEF Types, Cookies, CookiesAreOld, NotNewer, ClientIsAhead
  <2>3. \A c \in Callers : CallKnows(c)'
    BY Zenon DEF CallKnows, Undisturbed
  <2> QED
    BY <2>1, <2>2, <2>3, Zenon
<1>2. ASSUME AuthInv, NewBuilds PROVE AuthInv'
  <2> USE AuthAssumption, ReadCookie, <1>2 DEF AuthInv, NewBuilds, rpc_config, calls
  <2>0. rpc_auth \in Nat \cup {Explicit} /\ (rpc_auth \in Nat => rpc_auth = read_cookie)
    BY Zenon DEF rpc_auth, Cookies
  <2>1. Types'
    BY <2>0, Zenon DEF Types, Credentials
  <2>2. rpc_auth \in Nat => rpc_auth = cookie_file /\ rpc_auth <= node.starts
    BY <2>0, Zenon
  <2>3. CookiesAreOld'
    BY <2>2, Zenon DEF CookiesAreOld, NotNewer
  <2>4. ClientIsAhead'
    BY <2>0, <2>2, Zenon DEF CookiesAreOld, NotNewer, ClientIsAhead
  <2>5. \A c \in Callers : CallKnows(c)'
    BY Zenon DEF CallKnows, Undisturbed
  <2> QED
    BY <2>1, <2>3, <2>4, <2>5, Zenon
<1> QED
  BY <1>1, <1>2, Zenon
-----------------------------------------------------------------------------
(* Where a call's step leaves the calls: its own record is replaced, every    *)
(* other caller's is as it was.                                               *)
LEMMA MovesOnly ==
    ASSUME Types, NEW c \in Callers, NEW pc, NEW fresh, Moves(c, pc, fresh)
    PROVE  /\ call'[c] = [pc |-> pc, fresh |-> fresh]
           /\ \A d \in Callers : d # c => call'[d] = call[d]
           /\ UNCHANGED <<node, cookie_file, may_read, has_explicit, opened>>
BY Zenon DEF Types, Moves, rpc_config

(* A call begins: it is undisturbed if the node is up, and goes on to read    *)
(* the cookie only if the node has refused the client.                        *)
LEMMA FirstTryInv ==
    ASSUME AuthInv, NEW c \in Callers, FirstTry(c)
    PROVE  AuthInv'
<1> DEFINE pc == IF Accepts(client) THEN "ok" ELSE "read"
<1>0. Types /\ Moves(c, pc, Unreadable)
  BY Zenon DEF AuthInv, FirstTry
<1>1. /\ call'[c] = [pc |-> pc, fresh |-> Unreadable]
      /\ \A d \in Callers : d # c => call'[d] = call[d]
      /\ UNCHANGED <<node, cookie_file, may_read, has_explicit, opened, client, cookie>>
  BY <1>0, MovesOnly DEF FirstTry
<1>2. Types'
  BY <1>0, <1>1 DEF Types, FirstTry, Moves, Cookies
<1>3. CookiesAreOld' /\ ClientIsAhead'
  BY <1>1, AuthAssumption DEF AuthInv, CookiesAreOld, NotNewer, ClientIsAhead
<1>4. CallKnows(c)'
  BY <1>0, <1>1 DEF AuthInv, Types, FirstTry, CallKnows, Undisturbed, Accepts
<1>5. ASSUME NEW d \in Callers, d # c PROVE CallKnows(d)'
  BY <1>0, <1>1, <1>5, Zenon DEF AuthInv, Types, FirstTry, CallKnows, Undisturbed
<1> QED
  BY <1>2, <1>3, <1>4, <1>5, Zenon DEF AuthInv

(* A step of call_with_refresh that keeps the client: only c's record moves.  *)
LEMMA KeepsClient ==
    ASSUME AuthInv, NEW c \in Callers,
           NEW pc \in {"ok", "failed", "compare", "swap"}, NEW fresh \in Cookies,
           Moves(c, pc, fresh), UNCHANGED <<client, cookie, settled, outpaced>>,
           NotNewer(fresh),
           CallKnows(c)'
    PROVE  AuthInv'
<1>0. Types
  BY Zenon DEF AuthInv
<1>1. /\ call'[c] = [pc |-> pc, fresh |-> fresh]
      /\ \A d \in Callers : d # c => call'[d] = call[d]
      /\ UNCHANGED <<node, cookie_file, may_read, has_explicit, opened>>
  BY <1>0, MovesOnly, Zenon
<1>2. Types'
  BY <1>0, <1>1, Zenon DEF Types, Moves
<1>3. CookiesAreOld' /\ ClientIsAhead'
  BY <1>1 DEF AuthInv, CookiesAreOld, NotNewer, ClientIsAhead
<1>4. ASSUME NEW d \in Callers, d # c PROVE CallKnows(d)'
  BY <1>1, <1>4, Zenon DEF AuthInv, CallKnows, Undisturbed
<1> QED
  BY <1>2, <1>3, <1>4, Zenon DEF AuthInv

(* The cookie of a running node can be read, and is the node's. *)
LEMMA ReadFreshInv ==
    ASSUME AuthInv, NEW c \in Callers, ReadFresh(c)
    PROVE  AuthInv'
<1> DEFINE pc == IF read_cookie = Unreadable THEN "failed" ELSE "compare"
<1>0. /\ Types /\ Moves(c, pc, read_cookie) /\ call[c].pc = "read"
      /\ UNCHANGED <<client, cookie, settled, outpaced>>
  BY Zenon DEF AuthInv, ReadFresh
<1>1. /\ call'[c] = [pc |-> pc, fresh |-> read_cookie]
      /\ UNCHANGED <<node, cookie_file, may_read, opened>>
  BY <1>0, MovesOnly
<1>2. Undisturbed(c)' => Undisturbed(c) /\ may_read /\ node.up /\ node.starts \in Nat
  BY <1>0, <1>1, Zenon DEF AuthInv, Types, CallKnows, Undisturbed
<1>3. Undisturbed(c)' => read_cookie = node.starts /\ pc = "compare"
  BY <1>2, ReadCookie, AuthAssumption, Zenon
<1>4. CallKnows(c)'
  BY <1>0, <1>1, <1>2, <1>3 DEF AuthInv, CallKnows
<1>5. read_cookie \in Cookies /\ NotNewer(read_cookie)
  BY ReadCookie DEF NotNewer
<1> QED
  BY <1>0, <1>4, <1>5, KeepsClient, Zenon

(* The node's cookie is not the remembered one: the client would be no older  *)
(* and the node would have taken it.                                          *)
LEMMA CompareInv ==
    ASSUME AuthInv, NEW c \in Callers, Compare(c)
    PROVE  AuthInv'
<1> DEFINE fresh == call[c].fresh
<1> DEFINE pc == IF cookie = fresh THEN "failed" ELSE "swap"
<1>0. /\ Types /\ Moves(c, pc, fresh) /\ call[c].pc = "compare"
      /\ UNCHANGED <<client, cookie, settled, outpaced>>
  BY Zenon DEF AuthInv, Compare
<1>1. /\ call'[c] = [pc |-> pc, fresh |-> fresh]
      /\ UNCHANGED <<node, cookie_file, may_read, opened>>
  BY <1>0, MovesOnly
<1>2. Undisturbed(c)' => /\ Undisturbed(c) /\ node.up /\ opened = "open"
                        /\ fresh = node.starts /\ node.starts \in Nat
                        /\ client \notin {node.starts, Explicit}
  BY <1>0, <1>1, Zenon DEF AuthInv, Types, CallKnows, Undisturbed
<1>3. Undisturbed(c)' => cookie # fresh
  <2> SUFFICES ASSUME Undisturbed(c)', cookie = fresh PROVE FALSE
    BY Zenon
  <2>1. client = Explicit \/ (client \in Nat /\ client >= node.starts)
    BY <1>2, Zenon DEF AuthInv, ClientIsAhead
  <2>2. client \in Nat => client <= node.starts
    BY Zenon DEF AuthInv, CookiesAreOld
  <2>3. client \in Nat /\ client = node.starts
    BY <1>2, <2>1, <2>2
  <2> QED
    BY <1>2, <2>3, Zenon
<1>4. CallKnows(c)'
  BY <1>0, <1>1, <1>2, <1>3 DEF CallKnows
<1>5. fresh \in Cookies /\ NotNewer(fresh)
  BY Zenon DEF AuthInv, Types, CookiesAreOld
<1> QED
  BY <1>0, <1>4, <1>5, KeepsClient, Zenon
(* The new credentials are put in: every other call is outpaced, and this one *)
(* has the client the node takes.                                             *)
LEMMA SwapInv ==
    ASSUME AuthInv, NEW c \in Callers, Swap(c)
    PROVE  AuthInv'
<1> DEFINE fresh == call[c].fresh
<1>0. /\ Types /\ Moves(c, "again", fresh) /\ call[c].pc = "swap"
      /\ client' = fresh /\ cookie' = fresh /\ UNCHANGED settled
      /\ outpaced' = [d \in Callers |-> outpaced[d] \/ d # c]
  BY Zenon DEF AuthInv, Swap
<1>1. /\ call'[c] = [pc |-> "again", fresh |-> fresh]
      /\ \A d \in Callers : d # c => call'[d] = call[d]
      /\ UNCHANGED <<node, cookie_file, may_read, has_explicit, opened>>
  BY <1>0, MovesOnly, Zenon
<1>2. fresh \in Cookies /\ NotNewer(fresh)
  BY Zenon DEF AuthInv, Types, CookiesAreOld
<1>3. Types'
  BY <1>0, <1>1, <1>2, Zenon DEF Types, Moves, Cookies, Credentials
<1>4. CookiesAreOld' /\ ClientIsAhead'
  BY <1>0, <1>1, <1>2 DEF AuthInv, CookiesAreOld, NotNewer, ClientIsAhead
<1>5. CallKnows(c)'
  BY <1>0, <1>1 DEF AuthInv, Types, CallKnows, Undisturbed
<1>6. ASSUME NEW d \in Callers, d # c PROVE CallKnows(d)'
  BY <1>0, <1>6, Zenon DEF CallKnows, Undisturbed
<1> QED
  BY <1>3, <1>4, <1>5, <1>6, Zenon DEF AuthInv

(* The second try of an undisturbed call is accepted. *)
LEMMA SecondTryInv ==
    ASSUME AuthInv, NEW c \in Callers, SecondTry(c)
    PROVE  AuthInv'
<1> DEFINE pc == IF Accepts(client) THEN "ok" ELSE "failed"
<1>0. /\ Types /\ Moves(c, pc, Unreadable) /\ call[c].pc = "again"
      /\ UNCHANGED <<client, cookie, settled, outpaced>>
  BY Zenon DEF AuthInv, SecondTry
<1>1. /\ call'[c] = [pc |-> pc, fresh |-> Unreadable]
      /\ UNCHANGED <<node, may_read, opened>>
  BY <1>0, MovesOnly
<1>2. Undisturbed(c)' => pc = "ok"
  BY <1>0, <1>1, Zenon DEF AuthInv, CallKnows, Undisturbed, Accepts
<1>3. CallKnows(c)'
  BY <1>0, <1>1, <1>2 DEF AuthInv, CallKnows, Undisturbed
<1>4. Unreadable \in Cookies /\ NotNewer(Unreadable)
  BY AuthAssumption, Zenon DEF Cookies, NotNewer
<1> QED
  BY <1>0, <1>3, <1>4, KeepsClient, Zenon

-----------------------------------------------------------------------------
(* The inductive invariant. *)
LEMMA AuthNextInv == AuthInv /\ [AuthNext]_auth_vars => AuthInv'
<1> SUFFICES ASSUME AuthInv, [AuthNext]_auth_vars PROVE AuthInv'
  BY Zenon
<1>1. CASE NodeStops
  BY <1>1, NodeStopsInv, Zenon
<1>2. CASE NodeStarts
  BY <1>2, NodeStartsInv, Zenon
<1>3. CASE NewReads \/ NewBuilds
  BY <1>3, NewInv, Zenon
<1>4. ASSUME NEW c \in Callers,
             FirstTry(c) \/ ReadFresh(c) \/ Compare(c) \/ Swap(c) \/ SecondTry(c)
      PROVE  AuthInv'
  BY <1>4, FirstTryInv, ReadFreshInv, CompareInv, SwapInv, SecondTryInv, Zenon
<1>5. CASE UNCHANGED auth_vars
  BY <1>5 DEF auth_vars, rpc_config, calls, AuthInv, Types, CookiesAreOld, NotNewer,
              ClientIsAhead, CallKnows, Undisturbed
<1> QED
  BY <1>1, <1>2, <1>3, <1>4, <1>5, Zenon DEF AuthNext

(* RestartIsRecovered (call_with_refresh, rpc.rs:204-241): with any number of *)
(* callers sharing the client and any number of restarts, a call fails only   *)
(* if the node went down during it or another call outpaced it.               *)
THEOREM AuthRestartIsRecovered == AuthSpec => []RestartIsRecovered
<1>1. AuthInv => RestartIsRecovered
  BY Zenon DEF AuthInv, Types, CallKnows, Undisturbed, RestartIsRecovered
<1> QED
  BY <1>1, AuthInitInv, AuthNextInv, PTL DEF AuthSpec

-----------------------------------------------------------------------------
(* Templates and jobs *)

\* Every subscriber has been sent the engine's template, or is about to be
\* sent it as one more job on the tip it has.
Settled == current_template # NoTemplate /\ ~(refresh.pc = "send" /\ refresh.flag)

Clean(q) == {i \in 1 .. Len(q) : q[i].clean}

\* From its last clean broadcast on, a queue is on one template.
EndsOn(q, current) ==
    \A i \in 1 .. Len(q) :
        (\A j \in Clean(q) : j <= i) => q[i].template = current

LiveOn(table, current) ==
    \A i \in 1 .. Len(table) : ~table[i].superseded_by_clean => table[i].job = current

\* One session, by the values of its variables.
Steady(ph, q, c, r, table, dev) ==
    /\ ph = "gone" => q = <<>>
    /\ ph # "running" => ~r
    /\ ~r => table = <<>> /\ dev = NoTemplate
    /\ r => IF c = NoTemplate THEN table = <<>>
            ELSE table # <<>> /\ Newest(table).job = c

UpToDate(current, ph, q, c, r, table, dev, missed) ==
    /\ EndsOn(q, current)
    /\ ph = "running" /\ q = <<>> => c = current
    /\ ph = "running" /\ ~missed /\ Clean(q) = {} =>
           /\ c = current
           /\ r => dev = current /\ LiveOn(table, current)

SessionInv(s) ==
    /\ Steady(phase[s], queue[s], cached[s], ready[s], issued[s], device[s])
    /\ Settled => UpToDate(current_template, phase[s], queue[s], cached[s], ready[s],
                           issued[s], device[s], missedClean[s])

EngineInv ==
    /\ refresh.pc \in {"rules", "withdraw", "build", "send"} => refresh.template \in Tips
    /\ refresh.pc = "send" => refresh.template = current_template

\* What every reachable state satisfies, and enough to prove that.
FlowInv == TypeOK /\ EngineInv /\ \A s \in Sessions : SessionInv(s)

Broadcasts == [template : Tips, clean : BOOLEAN]
Entries == [job : Tips, superseded_by_clean : BOOLEAN, difficulty : {0}]

-----------------------------------------------------------------------------
(* Tables and queues *)

(* push_back, and a send into a receiver's ring. *)
LEMMA AppendSeq ==
    ASSUME NEW S, NEW s \in Seq(S), NEW x \in S
    PROVE  /\ Append(s, x) \in Seq(S) /\ Len(Append(s, x)) = Len(s) + 1
           /\ Append(s, x)[Len(s) + 1] = x
           /\ \A i \in 1 .. Len(s) : Append(s, x)[i] = s[i]
OBVIOUS

(* pop_front, and the oldest broadcast leaving the ring. *)
LEMMA TailSeq ==
    ASSUME NEW S, NEW s \in Seq(S), s # <<>>
    PROVE  /\ Tail(s) \in Seq(S) /\ Len(s) \in Nat \ {0} /\ Len(Tail(s)) = Len(s) - 1
           /\ Head(s) \in S /\ Head(s) = s[1]
           /\ \A i \in 1 .. Len(s) - 1 : Tail(s)[i] = s[i + 1]
OBVIOUS

(* IssuedJobs::issue: the new job is the newest, and after a clean one, or one *)
(* on the tip of all the others, every job still credited is on its tip.      *)
LEMMA Issue ==
    ASSUME NEW s \in Seq(Entries), Len(s) <= JOB_HISTORY_DEPTH,
           NEW job \in Tips, NEW clean \in BOOLEAN, NEW r, r = issue(s, job, clean, 0)
    PROVE  /\ r \in Seq(Entries) /\ Len(r) <= JOB_HISTORY_DEPTH
           /\ r # <<>> /\ Newest(r).job = job
           /\ clean \/ LiveOn(s, job) => LiveOn(r, job)
<1> DEFINE base == IF clean THEN Superseded(s) ELSE s
           room == MakeRoom(base)
           new == JobEntry(job, FALSE, 0)
<1>1. Len(s) \in Nat /\ \A i \in 1 .. Len(s) : s[i] \in Entries
  OBVIOUS
<1>2. /\ Superseded(s) \in Seq(Entries) /\ Len(Superseded(s)) = Len(s)
      /\ \A i \in 1 .. Len(s) : Superseded(s)[i].superseded_by_clean
  <2>1. \A i \in 1 .. Len(s) :
           /\ JobEntry(s[i].job, TRUE, s[i].difficulty) \in Entries
           /\ JobEntry(s[i].job, TRUE, s[i].difficulty).superseded_by_clean
    BY <1>1, Zenon DEF JobEntry, Entries
  <2>2. Superseded(s) = [i \in 1 .. Len(s) |-> JobEntry(s[i].job, TRUE, s[i].difficulty)]
    BY Zenon DEF Superseded
  <2>3. Superseded(s) \in [1 .. Len(s) -> Entries]
    BY <2>1, <2>2, Zenon
  <2>4. Superseded(s) \in Seq(Entries) /\ Len(Superseded(s)) = Len(s)
    BY <1>1, <2>3
  <2> QED
    BY <2>1, <2>2, <2>4, Zenon
<1>3. /\ base \in Seq(Entries) /\ Len(base) = Len(s)
      /\ clean \/ LiveOn(s, job) => LiveOn(base, job)
  <2>1. CASE clean
    BY <2>1, <1>2, Zenon DEF LiveOn
  <2>2. CASE ~clean
    BY <2>2, <1>1, Zenon
  <2> QED
    BY <2>1, <2>2, Zenon
<1>4. /\ room \in Seq(Entries) /\ Len(room) \in Nat /\ Len(room) < JOB_HISTORY_DEPTH
      /\ LiveOn(base, job) => LiveOn(room, job)
  <2> HIDE DEF base
  <2>1. CASE Len(base) >= JOB_HISTORY_DEPTH
    <3>1. base # <<>> /\ room = Tail(base)
      BY <2>1, <1>3, DepthAssumption DEF MakeRoom
    <3>2. /\ room \in Seq(Entries) /\ Len(base) \in Nat \ {0} /\ Len(room) = Len(base) - 1
          /\ \A i \in 1 .. Len(base) - 1 : room[i] = base[i + 1]
      BY <3>1, <1>3, TailSeq
    <3>3. \A i \in 1 .. Len(room) : room[i] = base[i + 1] /\ i + 1 \in 1 .. Len(base)
      BY <3>2
    <3>4. Len(room) \in Nat /\ Len(room) < JOB_HISTORY_DEPTH
      BY <3>2, <1>3, DepthAssumption
    <3> QED
      BY <3>2, <3>3, <3>4, Zenon DEF LiveOn
  <2>2. CASE ~(Len(base) >= JOB_HISTORY_DEPTH)
    BY <2>2, <1>1, <1>3, DepthAssumption DEF MakeRoom
  <2> QED
    BY <2>1, <2>2, Zenon
<1>5. new \in Entries /\ new.job = job
  BY Zenon DEF JobEntry, Entries
<1> HIDE DEF base, room, new
<1>6. r = Append(room, new)
  BY Zenon DEF issue, base, room, new
<1>7. /\ r \in Seq(Entries) /\ Len(r) = Len(room) + 1 /\ r[Len(r)] = new
      /\ \A i \in 1 .. Len(room) : r[i] = room[i]
  <2>1. /\ Append(room, new) \in Seq(Entries) /\ Len(Append(room, new)) = Len(room) + 1
        /\ Append(room, new)[Len(room) + 1] = new
        /\ \A i \in 1 .. Len(room) : Append(room, new)[i] = room[i]
    BY <1>4, <1>5, AppendSeq
  <2> QED
    BY <1>6, <2>1, Zenon
<1>8. Len(r) <= JOB_HISTORY_DEPTH /\ r # <<>>
  BY <1>4, <1>7, DepthAssumption
<1>9. Newest(r).job = job
  BY <1>5, <1>7, Zenon DEF Newest
<1>10. LiveOn(room, job) => LiveOn(r, job)
  <2>1. \A i \in 1 .. Len(r) : i \in 1 .. Len(room) \/ i = Len(r)
    BY <1>4, <1>7
  <2> QED
    BY <1>5, <1>7, <2>1, Zenon DEF LiveOn
<1> QED
  BY <1>3, <1>4, <1>7, <1>8, <1>9, <1>10, Zenon

(* A broadcast leaves a ring, read or overrun. *)
LEMMA Leaves ==
    ASSUME NEW q \in Seq(Broadcasts), q # <<>>, NEW current
    PROVE  /\ Tail(q) \in Seq(Broadcasts) /\ Len(Tail(q)) = Len(q) - 1
           /\ Head(q).template \in Tips /\ Head(q).clean \in BOOLEAN
           /\ EndsOn(q, current) =>
                  /\ EndsOn(Tail(q), current)
                  /\ Clean(Tail(q)) = {} => Head(q).template = current
           /\ Clean(Tail(q)) = {} /\ ~Head(q).clean => Clean(q) = {}
<1> DEFINE n == Len(q)
           t == Tail(q)
<1>1. /\ t \in Seq(Broadcasts) /\ n \in Nat \ {0} /\ Len(t) = n - 1
      /\ Head(q) \in Broadcasts /\ Head(q) = q[1]
      /\ \A i \in 1 .. n - 1 : t[i] = q[i + 1]
  BY TailSeq, Zenon
<1>2. Head(q).template \in Tips /\ Head(q).clean \in BOOLEAN
  BY <1>1, Zenon DEF Broadcasts
<1> HIDE DEF n, t
<1>3. \A j \in Clean(q) : j = 1 \/ j - 1 \in Clean(t)
  BY <1>1 DEF Clean, n
<1>4. \A j \in Clean(q) : j \in 1 .. n
  BY Zenon DEF Clean, n
<1>5. ASSUME EndsOn(q, current)
      PROVE  EndsOn(t, current) /\ (Clean(t) = {} => q[1].template = current)
  <2>1. ASSUME NEW i \in 1 .. Len(t), \A j \in Clean(t) : j <= i
        PROVE  t[i].template = current
    <3>1. i + 1 \in 1 .. Len(q) /\ t[i] = q[i + 1]
      BY <1>1 DEF n
    <3>2. ASSUME NEW j \in Clean(q) PROVE j <= i + 1
      <4>1. j \in Int /\ i \in Nat /\ (j = 1 \/ j - 1 <= i)
        BY <1>1, <1>3, <1>4, <2>1
      <4> QED
        BY <4>1
    <3> QED
      BY <3>1, <3>2, <1>5, Zenon DEF EndsOn
  <2>2. Clean(t) = {} => \A j \in Clean(q) : j <= 1
    BY <1>3, <1>4, <1>1
  <2>3. 1 \in 1 .. Len(q)
    BY <1>1 DEF n
  <2> QED
    BY <2>1, <2>2, <2>3, <1>5, Zenon DEF EndsOn
<1>6. Clean(t) = {} /\ ~q[1].clean => Clean(q) = {}
  <2>1. 1 \in Clean(q) => q[1].clean
    BY Zenon DEF Clean
  <2> QED
    BY <1>3, <2>1, Zenon
<1> QED
  BY <1>1, <1>2, <1>5, <1>6, Zenon DEF n, t

(* A broadcast enters a ring. *)
LEMMA Enters ==
    ASSUME NEW q \in Seq(Broadcasts), NEW b \in Broadcasts, NEW r, r = Append(q, b)
    PROVE  /\ r \in Seq(Broadcasts) /\ Len(r) = Len(q) + 1 /\ r # <<>>
           /\ b.clean \/ EndsOn(q, b.template) => EndsOn(r, b.template)
           /\ Clean(r) = {} => Clean(q) = {} /\ ~b.clean
<1>1. /\ r \in Seq(Broadcasts) /\ Len(q) \in Nat /\ Len(r) = Len(q) + 1
      /\ r[Len(q) + 1] = b
      /\ \A i \in 1 .. Len(q) : r[i] = q[i]
  BY AppendSeq
<1>2. r # <<>>
  BY <1>1
<1>3. /\ \A j \in Clean(q) : j \in Clean(r)
      /\ b.clean => Len(r) \in Clean(r)
  BY <1>1 DEF Clean
<1>4. ASSUME b.clean \/ EndsOn(q, b.template), NEW i \in 1 .. Len(r),
             \A j \in Clean(r) : j <= i
      PROVE  r[i].template = b.template
  <2>1. CASE i = Len(r)
    BY <2>1, <1>1, Zenon
  <2>2. CASE i # Len(r)
    <3>1. i \in 1 .. Len(q) /\ r[i] = q[i]
      BY <2>2, <1>1
    <3>2. ~b.clean
      BY <1>3, <1>4, <2>2, <1>1
    <3>3. \A j \in Clean(q) : j <= i
      BY <1>3, <1>4, Zenon
    <3> QED
      BY <3>1, <3>2, <3>3, <1>4, Zenon DEF EndsOn
  <2> QED
    BY <2>1, <2>2, Zenon
<1> QED
  BY <1>1, <1>2, <1>3, <1>4, Zenon DEF EndsOn

-----------------------------------------------------------------------------
(* The session *)

\* Nothing of session t changes.
Same(t) ==
    /\ phase'[t] = phase[t] /\ proto'[t] = proto[t] /\ queue'[t] = queue[t]
    /\ lagged'[t] = lagged[t] /\ cached'[t] = cached[t] /\ ready'[t] = ready[t]
    /\ issued'[t] = issued[t] /\ device'[t] = device[t] /\ missedClean'[t] = missedClean[t]

(* What TypeOK says of one session. *)
LEMMA Typed ==
    ASSUME TypeOK, NEW s \in Sessions
    PROVE  /\ queue[s] \in Seq(Broadcasts) /\ issued[s] \in Seq(Entries)
           /\ Len(queue[s]) \in Nat /\ Len(queue[s]) <= JOB_BROADCAST_CAP
           /\ Len(issued[s]) <= JOB_HISTORY_DEPTH
           /\ cached[s] \in Tips \cup {NoTemplate} /\ ready[s] \in BOOLEAN
           /\ missedClean[s] \in BOOLEAN
<1>1. queue[s] \in Seq(Broadcasts) /\ issued[s] \in Seq(Entries)
  BY Zenon DEF TypeOK, Broadcasts, Entries
<1>2. /\ Len(queue[s]) <= JOB_BROADCAST_CAP /\ Len(issued[s]) <= JOB_HISTORY_DEPTH
      /\ cached[s] \in Tips \cup {NoTemplate} /\ ready[s] \in BOOLEAN
      /\ missedClean[s] \in BOOLEAN
  BY Zenon DEF TypeOK
<1>3. Len(queue[s]) \in Nat
  BY <1>1
<1> QED
  BY <1>1, <1>2, <1>3, Zenon

(* The engine's state is well typed as long as nothing changes it. *)
LEMMA EngineTypes ==
    ASSUME TypeOK, UNCHANGED engineVars
    PROVE  EngineTypeOK'
BY DEF TypeOK, EngineTypeOK, engineVars, nodeVars

(* A step of one session's task leaves the engine and the others alone. *)
LEMMA OneSession ==
    ASSUME FlowInv, TypeOK', NEW s \in Sessions, UNCHANGED engineVars,
           \A t \in Sessions \ {s} : Same(t), SessionInv(s)'
    PROVE  FlowInv'
<1>1. EngineInv' /\ (Settled' <=> Settled) /\ current_template' = current_template
  BY Zenon DEF FlowInv, EngineInv, Settled, engineVars
<1>2. ASSUME NEW t \in Sessions PROVE SessionInv(t)'
  <2>1. CASE t = s
    BY <2>1, Zenon
  <2>2. CASE t # s
    <3>1. Same(t) /\ SessionInv(t)
      BY <2>2, Zenon DEF FlowInv
    <3> QED
      BY <3>1, <1>1, Zenon DEF Same, SessionInv
  <2> QED
    BY <2>1, <2>2, Zenon
<1> QED
  BY <1>1, <1>2, Zenon DEF FlowInv

(* A job goes out: it is the newest of its session, and of no other. *)
LEMMA Sent ==
    ASSUME TypeOK, NEW s \in Sessions, NEW template \in Tips, NEW clean \in BOOLEAN,
           SendJob(s, template, clean)
    PROVE  /\ issued' \in [Sessions -> Seq(Entries)]
           /\ \A t \in Sessions : Len(issued'[t]) <= JOB_HISTORY_DEPTH
           /\ device' \in [Sessions -> Tips \cup {NoTemplate}]
           /\ cached' \in [Sessions -> Tips \cup {NoTemplate}]
           /\ issued'[s] # <<>> /\ Newest(issued'[s]).job = template /\ cached'[s] = template
           /\ device'[s] = IF clean \/ proto[s] = "sv1" THEN template ELSE device[s]
           /\ clean \/ LiveOn(issued[s], template) => LiveOn(issued'[s], template)
           /\ \A t \in Sessions \ {s} : /\ issued'[t] = issued[t] /\ device'[t] = device[t]
                                        /\ cached'[t] = cached[t]
<1> DEFINE r == issue(issued[s], template, clean, 0)
<1>1. /\ r \in Seq(Entries) /\ Len(r) <= JOB_HISTORY_DEPTH
      /\ r # <<>> /\ Newest(r).job = template
      /\ clean \/ LiveOn(issued[s], template) => LiveOn(r, template)
  BY Typed, Issue
<1>2. /\ issued \in [Sessions -> Seq(Entries)] /\ device \in [Sessions -> Tips \cup {NoTemplate}]
      /\ cached \in [Sessions -> Tips \cup {NoTemplate}]
      /\ \A t \in Sessions : Len(issued[t]) <= JOB_HISTORY_DEPTH
  BY Zenon DEF TypeOK, Entries
<1>3. /\ issued' = [issued EXCEPT ![s] = r] /\ cached' = [cached EXCEPT ![s] = template]
      /\ device' = [device EXCEPT ![s] =
                       IF clean \/ proto[s] = "sv1" THEN template ELSE device[s]]
  BY <1>2, Zenon DEF SendJob
<1> HIDE DEF r
<1> QED
  BY <1>1, <1>2, <1>3, Zenon

(* A new session has read nothing and was sent nothing. *)
LEMMA ConnectKeeps ==
    ASSUME FlowInv, NEW s \in Sessions, Connect(s)
    PROVE  FlowInv'
<1>1. TypeOK /\ SessionInv(s)
  BY Zenon DEF FlowInv
<1>2. TypeOK' /\ UNCHANGED engineVars /\ \A t \in Sessions \ {s} : Same(t)
  <2>1. UNCHANGED engineVars
    BY Zenon DEF Connect
  <2>2. EngineTypeOK'
    BY <1>1, <2>1, EngineTypes, Zenon
  <2>3. TypeOK'
    BY <1>1, <2>2, Zenon DEF Connect, TypeOK, workVars
  <2> QED
    BY <1>1, <2>1, <2>3, Zenon DEF Connect, TypeOK, workVars, Same
<1>3. /\ phase[s] = "gone" /\ phase'[s] = "subscribed"
      /\ UNCHANGED <<engineVars, queue, cached, ready, issued, device, missedClean>>
  BY <1>1, Zenon DEF Connect, TypeOK, workVars
<1>4. SessionInv(s)'
  BY <1>1, <1>3, Zenon DEF SessionInv, Steady, UpToDate, Settled, engineVars
<1> QED
  BY <1>2, <1>4, OneSession, Zenon

(* The template is cached after the session subscribed: whatever was stored   *)
(* before is in the cache, whatever is sent from now on in the ring.          *)
LEMMA CacheKeeps ==
    ASSUME FlowInv, NEW s \in Sessions, CacheTemplate(s)
    PROVE  FlowInv'
<1>1. TypeOK /\ SessionInv(s)
  BY Zenon DEF FlowInv
<1>2. TypeOK' /\ UNCHANGED engineVars /\ \A t \in Sessions \ {s} : Same(t)
  <2>1. UNCHANGED engineVars
    BY Zenon DEF CacheTemplate
  <2>2. EngineTypeOK'
    BY <1>1, <2>1, EngineTypes, Zenon
  <2>3. TypeOK'
    <3>1. current_template \in Tips \cup {NoTemplate}
      BY <1>1, Zenon DEF TypeOK, EngineTypeOK
    <3> QED
      BY <1>1, <2>2, <3>1, Zenon DEF CacheTemplate, TypeOK
  <2> QED
    <3>1. \A t \in Sessions \ {s} : Same(t)
      BY <1>1, Zenon DEF CacheTemplate, TypeOK, Same
    <3> QED
      BY <2>1, <2>3, <3>1, Zenon
<1>3. /\ phase[s] = "subscribed" /\ phase'[s] = "running" /\ cached'[s] = current_template
      /\ UNCHANGED <<engineVars, queue, ready, issued, device, missedClean>>
  BY <1>1, Zenon DEF CacheTemplate, TypeOK
<1>4. SessionInv(s)'
  BY <1>1, <1>3, Zenon DEF SessionInv, Steady, UpToDate, Settled, engineVars
<1> QED
  BY <1>2, <1>4, OneSession, Zenon

(* An overrun receiver is told so, and keeps what it has. *)
LEMMA LaggedKeeps ==
    ASSUME FlowInv, NEW s \in Sessions, RecvLagged(s)
    PROVE  FlowInv'
<1>1. TypeOK /\ SessionInv(s)
  BY Zenon DEF FlowInv
<1>2. /\ UNCHANGED <<engineVars, leaves, phase, proto, queue, cached, ready, issued, device,
                     missedClean>>
      /\ lagged' = [lagged EXCEPT ![s] = FALSE]
  BY Zenon DEF RecvLagged, workVars
<1>3. EngineTypeOK'
  BY <1>1, <1>2, EngineTypes, Zenon
<1>4. TypeOK' /\ \A t \in Sessions \ {s} : Same(t)
  BY <1>1, <1>2, <1>3, Zenon DEF TypeOK, Same
<1>5. SessionInv(s)'
  BY <1>1, <1>2, Zenon DEF SessionInv, Settled, engineVars
<1> QED
  BY <1>2, <1>4, <1>5, OneSession, Zenon

(* What a session had dies with it. *)
LEMMA LeaveKeeps ==
    ASSUME FlowInv, NEW s \in Sessions, Leave(s)
    PROVE  FlowInv'
<1>1. TypeOK /\ SessionInv(s)
  BY Zenon DEF FlowInv
<1>2. UNCHANGED engineVars
  BY Zenon DEF Leave
<1>3. EngineTypeOK'
  BY <1>1, <1>2, EngineTypes, Zenon
<1>4. \A t \in Sessions \ {s} : Same(t)
  BY <1>1 DEF TypeOK, Leave, Same
<1>5. /\ phase'[s] = "gone" /\ queue'[s] = <<>> /\ cached'[s] = NoTemplate /\ ~ready'[s]
      /\ issued'[s] = <<>> /\ device'[s] = NoTemplate
  BY <1>1, Zenon DEF TypeOK, Leave
<1>6. TypeOK'
  <2>1. /\ phase' \in [Sessions -> {"gone", "subscribed", "running"}]
        /\ proto' \in [Sessions -> {"sv1", "sv2"}]
        /\ lagged' \in [Sessions -> BOOLEAN] /\ ready' \in [Sessions -> BOOLEAN]
        /\ cached' \in [Sessions -> Tips \cup {NoTemplate}]
        /\ device' \in [Sessions -> Tips \cup {NoTemplate}]
        /\ missedClean' \in [Sessions -> BOOLEAN] /\ leaves' \in 0 .. MaxLeaves
    BY <1>1, FlowAssumption DEF TypeOK, Leave
  <2>2. queue' \in [Sessions -> Seq(Broadcasts)] /\ issued' \in [Sessions -> Seq(Entries)]
    <3>1. queue \in [Sessions -> Seq(Broadcasts)] /\ issued \in [Sessions -> Seq(Entries)]
      BY <1>1, Zenon DEF TypeOK, Broadcasts, Entries
    <3>2. <<>> \in Seq(Broadcasts) /\ <<>> \in Seq(Entries)
      OBVIOUS
    <3> QED
      BY <3>1, <3>2, Zenon DEF Leave
  <2>3. \A t \in Sessions : /\ Len(queue'[t]) <= JOB_BROADCAST_CAP
                            /\ Len(issued'[t]) <= JOB_HISTORY_DEPTH
    <3>1. ASSUME NEW t \in Sessions
          PROVE  Len(queue'[t]) <= JOB_BROADCAST_CAP /\ Len(issued'[t]) <= JOB_HISTORY_DEPTH
      <4>1. CASE t = s
        BY <1>5, <4>1, FlowAssumption, DepthAssumption
      <4>2. CASE t # s
        BY <1>1, <1>4, <4>2, Typed, Zenon DEF Same
      <4> QED
        BY <4>1, <4>2, Zenon
    <3> QED
      BY <3>1, Zenon
  <2> QED
    BY <1>3, <2>1, <2>2, <2>3, Zenon DEF TypeOK, Broadcasts, Entries
<1>7. SessionInv(s)'
  BY <1>5 DEF SessionInv, Steady, UpToDate, EndsOn
<1> QED
  BY <1>2, <1>4, <1>6, <1>7, OneSession, Zenon

(* The job arm takes a broadcast: the last of them leaves the session on the  *)
(* engine's template, and a clean one, or one on the tip all its jobs are on, *)
(* on that tip alone.                                                         *)
LEMMA RecvKeeps ==
    ASSUME FlowInv, NEW s \in Sessions, RecvJob(s)
    PROVE  FlowInv'
<1> DEFINE b == Head(queue[s])
           rest == Tail(queue[s])
<1>1. TypeOK /\ SessionInv(s)
  BY Zenon DEF FlowInv
<1>2. /\ phase[s] = "running" /\ queue[s] # <<>>
      /\ UNCHANGED <<engineVars, leaves, phase, proto, lagged, ready>>
      /\ queue' = [queue EXCEPT ![s] = rest]
      /\ missedClean' = [missedClean EXCEPT ![s] = missedClean[s] /\ ~b.clean]
  BY <1>1, Zenon DEF RecvJob, TypeOK
<1>3. /\ queue[s] \in Seq(Broadcasts) /\ Len(queue[s]) \in Nat
      /\ Len(queue[s]) <= JOB_BROADCAST_CAP
  BY <1>1, Typed, Zenon
<1>4. /\ rest \in Seq(Broadcasts) /\ Len(rest) = Len(queue[s]) - 1
      /\ b.template \in Tips /\ b.clean \in BOOLEAN
      /\ EndsOn(queue[s], current_template) =>
             /\ EndsOn(rest, current_template)
             /\ Clean(rest) = {} => b.template = current_template
      /\ Clean(rest) = {} /\ ~b.clean => Clean(queue[s]) = {}
  BY <1>2, <1>3, Leaves, Zenon
<1>5. /\ ready[s] => SendJob(s, b.template, b.clean)
      /\ ~ready[s] => /\ cached' = [cached EXCEPT ![s] = b.template]
                      /\ UNCHANGED <<issued, device>>
  BY Zenon DEF RecvJob
<1> HIDE DEF b, rest
<1>6. /\ issued' \in [Sessions -> Seq(Entries)]
      /\ \A t \in Sessions : Len(issued'[t]) <= JOB_HISTORY_DEPTH
      /\ device' \in [Sessions -> Tips \cup {NoTemplate}]
      /\ cached' \in [Sessions -> Tips \cup {NoTemplate}]
      /\ cached'[s] = b.template
      /\ \A t \in Sessions \ {s} : /\ issued'[t] = issued[t] /\ device'[t] = device[t]
                                   /\ cached'[t] = cached[t]
  <2>1. CASE ready[s]
    BY <1>1, <1>4, <1>5, <2>1, Sent
  <2>2. CASE ~ready[s]
    BY <1>1, <1>4, <1>5, <2>2, Zenon DEF TypeOK, Entries
  <2> QED
    BY <2>1, <2>2, Zenon
<1>7. /\ queue'[s] = rest /\ missedClean'[s] = (missedClean[s] /\ ~b.clean)
      /\ queue' \in [Sessions -> Seq(Broadcasts)] /\ missedClean' \in [Sessions -> BOOLEAN]
      /\ \A t \in Sessions \ {s} : queue'[t] = queue[t] /\ missedClean'[t] = missedClean[t]
  BY <1>1, <1>2, <1>4, Zenon DEF TypeOK, Broadcasts
<1>8. \A t \in Sessions \ {s} : Same(t)
  BY <1>2, <1>6, <1>7, Zenon DEF Same
<1>9. TypeOK'
  <2>1. EngineTypeOK'
    BY <1>1, <1>2, EngineTypes, Zenon
  <2>2. \A t \in Sessions : Len(queue'[t]) <= JOB_BROADCAST_CAP
    <3>1. Len(rest) <= JOB_BROADCAST_CAP
      BY <1>3, <1>4, FlowAssumption
    <3> QED
      BY <1>1, <1>7, <3>1, Zenon DEF TypeOK
  <2> QED
    BY <1>1, <1>2, <1>6, <1>7, <2>1, <2>2, Zenon DEF TypeOK, Broadcasts, Entries
<1>10. Steady(phase'[s], queue'[s], cached'[s], ready'[s], issued'[s], device'[s])
  <2>1. b.template # NoTemplate
    BY <1>4, TemplateAssumption, Zenon
  <2>2. CASE ready[s]
    <3>1. issued'[s] # <<>> /\ Newest(issued'[s]).job = b.template
      BY <1>1, <1>4, <1>5, <2>2, Sent
    <3> QED
      BY <1>2, <1>6, <2>1, <2>2, <3>1, Zenon DEF Steady
  <2>3. CASE ~ready[s]
    BY <1>1, <1>2, <1>5, <2>3, Zenon DEF Steady, SessionInv
  <2> QED
    BY <2>2, <2>3, Zenon
<1>11. ASSUME Settled
       PROVE  UpToDate(current_template, phase[s], rest, b.template, ready[s], issued'[s],
                       device'[s], missedClean'[s])
  <2> DEFINE c == current_template
  <2>1. UpToDate(c, phase[s], queue[s], cached[s], ready[s], issued[s], device[s], missedClean[s])
    BY <1>1, <1>11, Zenon DEF SessionInv
  <2>2. EndsOn(rest, c) /\ (Clean(rest) = {} => b.template = c)
    BY <1>4, <2>1, Zenon DEF UpToDate
  <2>3. rest = <<>> => Clean(rest) = {}
    BY DEF Clean
  <2>4. ASSUME ready[s], ~missedClean'[s], Clean(rest) = {}
        PROVE  device'[s] = c /\ LiveOn(issued'[s], c)
    <3>1. b.template = c
      BY <2>2, <2>4, Zenon
    <3>2. /\ device'[s] = IF b.clean \/ proto[s] = "sv1" THEN b.template ELSE device[s]
          /\ b.clean \/ LiveOn(issued[s], b.template) => LiveOn(issued'[s], b.template)
      BY <1>1, <1>4, <1>5, <2>4, Sent
    <3>3. ~b.clean => device[s] = c /\ LiveOn(issued[s], c)
      BY <1>2, <1>4, <1>7, <2>1, <2>4, Zenon DEF UpToDate
    <3> QED
      BY <1>4, <3>1, <3>2, <3>3, Zenon
  <2> QED
    BY <2>2, <2>3, <2>4, Zenon DEF UpToDate
<1>12. SessionInv(s)'
  <2>1. Settled' => Settled
    BY <1>2, Zenon DEF Settled, engineVars
  <2>2. /\ current_template' = current_template /\ phase'[s] = phase[s] /\ ready'[s] = ready[s]
        /\ queue'[s] = rest /\ cached'[s] = b.template
    BY <1>2, <1>6, <1>7, Zenon DEF engineVars
  <2>3. Settled' => UpToDate(current_template', phase'[s], queue'[s], cached'[s], ready'[s],
                             issued'[s], device'[s], missedClean'[s])
    BY <2>1, <2>2, <1>11, Zenon
  <2> QED
    BY <1>10, <2>3, Zenon DEF SessionInv
<1> QED
  BY <1>2, <1>8, <1>9, <1>12, OneSession, Zenon

(* A clean job on what the session has cached, or, if that is nothing, on the *)
(* engine's template; a session whose ring holds no clean broadcast has the   *)
(* engine's template cached, and nothing is left behind.                      *)
LEMMA SentFirst ==
    ASSUME FlowInv, NEW s \in Sessions, phase[s] = "running",
           NEW template \in Tips, template = cached[s] \/ cached[s] = NoTemplate,
           cached[s] = NoTemplate => template = current_template,
           SendJob(s, template, TRUE), ready' = [ready EXCEPT ![s] = TRUE],
           UNCHANGED <<engineVars, leaves, phase, proto, queue, lagged, missedClean>>
    PROVE  FlowInv'
<1>1. TypeOK /\ SessionInv(s)
  BY Zenon DEF FlowInv
<1>2. /\ issued' \in [Sessions -> Seq(Entries)]
      /\ \A t \in Sessions : Len(issued'[t]) <= JOB_HISTORY_DEPTH
      /\ device' \in [Sessions -> Tips \cup {NoTemplate}]
      /\ cached' \in [Sessions -> Tips \cup {NoTemplate}]
      /\ issued'[s] # <<>> /\ Newest(issued'[s]).job = template /\ cached'[s] = template
      /\ device'[s] = template /\ LiveOn(issued'[s], template)
      /\ \A t \in Sessions \ {s} : /\ issued'[t] = issued[t] /\ device'[t] = device[t]
                                   /\ cached'[t] = cached[t]
  BY <1>1, Sent, Zenon
<1>3. ready' \in [Sessions -> BOOLEAN] /\ ready'[s] /\ \A t \in Sessions \ {s} : ready'[t] = ready[t]
  BY <1>1, Zenon DEF TypeOK
<1>4. TypeOK'
  <2>1. EngineTypeOK'
    BY <1>1, EngineTypes, Zenon
  <2> QED
    BY <1>1, <1>2, <1>3, <2>1, Zenon DEF TypeOK, Entries
<1>5. \A t \in Sessions \ {s} : Same(t)
  BY <1>2, <1>3, Zenon DEF Same
<1>6. template # NoTemplate
  BY TemplateAssumption, Zenon
<1>7. SessionInv(s)'
  <2>1. Steady(phase[s], queue[s], template, TRUE, issued'[s], device'[s])
    BY <1>2, <1>6, Zenon DEF Steady
  <2>2. ASSUME Settled
        PROVE  UpToDate(current_template, phase[s], queue[s], template, TRUE, issued'[s],
                        device'[s], missedClean[s])
    <3>1. UpToDate(current_template, phase[s], queue[s], cached[s], ready[s], issued[s],
                   device[s], missedClean[s])
      BY <1>1, <2>2, Zenon DEF SessionInv
    <3>2. cached[s] = current_template => template = current_template
      BY <2>2, Zenon DEF Settled
    <3> QED
      BY <1>2, <3>1, <3>2, Zenon DEF UpToDate
  <2>3. /\ current_template' = current_template /\ (Settled' => Settled)
        /\ phase'[s] = phase[s] /\ queue'[s] = queue[s] /\ missedClean'[s] = missedClean[s]
        /\ cached'[s] = template /\ ready'[s] = TRUE
    BY <1>2, <1>3, Zenon DEF engineVars, Settled
  <2> QED
    BY <2>1, <2>2, <2>3, Zenon DEF SessionInv
<1> QED
  BY <1>4, <1>5, <1>7, OneSession, Zenon

(* With no template anywhere the session is ready and waits for a broadcast. *)
LEMMA ReadyUnsent ==
    ASSUME FlowInv, NEW s \in Sessions, phase[s] = "running", cached[s] = NoTemplate,
           ready' = [ready EXCEPT ![s] = TRUE],
           UNCHANGED <<engineVars, leaves, phase, proto, queue, lagged, missedClean,
                       issued, device, cached>>
    PROVE  FlowInv'
<1>1. TypeOK /\ SessionInv(s)
  BY Zenon DEF FlowInv
<1>2. ready' \in [Sessions -> BOOLEAN] /\ ready'[s] /\ \A t \in Sessions \ {s} : ready'[t] = ready[t]
  BY <1>1, Zenon DEF TypeOK
<1>3. TypeOK'
  <2>1. EngineTypeOK'
    BY <1>1, EngineTypes, Zenon
  <2> QED
    BY <1>1, <1>2, <2>1, Zenon DEF TypeOK
<1>4. \A t \in Sessions \ {s} : Same(t)
  BY <1>2, Zenon DEF Same
<1>5. issued[s] = <<>>
  BY <1>1, Zenon DEF SessionInv, Steady
<1>6. Settled => current_template # NoTemplate
  BY Zenon DEF Settled
<1>7. SessionInv(s)'
  BY <1>1, <1>2, <1>5, <1>6, Zenon DEF SessionInv, Steady, UpToDate, Settled, engineVars
<1> QED
  BY <1>3, <1>4, <1>7, OneSession, Zenon

(* mining.authorize *)
LEMMA AuthorizeKeeps ==
    ASSUME FlowInv, NEW s \in Sessions, handle_authorize(s)
    PROVE  FlowInv'
<1> DEFINE template == IF cached[s] # NoTemplate THEN cached[s] ELSE current_template
<1>1. /\ cached[s] \in Tips \cup {NoTemplate} /\ current_template \in Tips \cup {NoTemplate}
  BY Typed, Zenon DEF FlowInv, TypeOK, EngineTypeOK
<1>2. CASE template = NoTemplate
  BY <1>2, ReadyUnsent, Zenon DEF handle_authorize
<1>3. CASE template # NoTemplate
  <2>1. /\ template \in Tips /\ (template = cached[s] \/ cached[s] = NoTemplate)
        /\ cached[s] = NoTemplate => template = current_template
    BY <1>1, <1>3, Zenon
  <2>2. SendJob(s, template, TRUE)
    BY <1>3, Zenon DEF handle_authorize
  <2> QED
    BY <2>1, <2>2, SentFirst, Zenon DEF handle_authorize
<1> QED
  BY <1>2, <1>3, Zenon

(* OpenExtendedMiningChannel *)
LEMMA OpenKeeps ==
    ASSUME FlowInv, NEW s \in Sessions, handle_open_extended(s)
    PROVE  FlowInv'
<1>1. cached[s] \in Tips \cup {NoTemplate}
  BY Typed, Zenon DEF FlowInv
<1>2. CASE cached[s] = NoTemplate
  BY <1>2, ReadyUnsent, Zenon DEF handle_open_extended
<1>3. CASE cached[s] # NoTemplate
  BY <1>1, <1>3, SentFirst, Zenon DEF handle_open_extended
<1> QED
  BY <1>2, <1>3, Zenon

-----------------------------------------------------------------------------
(* The engine *)

(* A send reaches every subscriber's ring, the oldest broadcast giving way:   *)
(* a clean one settles the new tip, another one adds to the tip all have.     *)
LEMMA BroadcastKeeps ==
    ASSUME FlowInv, Broadcast
    PROVE  FlowInv'
<1> DEFINE b == [template |-> refresh.template, clean |-> refresh.flag]
<1>1. TypeOK /\ EngineInv /\ EngineTypeOK
  BY Zenon DEF FlowInv, TypeOK
<1>2. refresh.pc = "send" /\ refresh' = Idle
      /\ UNCHANGED <<tip, newRules, fault, left, tip_signal, current_template, unsupported_rules>>
      /\ UNCHANGED <<phase, proto, cached, ready, issued, device, leaves>>
  BY Zenon DEF Broadcast, SendBroadcast, nodeVars
<1>3. /\ b \in Broadcasts /\ b.template = current_template /\ b.clean = refresh.flag
      /\ current_template \in Tips /\ current_template # NoTemplate
  BY <1>1, <1>2, TemplateAssumption, Zenon DEF EngineInv, EngineTypeOK, Broadcasts
<1>4. EngineTypeOK' /\ EngineInv'
  BY <1>1, <1>2, Zenon DEF EngineTypeOK, EngineInv, Idle, Refreshing
<1>5. Settled <=> ~b.clean
  BY <1>2, <1>3, Zenon DEF Settled
<1> HIDE DEF b
<1>6. ASSUME NEW s \in Sessions
      PROVE  /\ queue'[s] \in Seq(Broadcasts) /\ Len(queue'[s]) <= JOB_BROADCAST_CAP
             /\ missedClean'[s] \in BOOLEAN /\ lagged'[s] \in BOOLEAN
             /\ SessionInv(s)'
  <2> DEFINE q == queue[s]
             old == IF Overflows(s) THEN Tail(q) ELSE q
  <2>1. /\ q \in Seq(Broadcasts) /\ Len(q) \in Nat /\ Len(q) <= JOB_BROADCAST_CAP
        /\ missedClean[s] \in BOOLEAN /\ lagged[s] \in BOOLEAN
    BY <1>1, Typed, Zenon DEF TypeOK
  <2>2. /\ queue'[s] = IF s \notin Subscribers THEN q ELSE Append(old, b)
        /\ lagged'[s] = (lagged[s] \/ Overflows(s))
        /\ missedClean'[s] = (missedClean[s] \/ (Overflows(s) /\ Head(q).clean))
    BY Zenon DEF Broadcast, b
  <2>3. SessionInv(s)
    BY Zenon DEF FlowInv
  <2>4. CASE s \notin Subscribers
    <3>1. phase[s] = "gone" /\ q = <<>> /\ ~Overflows(s)
      BY <2>3, <2>4, Zenon DEF Subscribers, Overflows, SessionInv, Steady
    <3>2. queue'[s] = q /\ lagged'[s] = lagged[s] /\ missedClean'[s] = missedClean[s]
      BY <2>1, <2>2, <2>4, <3>1, Zenon
    <3>3. EndsOn(q, current_template)
      BY <3>1 DEF EndsOn
    <3> QED
      BY <1>2, <2>1, <2>3, <3>1, <3>2, <3>3, Zenon DEF SessionInv, Steady, UpToDate
  <2>5. CASE s \in Subscribers
    <3>1. phase[s] # "gone"
      BY <2>5, Zenon DEF Subscribers
    <3>2. /\ old \in Seq(Broadcasts) /\ Len(old) + 1 <= JOB_BROADCAST_CAP
          /\ EndsOn(q, current_template) => EndsOn(old, current_template)
          /\ Clean(old) = {} /\ ~(Overflows(s) /\ Head(q).clean) => Clean(q) = {}
      <4>1. CASE Overflows(s)
        <5>1. q # <<>> /\ Len(q) = JOB_BROADCAST_CAP
          BY <2>1, <4>1, FlowAssumption, Zenon DEF Overflows
        <5>2. /\ Tail(q) \in Seq(Broadcasts) /\ Len(Tail(q)) = Len(q) - 1
              /\ EndsOn(q, current_template) => EndsOn(Tail(q), current_template)
              /\ Clean(Tail(q)) = {} /\ ~Head(q).clean => Clean(q) = {}
          BY <2>1, <5>1, Leaves, Zenon
        <5>3. old = Tail(q)
          BY <4>1, Zenon
        <5> QED
          BY <2>1, <4>1, <5>1, <5>2, <5>3
      <4>2. CASE ~Overflows(s)
        BY <2>1, <2>5, <4>2, FlowAssumption DEF Overflows
      <4> QED
        BY <4>1, <4>2, Zenon
    <3> HIDE DEF old
    <3>3. /\ queue'[s] \in Seq(Broadcasts) /\ Len(queue'[s]) = Len(old) + 1
          /\ queue'[s] # <<>>
          /\ b.clean \/ EndsOn(old, current_template) => EndsOn(queue'[s], current_template)
          /\ Clean(queue'[s]) = {} => Clean(old) = {} /\ ~b.clean
      BY <1>3, <2>2, <2>5, <3>2, Enters, Zenon
    <3>4. /\ missedClean'[s] \in BOOLEAN /\ lagged'[s] \in BOOLEAN
      BY <2>2, Zenon DEF Overflows
    <3>5. ~b.clean => UpToDate(current_template, phase[s], q, cached[s], ready[s], issued[s],
                               device[s], missedClean[s])
      BY <1>5, <2>3, Zenon DEF SessionInv
    <3>6. EndsOn(queue'[s], current_template)
      BY <3>2, <3>3, <3>5, Zenon DEF UpToDate
    <3>7. ASSUME phase[s] = "running", ~missedClean'[s], Clean(queue'[s]) = {}
          PROVE  /\ cached[s] = current_template
                 /\ ready[s] => /\ device[s] = current_template
                                /\ LiveOn(issued[s], current_template)
      <4>1. ~missedClean[s] /\ ~b.clean /\ Clean(q) = {}
        BY <2>2, <3>2, <3>3, <3>7, Zenon
      <4> QED
        BY <3>5, <3>7, <4>1, Zenon DEF UpToDate
    <3>8. UpToDate(current_template, phase[s], queue'[s], cached[s], ready[s], issued[s],
                   device[s], missedClean'[s])
      BY <3>3, <3>6, <3>7, Zenon DEF UpToDate
    <3>9. Steady(phase[s], queue'[s], cached[s], ready[s], issued[s], device[s])
      BY <2>3, <3>1, Zenon DEF SessionInv, Steady
    <3>10. SessionInv(s)'
      BY <1>2, <3>8, <3>9, Zenon DEF SessionInv
    <3> QED
      BY <3>2, <3>3, <3>4, <3>10, Zenon
  <2> QED
    BY <2>4, <2>5, Zenon
<1>7. TypeOK'
  <2>1. /\ queue' \in [Sessions -> Seq(Broadcasts)]
        /\ lagged' \in [Sessions -> BOOLEAN] /\ missedClean' \in [Sessions -> BOOLEAN]
    BY <1>6, Zenon DEF Broadcast
  <2> QED
    BY <1>1, <1>2, <1>4, <1>6, <2>1, Zenon DEF TypeOK, Broadcasts
<1> QED
  BY <1>4, <1>6, <1>7, Zenon DEF FlowInv

(* A step that neither sends nor changes the engine's template. *)
LEMMA SettledKeeps ==
    ASSUME FlowInv, EngineTypeOK', EngineInv', Settled' => Settled,
           Settled' => current_template' = current_template,
           UNCHANGED <<recvVars, workVars, leaves>>
    PROVE  FlowInv'
<1>1. TypeOK /\ \A s \in Sessions : SessionInv(s)
  BY Zenon DEF FlowInv
<1>2. UNCHANGED <<phase, proto, queue, lagged, cached, ready, issued, device, missedClean, leaves>>
  BY Zenon DEF recvVars, workVars
<1>3. TypeOK'
  BY <1>1, <1>2, Zenon DEF TypeOK
<1>4. ASSUME NEW s \in Sessions PROVE SessionInv(s)'
  BY <1>1, <1>2, Zenon DEF SessionInv
<1> QED
  BY <1>3, <1>4, Zenon DEF FlowInv

(* A stored template is either the tip all sessions have, or unsettled until  *)
(* it is sent; a withdrawn one settles nothing.                               *)
LEMMA EngineKeeps ==
    ASSUME FlowInv, UNCHANGED <<recvVars, workVars, leaves>>,
           \/ NodeStep \/ TipSignalled \/ NtimeTick \/ GetBlockTemplate
           \/ check_template_rules \/ WithdrawTemplate \/ StoreTemplate \/ BuildFails
    PROVE  FlowInv'
<1>1. EngineTypeOK /\ EngineInv
  BY Zenon DEF FlowInv, TypeOK
<1>2. CASE NodeStep
  <2>1. UNCHANGED <<refresh, current_template, unsupported_rules>>
    BY <1>2, Zenon DEF NodeStep, TipMoves, RulesChange, FaultChanges
  <2>2. left' \in [{"tip", "rules", "fault", "death"} -> Nat]
    <3>1. \E k \in {"tip", "rules", "fault"} : Spend(k)
      BY <1>2, Zenon DEF NodeStep, TipMoves, RulesChange, FaultChanges
    <3> QED
      BY <1>1, <3>1 DEF Spend, EngineTypeOK
  <2>3. /\ tip' \in Tips /\ newRules' \in BOOLEAN /\ fault' \in {"none", "rpc", "build"}
        /\ tip_signal' \in BOOLEAN
    BY <1>1, <1>2, Zenon DEF NodeStep, TipMoves, RulesChange, FaultChanges, EngineTypeOK
  <2>4. EngineTypeOK' /\ EngineInv' /\ (Settled' => Settled)
    BY <1>1, <2>1, <2>2, <2>3 DEF EngineTypeOK, EngineInv, Settled
  <2> QED
    BY <2>1, <2>4, SettledKeeps, Zenon
<1>3. CASE TipSignalled \/ NtimeTick \/ GetBlockTemplate \/ check_template_rules \/ BuildFails
  <2>1. /\ UNCHANGED <<tip, newRules, fault, left, current_template>>
        /\ tip_signal' \in BOOLEAN /\ unsupported_rules' \in BOOLEAN
    BY <1>1, <1>3, Zenon DEF TipSignalled, NtimeTick, GetBlockTemplate, check_template_rules, BuildFails,
                      nodeVars, EngineTypeOK
  <2>2. /\ refresh.pc # "send" /\ refresh'.pc \in {"idle", "fetch", "rules", "withdraw", "build"}
        /\ refresh' \in [pc : {"idle", "fetch", "rules", "withdraw", "build", "send", "dead"},
                         clean_jobs : BOOLEAN, template : Tips \cup {NoTemplate}, flag : BOOLEAN]
        /\ refresh'.pc \in {"rules", "withdraw", "build"} => refresh'.template \in Tips
    <3>1. CASE TipSignalled \/ NtimeTick
      <4>1. PICK clean \in BOOLEAN :
                refresh' = [pc |-> "fetch", clean_jobs |-> clean, template |-> NoTemplate,
                            flag |-> FALSE]
        BY <3>1, Zenon DEF TipSignalled, NtimeTick, Refreshing
      <4>2. refresh.pc = "idle"
        BY <3>1, Zenon DEF TipSignalled, NtimeTick
      <4> QED
        BY <4>1, <4>2, Zenon
    <3>2. CASE GetBlockTemplate
      BY <1>1, <3>2, Zenon DEF GetBlockTemplate, EngineTypeOK, Idle, Refreshing
    <3>3. CASE check_template_rules
      BY <1>1, <3>3, Zenon DEF check_template_rules, EngineTypeOK, EngineInv, Refreshing
    <3>4. CASE BuildFails
      BY <3>4, Zenon DEF BuildFails, Idle, Refreshing
    <3> QED
      BY <1>3, <3>1, <3>2, <3>3, <3>4, Zenon
  <2>3. EngineTypeOK'
    BY <1>1, <2>1, <2>2, Zenon DEF EngineTypeOK
  <2>4. EngineInv' /\ (Settled' => Settled)
    BY <2>1, <2>2, Zenon DEF EngineInv, Settled
  <2> QED
    BY <2>1, <2>3, <2>4, SettledKeeps, Zenon
<1>4. CASE WithdrawTemplate
  <2>1. EngineTypeOK' /\ EngineInv' /\ ~Settled'
    BY <1>1, <1>4, Zenon DEF WithdrawTemplate, nodeVars, EngineTypeOK, EngineInv, Settled, Idle, Refreshing
  <2> QED
    BY <2>1, SettledKeeps, Zenon
<1>5. CASE StoreTemplate
  <2>1. /\ refresh.pc = "build" /\ refresh.template \in Tips
        /\ current_template' = refresh.template
        /\ refresh' = [pc |-> "send", clean_jobs |-> refresh.clean_jobs,
                       template |-> refresh.template,
                       flag |-> (current_template # refresh.template)]
        /\ UNCHANGED <<tip, newRules, fault, left, tip_signal, unsupported_rules>>
    BY <1>1, <1>5, Zenon DEF StoreTemplate, nodeVars, EngineInv, Refreshing, should_force_clean
  <2>2. EngineTypeOK' /\ EngineInv'
    BY <1>1, <2>1, Zenon DEF EngineTypeOK, EngineInv
  <2>3. Settled' => Settled /\ current_template' = current_template
    BY <2>1, TemplateAssumption, Zenon DEF Settled
  <2> QED
    BY <2>2, <2>3, SettledKeeps, Zenon
<1> QED
  BY <1>2, <1>3, <1>4, <1>5, Zenon

-----------------------------------------------------------------------------
(* The theorems *)

\* The invariant of the job broadcast holds throughout.
LEMMA FlowInvHolds == Spec => []FlowInv
<1>1. Init => FlowInv
  <2> SUFFICES ASSUME Init PROVE FlowInv
    BY Zenon
  <2>1. EngineTypeOK /\ EngineInv
    <3>1. left \in [{"tip", "rules", "fault", "death"} -> Nat]
      BY TemplateAssumption DEF Init, EngineInit
    <3> QED
      BY <3>1, Zenon DEF Init, EngineInit, EngineTypeOK, EngineInv, Refreshing
  <2>2. <<>> \in Seq(Broadcasts) /\ <<>> \in Seq(Entries) /\ Len(<<>>) = 0
    OBVIOUS
  <2>3. TypeOK
    <3>1. /\ queue \in [Sessions -> Seq(Broadcasts)] /\ issued \in [Sessions -> Seq(Entries)]
          /\ \A s \in Sessions : queue[s] = <<>> /\ issued[s] = <<>>
      BY <2>2, Zenon DEF Init
    <3>2. \A s \in Sessions : /\ Len(queue[s]) <= JOB_BROADCAST_CAP
                              /\ Len(issued[s]) <= JOB_HISTORY_DEPTH
      BY <2>2, <3>1, FlowAssumption, DepthAssumption
    <3>3. /\ phase \in [Sessions -> {"gone", "subscribed", "running"}]
          /\ proto \in [Sessions -> {"sv1", "sv2"}]
          /\ lagged \in [Sessions -> BOOLEAN] /\ ready \in [Sessions -> BOOLEAN]
          /\ cached \in [Sessions -> Tips \cup {NoTemplate}]
          /\ device \in [Sessions -> Tips \cup {NoTemplate}]
          /\ missedClean \in [Sessions -> BOOLEAN] /\ leaves \in 0 .. MaxLeaves
      BY FlowAssumption DEF Init
    <3> QED
      BY <2>1, <3>1, <3>2, <3>3, Zenon DEF TypeOK, Broadcasts, Entries
  <2>4. ASSUME NEW s \in Sessions PROVE SessionInv(s)
    BY DEF Init, SessionInv, Steady, UpToDate, EndsOn
  <2> QED
    BY <2>1, <2>3, <2>4, Zenon DEF FlowInv
<1>2. FlowInv /\ [Next]_vars => FlowInv'
  <2> SUFFICES ASSUME FlowInv, [Next]_vars PROVE FlowInv'
    BY Zenon
  <2>1. CASE /\ NodeStep \/ TipSignalled
             /\ UNCHANGED <<recvVars, workVars, leaves>>
    BY <2>1, EngineKeeps, Zenon
  <2>2. CASE NtimeTimer
    BY <2>2, EngineKeeps, Zenon DEF NtimeTimer
  <2>3. CASE RefreshStep
    BY <2>3, EngineKeeps, BroadcastKeeps, Zenon DEF RefreshStep
  <2>4. ASSUME NEW s \in Sessions,
               \/ Connect(s) \/ CacheTemplate(s) \/ RecvJob(s) \/ RecvLagged(s)
               \/ handle_authorize(s) \/ handle_open_extended(s) \/ Leave(s)
        PROVE  FlowInv'
    BY <2>4, ConnectKeeps, CacheKeeps, RecvKeeps, LaggedKeeps, AuthorizeKeeps, OpenKeeps,
       LeaveKeeps, Zenon
  <2>5. CASE UNCHANGED vars
    <3>1. UNCHANGED <<engineVars, phase, proto, queue, lagged, cached, ready, issued, device,
                      missedClean, leaves>>
      BY <2>5, Zenon DEF vars, recvVars, workVars
    <3>2. EngineTypeOK'
      BY <3>1, EngineTypes, Zenon DEF FlowInv
    <3>3. EngineInv' /\ (Settled' => Settled) /\ current_template' = current_template
      BY <3>1, Zenon DEF FlowInv, EngineInv, Settled, engineVars
    <3> QED
      BY <3>1, <3>2, <3>3, SettledKeeps, Zenon DEF recvVars, workVars
  <2> QED
    BY <2>1, <2>2, <2>3, <2>4, <2>5, Zenon DEF Next
<1> QED
  BY <1>1, <1>2, PTL DEF Spec

(* A session that has read all its broadcasts holds the engine's template and *)
(* its newest job is on it, for any number of sessions, any ring and any      *)
(* order of their steps (session.rs:185-195, engine.rs:253-284).              *)
THEOREM MinersAreCurrent == Spec => []DrainedIsCurrent
<1>1. FlowInv => DrainedIsCurrent
  <2> SUFFICES ASSUME FlowInv, NEW s \in Sessions, Drained(s), current_template # NoTemplate
               PROVE  /\ cached[s] = current_template
                      /\ ready[s] => Working(s, current_template)
    BY Zenon DEF DrainedIsCurrent
  <2>1. Settled /\ SessionInv(s)
    BY Zenon DEF FlowInv, Settled, Drained
  <2> QED
    BY <2>1, Zenon DEF SessionInv, UpToDate, Steady, Drained, Working
<1> QED
  BY <1>1, FlowInvHolds, PTL

(* And every job it would still credit, and its device, is on that tip, unless *)
(* it was overrun past a clean broadcast (engine.rs:529-546, session.rs:320).  *)
THEOREM MinersAreOnOneTip == Spec => []DrainedIsOnOneTip
<1>1. FlowInv => DrainedIsOnOneTip
  <2> SUFFICES ASSUME FlowInv, NEW s \in Sessions, Drained(s), ready[s],
                      current_template # NoTemplate, ~missedClean[s]
               PROVE  /\ device[s] = current_template
                      /\ \A i \in DOMAIN issued[s] :
                             ~issued[s][i].superseded_by_clean =>
                                 issued[s][i].job = current_template
    BY Zenon DEF DrainedIsOnOneTip
  <2>1. Settled /\ SessionInv(s) /\ TypeOK
    BY Zenon DEF FlowInv, Settled, Drained
  <2>2. Clean(queue[s]) = {}
    BY DEF Clean, Drained
  <2>3. device[s] = current_template /\ LiveOn(issued[s], current_template)
    BY <2>1, <2>2, Zenon DEF SessionInv, UpToDate, Drained
  <2>4. DOMAIN issued[s] = 1 .. Len(issued[s])
    BY <2>1, Typed
  <2> QED
    BY <2>3, <2>4, Zenon DEF LiveOn
<1> QED
  BY <1>1, FlowInvHolds, PTL

-----------------------------------------------------------------------------
(* The fate of a found block *)

(* Too deep on the active chain, or too far behind it, for a reorg. *)
Buried(b) == b \in onChain /\ HeightOf[b] + Depth <= chainHeight + 1
LeftBehind(b) == b \notin onChain /\ HeightOf[b] + Depth <= chainHeight

(* What the sweep holds between its calls is still good when it is used.   *)
ProbeSound ==
    LET b == probe.block IN
    /\ probe.pc \in {"tip", "decide"} => b \in Finds /\ b \notin todo
    /\ probe.pc = "tip" =>
          /\ probe.confirmations >= Depth => Buried(b)
          /\ probe.confirmations < 0 /\ ~probe.returned => b \notin onChain
    /\ probe.pc = "decide" =>
          /\ probe.position = "on_chain" /\ probe.confirmations >= Depth => Buried(b)
          /\ /\ probe.position = "side_branch"
             /\ probe.tip_height >= HeightOf[b] + Depth
             /\ ~probe.returned
             => LeftBehind(b)

VerdictsSound ==
    \A b \in Finds :
        /\ resolution[b] = "confirmed" => Buried(b)
        /\ resolution[b] = "orphaned" /\ b \notin straddled => LeftBehind(b)

LadderSound ==
    /\ won \subseteq wasOn
    /\ \A b \in Finds :
          /\ ladder[b].pc = "record" /\ IsWin(ladder[b].outcome) => b \in wasOn
          /\ ladder[b].pc = "rejected" => b \in invalid
          /\ ladder[b].pc = "unfound" => ladder[b].attempts = 0
          /\ ladder[b].pc = "inline" => ladder[b].attempts < InlineAttempts

FateInv == FateTypeOK /\ ProbeSound /\ VerdictsSound /\ LadderSound

(* What every step of the node grants the pool. *)
ChainKeeps ==
    /\ NodeTypeOK'
    /\ \A c \in Finds : Buried(c) => Buried(c)'
    /\ \A c \in Finds : LeftBehind(c) => LeftBehind(c)'
    /\ wasOn \subseteq wasOn'
    /\ invalid' = invalid

USE ChainNodeAssumption, BlockFateAssumption

-----------------------------------------------------------------------------
(* submitblock never disconnects anything, and connects only above the tip *)
(* (submit_block and a late submission that lands).                        *)
LEMMA SubmitKeeps ==
    ASSUME NodeTypeOK, NEW b \in Finds, NEW answer \in Answers,
           SubmitBlock(b, answer), wire' \subseteq Finds, invalid' = invalid
    PROVE  ChainKeeps
<1>1. CASE UNCHANGED chainVars
  BY <1>1, Zenon DEF ChainKeeps, NodeTypeOK, Buried, LeftBehind, chainVars
<1>2. CASE b \notin stored \cup invalid /\ ConnectBlock(b)
  <2>1. NodeTypeOK'
    BY <1>2 DEF NodeTypeOK, ConnectBlock
  <2>2. \A c \in Finds : Buried(c) => Buried(c)'
    BY <1>2 DEF NodeTypeOK, ConnectBlock, Buried
  <2>3. \A c \in Finds : LeftBehind(c) => LeftBehind(c)'
    BY <1>2 DEF NodeTypeOK, ConnectBlock, LeftBehind
  <2> QED
    BY <1>2, <2>1, <2>2, <2>3, Zenon DEF ChainKeeps, ConnectBlock
<1>3. CASE b \notin stored \cup invalid /\ KeepAside(b)
  BY <1>3 DEF ChainKeeps, NodeTypeOK, Buried, LeftBehind, KeepAside
<1> QED
  BY <1>1, <1>2, <1>3, Zenon DEF SubmitBlock

(* A reorg shallower than Depth reaches neither a buried block nor one     *)
(* that was left behind.                                                   *)
LEMMA ReorgKeeps ==
    ASSUME NodeTypeOK, NEW k \in 1..MaxReorg, NEW newTip \in 1..MaxTip,
           NEW back \in SUBSET released, Reorg(k, newTip, back)
    PROVE  ChainKeeps
<1>0. k \in Nat /\ k < Depth /\ Depth \in Nat /\ newTip \in Nat
  OBVIOUS
<1>1. NodeTypeOK'
  BY <1>0 DEF NodeTypeOK, Reorg
<1>2. ASSUME NEW c \in Finds, Buried(c) PROVE Buried(c)'
  BY <1>0, <1>2 DEF NodeTypeOK, Reorg, Buried
<1>3. ASSUME NEW c \in Finds, LeftBehind(c) PROVE LeftBehind(c)'
  BY <1>0, <1>3 DEF NodeTypeOK, Reorg, LeftBehind
<1> QED
  BY <1>1, <1>2, <1>3, Zenon DEF ChainKeeps, Reorg

(* All of the environment's moves on the node. *)
LEMMA MovesKeep ==
    ASSUME NodeTypeOK, NodeMoves
    PROVE  ChainKeeps
<1>1. CASE Extend
  BY <1>1 DEF ChainKeeps, NodeTypeOK, Buried, LeftBehind, Extend
<1>2. CASE Forget
  BY <1>2, Zenon DEF ChainKeeps, NodeTypeOK, Buried, LeftBehind, Forget
<1>3. ASSUME NEW b \in Finds, WireLands(b) PROVE ChainKeeps
  <2>1. PICK answer \in Answers : SubmitBlock(b, answer)
    BY <1>3, Zenon DEF WireLands
  <2> QED
    BY <1>3, <2>1, SubmitKeeps, Zenon DEF WireLands, NodeTypeOK
<1> QED
  BY <1>1, <1>2, <1>3, ReorgKeeps, Zenon DEF NodeMoves

-----------------------------------------------------------------------------
LadderType == [pc : LadderStates, attempts : 0..MaxAttempts,
               outcome : Outcomes \cup {"none", "rejected"}]
ProbeType == [pc : {"idle", "next", "tip", "decide"}, block : Finds \cup {"none"},
              position : {"none", "on_chain", "side_branch", "unknown"},
              confirmations : Int, tip_height : Nat, returned : BOOLEAN]

(* While the chain moves, what the sweep holds and what it decided stand.  *)
LEMMA VerdictsOutliveTheChain ==
    ASSUME FateInv, ChainKeeps, Watched, UNCHANGED <<todo, resolution, straddled>>
    PROVE  /\ probe' \in ProbeType
           /\ probe'.pc = probe.pc /\ probe'.block = probe.block
           /\ ProbeSound'
           /\ VerdictsSound'
<1>1. probe \in ProbeType
  BY Zenon DEF FateInv, FateTypeOK, ProbeType
<1>2. /\ probe' \in ProbeType
      /\ probe'.pc = probe.pc /\ probe'.block = probe.block
      /\ probe'.position = probe.position /\ probe'.confirmations = probe.confirmations
      /\ probe'.tip_height = probe.tip_height
      /\ probe'.returned = (probe.returned \/ (probe.pc = "tip" /\ probe.block \in onChain'))
  BY <1>1, Zenon DEF Watched, ProbeType
<1>3. ProbeSound'
  <2>1. CASE probe.pc = "tip"
    BY <1>2, <2>1, Zenon DEF FateInv, ProbeSound, ChainKeeps
  <2>2. CASE probe.pc = "decide"
    BY <1>2, <2>2, Zenon DEF FateInv, ProbeSound, ChainKeeps
  <2> QED
    BY <1>2, <2>1, <2>2, Zenon DEF ProbeSound
<1>4. VerdictsSound'
  BY Zenon DEF FateInv, VerdictsSound, ChainKeeps
<1> QED
  BY <1>2, <1>3, <1>4, Zenon

(* The steps of the ladder that make no call that is answered, the archive *)
(* and the clock.                                                          *)
LEMMA LadderStep ==
    ASSUME FateInv, NEW b \in Finds,
           \/ FindBlock(b) \/ ArchiveWritten(b) \/ ArchiveFails(b) \/ AttemptFails(b)
           \/ GiveUp(b) \/ RecordBlockOutcome(b) \/ Ages(b)
    PROVE  FateInv'
<1>0. ladder \in [Finds -> LadderType]
  BY Zenon DEF FateInv, FateTypeOK, LadderType
<1>1. /\ UNCHANGED <<chainVars, invalid>> /\ UNCHANGED sweepVars
      /\ wire' \subseteq Finds
      /\ pending \subseteq pending' /\ pending' \subseteq Finds /\ aged' \subseteq Finds
      /\ failures' \in Nat /\ restarts' \in Nat
  BY DEF FateInv, FateTypeOK, NodeTypeOK, FindBlock, ArchiveWritten, ArchiveFails, AttemptFails,
         GiveUp, RecordBlockOutcome, Ages, chainNodeVars, ladderVars
<1>2. ProbeSound' /\ VerdictsSound'
  BY <1>1, Zenon DEF FateInv, ProbeSound, VerdictsSound, Buried, LeftBehind, chainVars, sweepVars
<1>3. ladder' \in [Finds -> LadderType]
  <2>1. CASE AttemptFails(b)
    <3>1. ladder[b].attempts + 1 \in 0..MaxAttempts
      BY <1>0, <2>1 DEF FateInv, LadderSound, AttemptFails, Attempting, LadderType
    <3> QED
      BY <1>0, <2>1, <3>1, Zenon DEF AttemptFails, LadderType, LadderStates
  <2>2. CASE FindBlock(b) \/ GiveUp(b) \/ RecordBlockOutcome(b)
    BY <1>0, <2>2 DEF FindBlock, GiveUp, RecordBlockOutcome, LadderType, LadderStates
  <2>3. CASE ArchiveWritten(b) \/ ArchiveFails(b) \/ Ages(b)
    BY <1>0, <2>3, Zenon DEF ArchiveWritten, ArchiveFails, Ages, ladderVars
  <2> QED
    BY <2>1, <2>2, <2>3, Zenon
<1>4. /\ archive' \in [Finds -> {"none", "writing", "written", "failed", "torn"}]
      /\ won' \subseteq Finds
  BY DEF FateInv, FateTypeOK, FindBlock, ArchiveWritten, ArchiveFails, AttemptFails,
         GiveUp, RecordBlockOutcome, Ages, ladderVars
<1>5. FateTypeOK'
  <2>1. NodeTypeOK'
    BY <1>1, Zenon DEF FateInv, FateTypeOK, NodeTypeOK, chainVars
  <2> QED
    BY <1>1, <1>3, <1>4, <2>1, Zenon DEF FateInv, FateTypeOK, LadderType, sweepVars
<1>6. LadderSound'
  <2>1. CASE AttemptFails(b) \/ FindBlock(b) \/ GiveUp(b)
    BY <1>0, <1>1, <2>1 DEF FateInv, LadderSound, AttemptFails, FindBlock, GiveUp,
       LadderType, chainVars
  <2>2. CASE RecordBlockOutcome(b)
    BY <1>0, <1>1, <2>2 DEF FateInv, LadderSound, RecordBlockOutcome, LadderType, chainVars
  <2>3. CASE ArchiveWritten(b) \/ ArchiveFails(b) \/ Ages(b)
    BY <1>1, <2>3, Zenon DEF FateInv, LadderSound, ArchiveWritten, ArchiveFails, Ages, ladderVars,
       chainVars
  <2> QED
    BY <2>1, <2>2, <2>3, Zenon
<1> QED
  BY <1>2, <1>5, <1>6, Zenon DEF FateInv

(* An answered attempt: what classify_submit_response reads as a win has   *)
(* been the tip, what it reads as a refusal is invalid.                    *)
LEMMA AnsweredStep ==
    ASSUME FateInv, NEW b \in Finds, Answered(b)
    PROVE  FateInv'
<1>0. ladder \in [Finds -> LadderType] /\ NodeTypeOK
  BY Zenon DEF FateInv, FateTypeOK, LadderType
<1> PICK answer \in Answers, stray \in {{}, {b}} :
          /\ SubmitBlock(b, answer)
          /\ wire' = wire \cup stray
          /\ ladder' = [ladder EXCEPT ![b] =
                [pc |-> IF ClassifySubmitResponse(answer) = "rejected"
                        THEN "rejected" ELSE "record",
                 attempts |-> ladder[b].attempts + 1,
                 outcome |-> ClassifySubmitResponse(answer)]]
  BY Zenon DEF Answered
<1> DEFINE outcome == ClassifySubmitResponse(answer)
<1>1. ChainKeeps
  BY <1>0, SubmitKeeps DEF Answered, NodeTypeOK
<1>2. /\ probe' \in ProbeType
      /\ probe'.pc = probe.pc /\ probe'.block = probe.block
      /\ ProbeSound' /\ VerdictsSound'
  BY <1>1, VerdictsOutliveTheChain, Zenon DEF Answered
<1>3. ladder[b].attempts + 1 \in 0..MaxAttempts
  BY <1>0 DEF FateInv, LadderSound, Answered, Attempting, LadderType
<1>4. /\ outcome \in Outcomes \cup {"rejected"}
      /\ outcome \in {"accepted", "duplicate"} => b \in wasOn'
      /\ outcome = "rejected" => b \in invalid
  BY <1>0, Zenon DEF Answers, ClassifySubmitResponse, Outcomes, SubmitBlock, ConnectBlock, NodeTypeOK,
     chainVars
<1>5. ladder' \in [Finds -> LadderType]
  BY <1>0, <1>3, <1>4, Zenon DEF LadderType, LadderStates
<1>6. FateTypeOK'
  BY <1>1, <1>2, <1>5, Zenon DEF FateInv, FateTypeOK, ChainKeeps, LadderType, ProbeType, Answered
<1>7. LadderSound'
  <2>1. ASSUME NEW c \in Finds, c # b PROVE ladder'[c] = ladder[c]
    BY <1>0, <2>1, Zenon
  <2>2. /\ ladder'[b].pc = IF outcome = "rejected" THEN "rejected" ELSE "record"
        /\ ladder'[b].outcome = outcome
    BY <1>0, Zenon
  <2>3. won' = won /\ wasOn \subseteq wasOn' /\ invalid' = invalid
    BY <1>1, Zenon DEF Answered, ChainKeeps
  <2>4. ASSUME NEW c \in Finds
        PROVE  /\ ladder'[c].pc = "record" /\ IsWin(ladder'[c].outcome) => c \in wasOn'
               /\ ladder'[c].pc = "rejected" => c \in invalid'
               /\ ladder'[c].pc = "unfound" => ladder'[c].attempts = 0
               /\ ladder'[c].pc = "inline" => ladder'[c].attempts < InlineAttempts
    <3>1. CASE c = b
      BY <1>4, <2>2, <2>3, <3>1 DEF IsWin, Outcomes
    <3>2. CASE c # b
      BY <2>1, <2>3, <3>2, Zenon DEF FateInv, LadderSound
    <3> QED
      BY <3>1, <3>2, Zenon
  <2> QED
    BY <2>3, <2>4, Zenon DEF FateInv, LadderSound, IsWin
<1> QED
  BY <1>2, <1>6, <1>7, Zenon DEF FateInv

(* Between blocks and between sweeps the probe holds nothing. *)
LEMMA ProbeAtRest ==
    /\ ProbeIdle \in ProbeType /\ ProbeIdle.pc = "idle"
    /\ ProbeNext \in ProbeType /\ ProbeNext.pc = "next"
<1>1. ProbeIdle \in ProbeType /\ ProbeIdle.pc = "idle"
  BY DEF ProbeIdle, Probe, ProbeType
<1>2. ProbeNext \in ProbeType /\ ProbeNext.pc = "next"
  BY DEF ProbeNext, Probe, ProbeType
<1> QED
  BY <1>1, <1>2, Zenon

(* The sweep's steps that decide nothing. *)
LEMMA ProbeStep ==
    ASSUME FateInv,
           \/ SweepStarts \/ SweepEnds \/ (\E b \in Finds : ProbeHeader(b))
           \/ ProbeTip \/ ProbeFails
    PROVE  FateInv'
<1>0. /\ probe \in ProbeType /\ NodeTypeOK
      /\ todo \subseteq pending /\ pending \subseteq Finds
  BY Zenon DEF FateInv, FateTypeOK, ProbeType
<1>1. /\ UNCHANGED <<chainNodeVars, ladderVars, resolution, straddled, aged>>
      /\ failures' \in Nat /\ restarts' \in Nat
  <2>1. failures \in Nat /\ restarts \in Nat
    BY Zenon DEF FateInv, FateTypeOK
  <2>2. CASE ProbeFails
    BY <2>1, <2>2 DEF ProbeFails
  <2>3. CASE SweepStarts \/ SweepEnds \/ ProbeTip
    BY <2>1, <2>3, Zenon DEF SweepStarts, SweepEnds, ProbeTip
  <2>4. ASSUME NEW b \in Finds, ProbeHeader(b)
        PROVE  /\ UNCHANGED <<chainNodeVars, ladderVars, resolution, straddled, aged>>
               /\ failures' \in Nat /\ restarts' \in Nat
    BY <2>1, <2>4, Zenon DEF ProbeHeader
  <2> QED
    BY <2>2, <2>3, <2>4, Zenon
<1>2. VerdictsSound' /\ LadderSound'
  BY <1>1, Zenon DEF FateInv, VerdictsSound, LadderSound, Buried, LeftBehind, chainNodeVars, chainVars,
     ladderVars
<1>3. /\ probe' \in ProbeType /\ todo' \subseteq pending
      /\ probe'.pc \in {"tip", "decide"} => probe'.block \in pending
      /\ ProbeSound'
  <2>1. CASE SweepStarts \/ SweepEnds \/ ProbeFails
    <3>0. probe' \in {ProbeIdle, ProbeNext}
      BY <2>1, Zenon DEF SweepStarts, SweepEnds, ProbeFails
    <3>1. probe' \in ProbeType /\ probe'.pc \in {"idle", "next"}
      BY <3>0, ProbeAtRest, Zenon
    <3>2. todo' \subseteq pending
      BY <1>0, <2>1 DEF FateInv, FateTypeOK, SweepStarts, SweepEnds, ProbeFails
    <3> QED
      BY <3>1, <3>2, Zenon DEF ProbeSound
  <2>2. ASSUME NEW b \in Finds, ProbeHeader(b)
        PROVE  /\ probe' \in ProbeType /\ todo' \subseteq pending
               /\ probe'.pc \in {"tip", "decide"} => probe'.block \in pending
               /\ ProbeSound'
    <3>1. /\ Confirmations(b) \in Int
          /\ Confirmations(b) >= Depth => Buried(b)
          /\ Confirmations(b) < 0 => b \notin onChain
      BY <1>0 DEF Confirmations, NodeTypeOK, Buried
    <3>2. /\ probe' \in ProbeType /\ probe'.block = b
          /\ todo' = todo \ {b} /\ b \in pending
          /\ probe'.pc = "tip" => probe'.confirmations = Confirmations(b)
          /\ probe'.pc = "decide" => probe'.position = "unknown"
      <4>1. todo' = todo \ {b} /\ b \in pending
        BY <1>0, <2>2, Zenon DEF ProbeHeader
      <4>2. CASE b \in stored
        <5>1. probe' = Probe("tip", b, "none", Confirmations(b))
          BY <2>2, <4>2, Zenon DEF ProbeHeader
        <5> QED
          BY <3>1, <4>1, <5>1, Zenon DEF Probe, ProbeType
      <4>3. CASE b \notin stored
        <5>1. probe' = Probe("decide", b, "unknown", 0)
          BY <2>2, <4>3, Zenon DEF ProbeHeader
        <5> QED
          BY <4>1, <5>1 DEF Probe, ProbeType
      <4> QED
        BY <4>2, <4>3, Zenon
    <3> QED
      BY <1>0, <1>1, <3>1, <3>2, Zenon DEF ProbeSound, Buried, LeftBehind, chainNodeVars, chainVars
  <2>3. CASE ProbeTip
    <3>1. /\ probe' \in ProbeType /\ probe.pc = "tip" /\ probe'.pc = "decide"
          /\ probe'.block = probe.block /\ probe'.confirmations = probe.confirmations
          /\ probe'.returned = probe.returned /\ probe'.tip_height = chainHeight
          /\ probe'.position = "side_branch" => probe.confirmations < 0
          /\ todo' = todo
      BY <1>0, <2>3, Zenon DEF ProbeTip, ProbeType, NodeTypeOK
    <3> QED
      BY <1>0, <1>1, <3>1, Zenon DEF FateInv, FateTypeOK, ProbeSound, Buried, LeftBehind, chainNodeVars,
         chainVars, NodeTypeOK
  <2> QED
    BY <2>1, <2>2, <2>3, Zenon
<1>4. FateTypeOK'
  BY <1>1, <1>3, Zenon DEF FateInv, FateTypeOK, NodeTypeOK, ProbeType, chainNodeVars, chainVars, ladderVars
<1> QED
  BY <1>2, <1>3, <1>4, Zenon DEF FateInv

(* The step that decides: classify_confirmation on what the probe holds. *)
LEMMA DecideStep ==
    ASSUME FateInv, Decide
    PROVE  FateInv'
<1> DEFINE b == probe.block
           verdict == ClassifyConfirmation(probe.position, probe.confirmations,
                                           probe.tip_height, HeightOf[b])
           final == IF verdict = "pending" /\ IsAbandoned THEN "abandoned" ELSE verdict
<1>0. /\ probe \in ProbeType /\ probe.pc = "decide" /\ b \in Finds /\ b \notin todo
      /\ resolution \in [Finds -> Resolutions \cup {"none"}]
      /\ todo \subseteq pending /\ pending \subseteq Finds
  BY Zenon DEF FateInv, FateTypeOK, ProbeSound, ProbeType, Decide
<1>1. /\ UNCHANGED <<chainNodeVars, ladder, archive, won, todo, aged, failures, restarts>>
      /\ probe' \in ProbeType /\ probe'.pc = "next"
  BY DEF Decide, ProbeIdle, ProbeNext, Probe, ProbeType
<1>2. /\ final \in Resolutions \cup {"pending"}
      /\ final = "confirmed" => Buried(b)
      /\ final = "orphaned" /\ ~probe.returned => LeftBehind(b)
  BY <1>0, Zenon DEF FateInv, ProbeSound, ClassifyConfirmation, Resolutions, ProbeType
<1>3. \/ final = "pending" /\ UNCHANGED <<pending, resolution, straddled>>
      \/ /\ final # "pending"
         /\ pending' = pending \ {b}
         /\ resolution' = [resolution EXCEPT ![b] = final]
         /\ straddled' = IF probe.returned THEN straddled \cup {b} ELSE straddled
  BY Zenon DEF Decide
<1> HIDE DEF final
<1>4. VerdictsSound'
  <2>1. ASSUME NEW c \in Finds
        PROVE  /\ resolution'[c] = "confirmed" => Buried(c)
               /\ resolution'[c] = "orphaned" /\ c \notin straddled' => LeftBehind(c)
    <3>1. CASE c = b /\ final # "pending"
      BY <1>0, <1>2, <1>3, <3>1, Zenon
    <3>2. CASE ~(c = b /\ final # "pending")
      <4>1. resolution'[c] = resolution[c] /\ straddled \subseteq straddled'
        BY <1>0, <1>3, <3>2, Zenon
      <4> QED
        BY <4>1, Zenon DEF FateInv, VerdictsSound
    <3> QED
      BY <3>1, <3>2, Zenon
  <2> QED
    BY <1>1, <2>1, Zenon DEF VerdictsSound, Buried, LeftBehind, chainNodeVars, chainVars
<1>5. FateTypeOK'
  <2>1. /\ resolution' \in [Finds -> Resolutions \cup {"none"}]
        /\ pending' \subseteq Finds /\ todo' \subseteq pending' /\ straddled' \subseteq Finds
    BY <1>0, <1>1, <1>2, <1>3 DEF FateInv, FateTypeOK
  <2> QED
    BY <1>1, <2>1, Zenon DEF FateInv, FateTypeOK, NodeTypeOK, ProbeType, chainNodeVars, chainVars
<1>6. ProbeSound' /\ LadderSound'
  BY <1>1, Zenon DEF FateInv, ProbeSound, LadderSound, chainNodeVars, chainVars
<1> QED
  BY <1>4, <1>5, <1>6, Zenon DEF FateInv

(* The node's own moves. *)
LEMMA EnvironmentStep ==
    ASSUME FateInv, Environment
    PROVE  FateInv'
<1>1. ChainKeeps
  BY MovesKeep, Zenon DEF FateInv, FateTypeOK, Environment
<1>2. /\ probe' \in ProbeType
      /\ probe'.pc = probe.pc /\ probe'.block = probe.block
      /\ ProbeSound' /\ VerdictsSound'
  BY <1>1, VerdictsOutliveTheChain, Zenon DEF Environment
<1>3. FateTypeOK'
  BY <1>1, <1>2, Zenon DEF FateInv, FateTypeOK, ChainKeeps, ProbeType, Environment, ladderVars
<1>4. LadderSound'
  BY <1>1, Zenon DEF FateInv, LadderSound, ChainKeeps, Environment, ladderVars
<1> QED
  BY <1>2, <1>3, <1>4, Zenon DEF FateInv

(* A death of the process. *)
LEMMA RestartStep ==
    ASSUME FateInv, Restart
    PROVE  FateInv'
<1>0. ladder \in [Finds -> LadderType]
  BY Zenon DEF FateInv, FateTypeOK, LadderType
<1>1. /\ UNCHANGED <<chainNodeVars, pending, won, resolution, straddled, aged, failures>>
      /\ probe' \in ProbeType /\ probe'.pc = "idle" /\ todo' = {} /\ restarts' \in Nat
  BY DEF FateInv, FateTypeOK, Restart, ProbeIdle, ProbeNext, Probe, ProbeType
<1>2. \A b \in Finds :
         \/ ladder'[b] = ladder[b]
         \/ ladder'[b] \in LadderType /\ ladder'[b].pc = "forgotten"
  BY <1>0 DEF Restart, LadderType, LadderStates
<1>3. ladder' \in [Finds -> LadderType]
  BY <1>0, <1>2, Zenon DEF Restart
<1>4. archive' \in [Finds -> {"none", "writing", "written", "failed", "torn"}]
  BY Zenon DEF FateInv, FateTypeOK, Restart
<1>5. FateTypeOK'
  BY <1>1, <1>3, <1>4, Zenon DEF FateInv, FateTypeOK, NodeTypeOK, ProbeType, LadderType,
     chainNodeVars, chainVars
<1>6. LadderSound'
  BY <1>1, <1>2, Zenon DEF FateInv, LadderSound, chainNodeVars, chainVars
<1>7. ProbeSound' /\ VerdictsSound'
  BY <1>1, Zenon DEF FateInv, ProbeSound, VerdictsSound, Buried, LeftBehind, chainNodeVars, chainVars
<1> QED
  BY <1>5, <1>6, <1>7, Zenon DEF FateInv

-----------------------------------------------------------------------------
(* FateInv is inductive. *)
LEMMA FateStarts == FateInit => FateInv
<1> SUFFICES ASSUME FateInit PROVE FateInv
  BY Zenon
<1>1. FateTypeOK
  BY DEF FateInit, NodeInit, FateTypeOK, NodeTypeOK, Unfound, ProbeIdle, Probe, LadderStates
<1>2. ProbeSound /\ VerdictsSound /\ LadderSound
  BY Zenon DEF FateInit, NodeInit, ProbeSound, VerdictsSound, LadderSound, Unfound, ProbeIdle, Probe
<1> QED
  BY <1>1, <1>2, Zenon DEF FateInv

\* Every step of pool, node and chain keeps the invariant of submission and confirmation.
LEMMA FateStep == FateInv /\ [FateNext]_fateVars => FateInv'
<1> SUFFICES ASSUME FateInv, [FateNext]_fateVars PROVE FateInv'
  BY Zenon
<1>1. CASE UNCHANGED fateVars
  BY <1>1, Zenon DEF FateInv, FateTypeOK, NodeTypeOK, ProbeSound, VerdictsSound, LadderSound, Buried,
     LeftBehind, fateVars, chainNodeVars, chainVars, ladderVars, sweepVars
<1>2. CASE FateNext
  BY <1>2, LadderStep, AnsweredStep, ProbeStep, DecideStep, EnvironmentStep, RestartStep, Zenon
     DEF FateNext, Sweep
<1> QED
  BY <1>1, <1>2, Zenon

\* It holds throughout.
LEMMA FateAlways == FateSpec => []FateInv
  BY FateStarts, FateStep, PTL DEF FateSpec

(* The states of the ladder, the sweep and the node keep their types, for  *)
(* any number of blocks, attempts and restarts.                            *)
THEOREM FateTypeCorrect == FateSpec => []FateTypeOK
<1>1. FateInv => FateTypeOK
  BY Zenon DEF FateInv
<1> QED
  BY <1>1, FateAlways, PTL

(* classify_confirmation's confirmed is final: at any depth, with reorgs   *)
(* shallower than it, a confirmed block stays on the active chain however  *)
(* the sweep's calls interleave with the chain.                            *)
THEOREM ConfirmedIsFinal == FateSpec => []ConfirmedStays
<1>1. FateInv => ConfirmedStays
  BY Zenon DEF FateInv, VerdictsSound, Buried, ConfirmedStays
<1> QED
  BY <1>1, FateAlways, PTL

(* So is its orphaned, but for the block that returned to the chain while  *)
(* block_chain_position was between its two calls.                         *)
THEOREM OrphanedIsFinal == FateSpec => []OrphanedStaysOff
<1>1. FateInv => OrphanedStaysOff
  BY Zenon DEF FateInv, VerdictsSound, LeftBehind, OrphanedStaysOff
<1> QED
  BY <1>1, FateAlways, PTL

(* However attempts time out, land late and are repeated, a block counted  *)
(* as a win by record_block_outcome has been the tip, and a block the node *)
(* has taken is not written off as refused.                                *)
THEOREM OutcomesAreTrue == FateSpec => []OutcomeIsTrue
<1>1. FateInv => OutcomeIsTrue
  BY Zenon DEF FateInv, FateTypeOK, NodeTypeOK, LadderSound, OutcomeIsTrue
<1> QED
  BY <1>1, FateAlways, PTL
================================================================================
