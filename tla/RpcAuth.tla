------------------------------ MODULE RpcAuth ------------------------------
(***************************************************************************)
(* How the pool stays logged in to its node.  Every start of the node      *)
(* writes a new cookie, and the callers of the one RpcClient share its     *)
(* credentials; a call that fails looks for a changed cookie, replaces     *)
(* them and tries once more.                                               *)
(***************************************************************************)
EXTENDS Naturals

CONSTANTS
    Callers,            \* threads of the blocking pool with a call to make
    MaxStarts,          \* bound: starts of the node
    Unreadable,         \* the cookie file is missing, or None for Inner.cookie
    Explicit            \* user and password of the configuration

ASSUME AuthAssumption ==
    /\ MaxStarts \in Nat
    /\ Unreadable \notin Nat /\ Explicit \notin Nat /\ Explicit # Unreadable

VARIABLES
    node,               \* whether the node runs, and its starts, which number its cookies
    cookie_file,
    may_read, has_explicit,     \* the configuration
    client, cookie,     \* Inner: the credentials in use, and the cookie remembered
    opened,              \* how far RpcClient::new is
    call,               \* the callers' locals
    settled, outpaced   \* history: nothing happened to the node, or to the client, since a call began

rpc_config == <<may_read, has_explicit>>
calls == <<call, settled, outpaced>>
auth_vars == <<node, cookie_file, rpc_config, client, cookie, opened, calls>>

NoCall == [pc |-> "idle", fresh |-> Unreadable]

read_cookie == IF may_read THEN cookie_file ELSE Unreadable

\* The cookie file before the configuration.
rpc_auth == IF read_cookie # Unreadable THEN read_cookie
            ELSE IF has_explicit THEN Explicit ELSE Unreadable

AuthInit ==
    /\ node = [up |-> TRUE, starts |-> 1] /\ cookie_file = 1
    /\ may_read \in BOOLEAN /\ has_explicit \in BOOLEAN
    /\ client = Unreadable /\ cookie = Unreadable /\ opened = "new"
    /\ call = [c \in Callers |-> NoCall]
    /\ settled = [c \in Callers |-> FALSE] /\ outpaced = [c \in Callers |-> FALSE]

-----------------------------------------------------------------------------
(* The node *)

Accepts(credentials) == node.up /\ credentials \in {node.starts, Explicit}

\* A clean stop removes the cookie, a crash leaves it.
NodeStops ==
    /\ node.up /\ node.starts < MaxStarts
    /\ node' = [up |-> FALSE, starts |-> node.starts]
    /\ cookie_file' \in {cookie_file, Unreadable}
    /\ settled' = [c \in Callers |-> FALSE]
    /\ UNCHANGED <<rpc_config, client, cookie, opened, call, outpaced>>

NodeStarts ==
    /\ ~node.up
    /\ node' = [up |-> TRUE, starts |-> node.starts + 1]
    /\ cookie_file' = node.starts + 1
    /\ UNCHANGED <<rpc_config, client, cookie, opened, calls>>

-----------------------------------------------------------------------------
(* RpcClient::new reads the cookie to remember it, and again to log in. *)

NewReads ==
    /\ opened = "new"
    /\ cookie' = read_cookie /\ opened' = "build"
    /\ UNCHANGED <<node, cookie_file, rpc_config, client, calls>>

\* Without credentials the pool does not start.
NewBuilds ==
    /\ opened = "build" /\ rpc_auth # Unreadable
    /\ client' = rpc_auth /\ opened' = "open"
    /\ UNCHANGED <<node, cookie_file, rpc_config, cookie, calls>>

-----------------------------------------------------------------------------
(* call_with_refresh *)

Moves(c, pc, fresh) ==
    /\ call' = [call EXCEPT ![c] = [pc |-> pc, fresh |-> fresh]]
    /\ UNCHANGED <<node, cookie_file, rpc_config, opened>>

FirstTry(c) ==
    /\ opened = "open" /\ call[c].pc \in {"idle", "ok", "failed"}
    /\ Moves(c, IF Accepts(client) THEN "ok" ELSE "read", Unreadable)
    /\ settled' = [settled EXCEPT ![c] = node.up]
    /\ outpaced' = [outpaced EXCEPT ![c] = FALSE]
    /\ UNCHANGED <<client, cookie>>

ReadFresh(c) ==
    /\ call[c].pc = "read"
    /\ Moves(c, IF read_cookie = Unreadable THEN "failed" ELSE "compare", read_cookie)
    /\ UNCHANGED <<client, cookie, settled, outpaced>>

Compare(c) ==
    /\ call[c].pc = "compare"
    /\ Moves(c, IF cookie = call[c].fresh THEN "failed" ELSE "swap", call[c].fresh)
    /\ UNCHANGED <<client, cookie, settled, outpaced>>

\* Mutant: the new cookie is remembered and the old client kept.
MutClientKept(c) ==
    /\ call[c].pc = "swap"
    /\ Moves(c, "again", call[c].fresh)
    /\ cookie' = call[c].fresh
    /\ outpaced' = [d \in Callers |-> outpaced[d] \/ d # c]
    /\ UNCHANGED <<client, settled>>

Swap(c) ==
    /\ call[c].pc = "swap"
    /\ Moves(c, "again", call[c].fresh)
    /\ client' = call[c].fresh /\ cookie' = call[c].fresh
    /\ outpaced' = [d \in Callers |-> outpaced[d] \/ d # c]
    /\ UNCHANGED settled

SecondTry(c) ==
    /\ call[c].pc = "again"
    /\ Moves(c, IF Accepts(client) THEN "ok" ELSE "failed", Unreadable)
    /\ UNCHANGED <<client, cookie, settled, outpaced>>

AuthNext ==
    \/ NodeStops \/ NodeStarts \/ NewReads \/ NewBuilds
    \/ \E c \in Callers : FirstTry(c) \/ ReadFresh(c) \/ Compare(c) \/ Swap(c) \/ SecondTry(c)

AuthSpec == AuthInit /\ [][AuthNext]_auth_vars

-----------------------------------------------------------------------------
\* A restart of the node costs the pool nothing but the calls it interrupts
\* (call_with_refresh, "this recovers from a bitcoind restart without
\* operator intervention"): a call that fails while the cookie can be read
\* either saw the node down or restarted, or was outpaced by another call
\* that put in the new cookie first, in which case it compares equal and is
\* given up without its second try.
RestartIsRecovered ==
    \A c \in Callers : may_read /\ call[c].pc = "failed" => ~settled[c] \/ outpaced[c]
=============================================================================
