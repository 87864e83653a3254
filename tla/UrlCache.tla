------------------------------ MODULE UrlCache ------------------------------
(***************************************************************************)
(* services/urls/functions.py: get_base_url and its cache, a dict of the   *)
(* Python module keyed by id(client).  id() is the object's address: two   *)
(* live objects never share one, but an address is free again when its     *)
(* object is collected, and nothing removes the entry it has in the cache. *)
(*                                                                         *)
(* A call holds a reference to its client.  The lookup, the server's       *)
(* answer and the store are separate actions.  get_record_url and          *)
(* get_portal_url build their URLs on the base that get_base_url gives     *)
(* them, the latter after it has read the record.                          *)
(***************************************************************************)
EXTENDS Naturals, FiniteSets

CONSTANTS
    Client,         \* OdooClient objects
    Address,        \* what id() returns
    Server,         \* the Odoo server a client is configured for
    Version,        \* values an administrator gives web.base.url in turn
    GetBaseUrl,     \* invocations of the three functions, each with one of get_base_url
    NONE

ASSUME UrlConstants == NONE \notin Server /\ NONE \notin Address

VARIABLES
    address,        \* address of each client object that exists
    server,         \* configuration of each client
    base_url,       \* each server's parameter
    _base_url_cache,
    pc, client, force_refresh, answer, result,
    record          \* access_url and access_token that get_portal_url has read

\* History: the values a call's own server has had since the call began, the
\* clients that have ever been at an address, and those that were at a client's
\* before it.
VARIABLES current, tenants, before

callVars == <<pc, client, force_refresh, answer, result, record, current>>
vars == <<address, tenants, before, server, base_url, _base_url_cache, callVars>>

Init ==
    /\ address = [c \in Client |-> NONE]
    /\ tenants = [a \in Address |-> {}]
    /\ before = [c \in Client |-> {}]
    /\ server \in [Client -> Server]
    /\ base_url \in [Server -> Version \cup {"unset"}]
    /\ _base_url_cache = [a \in Address |-> NONE]
    /\ pc = [g \in GetBaseUrl |-> "idle"]
    /\ client = [g \in GetBaseUrl |-> NONE]
    /\ force_refresh = [g \in GetBaseUrl |-> FALSE]
    /\ answer = [g \in GetBaseUrl |-> NONE]
    /\ result = [g \in GetBaseUrl |-> NONE]
    /\ record = [g \in GetBaseUrl |-> NONE]
    /\ current = [g \in GetBaseUrl |-> {}]

UrlOf(s) == [server |-> s, version |-> base_url[s]]

Live == {c \in Client : address[c] # NONE}

\* OdooClient(config)
NewClient(c, a) ==
    /\ \A b \in Address : c \notin tenants[b]
    /\ \A d \in Live : address[d] # a
    /\ tenants' = [tenants EXCEPT ![a] = @ \cup {c}]
    /\ before' = [before EXCEPT ![c] = @ \cup tenants[a]]
    /\ address' = [address EXCEPT ![c] = a]
    /\ UNCHANGED <<server, base_url, _base_url_cache, callVars>>

\* The last reference goes.  No code of urls/functions.py runs.
Collect(c) ==
    /\ c \in Live
    /\ \A g \in GetBaseUrl : client[g] = c => pc[g] \in {"done", "failed"}
    /\ address' = [address EXCEPT ![c] = NONE]
    /\ UNCHANGED <<tenants, before, server, base_url, _base_url_cache, callVars>>

\* An administrator sets the parameter.
SetParameter(s, v) ==
    /\ v # base_url[s]
    /\ base_url' = [base_url EXCEPT ![s] = v]
    /\ current' = [g \in GetBaseUrl |->
                     IF pc[g] \in {"record", "fetch", "store"} /\ server[client[g]] = s
                     THEN current[g] \cup {[server |-> s, version |-> v]}
                     ELSE current[g]]
    /\ UNCHANGED <<address, tenants, before, server, _base_url_cache, pc, client,
                   force_refresh, answer, result, record>>

\* Fault: one entry for all clients.
CacheKey_Shared(c) == CHOOSE a \in Address : TRUE

CacheKey(c) == address[c]

\* Fault: force_refresh is ignored.
UseCache_Always(c, force) == _base_url_cache[CacheKey(c)] # NONE

UseCache(c, force) == ~force /\ _base_url_cache[CacheKey(c)] # NONE

\* get_base_url up to its first await: a cached value is the answer.
LookUp(g, c, force) ==
    \/ /\ UseCache(c, force)
       /\ result' = [result EXCEPT ![g] = _base_url_cache[CacheKey(c)]]
       /\ pc' = [pc EXCEPT ![g] = "done"]
    \/ /\ ~UseCache(c, force)
       /\ pc' = [pc EXCEPT ![g] = "fetch"]
       /\ UNCHANGED result

Begin(g, c, force) ==
    /\ pc[g] = "idle"
    /\ c \in Live
    /\ client' = [client EXCEPT ![g] = c]
    /\ force_refresh' = [force_refresh EXCEPT ![g] = force]
    /\ current' = [current EXCEPT ![g] = {UrlOf(server[c])}]
    /\ UNCHANGED <<address, tenants, before, server, base_url, _base_url_cache, answer, record>>

\* get_base_url, or get_record_url, which awaits nothing else.
Call(g, c, force) == Begin(g, c, force) /\ LookUp(g, c, force)

\* get_portal_url: the record is read first.
CallPortal(g, c) ==
    /\ Begin(g, c, FALSE)
    /\ pc' = [pc EXCEPT ![g] = "record"]
    /\ UNCHANGED result

\* The record's access_url and, if it is asked for and there is one, its token,
\* which its server has made.  A record that is gone has neither.
Portal(s) == [access_url : BOOLEAN, access_token : {s, NONE}]

ReadRecord(g) ==
    /\ pc[g] = "record"
    /\ \E r \in Portal(server[client[g]]) : record' = [record EXCEPT ![g] = r]
    /\ LookUp(g, client[g], FALSE)
    /\ UNCHANGED <<address, tenants, before, server, base_url, _base_url_cache, client,
                   force_refresh, answer, current>>

ServerReads(g) ==
    /\ pc[g] = "fetch"
    /\ answer' = [answer EXCEPT ![g] = UrlOf(server[client[g]])]
    /\ pc' = [pc EXCEPT ![g] = "store"]
    /\ UNCHANGED <<address, tenants, before, server, base_url, _base_url_cache, client,
                   force_refresh, result, record, current>>

\* The answer arrives, in whatever order answers do.
Store(g) ==
    /\ pc[g] = "store"
    /\ _base_url_cache' = [_base_url_cache EXCEPT ![CacheKey(client[g])] = answer[g]]
    /\ result' = [result EXCEPT ![g] = answer[g]]
    /\ answer' = [answer EXCEPT ![g] = NONE]
    /\ pc' = [pc EXCEPT ![g] = "done"]
    /\ UNCHANGED <<address, tenants, before, server, base_url, client, force_refresh, record,
                   current>>

Fail(g) ==
    /\ pc[g] \in {"record", "fetch", "store"}
    /\ answer' = [answer EXCEPT ![g] = NONE]
    /\ pc' = [pc EXCEPT ![g] = "failed"]
    /\ UNCHANGED <<address, tenants, before, server, base_url, _base_url_cache, client,
                   force_refresh, result, record, current>>

Next ==
    \/ \E c \in Client : Collect(c) \/ \E a \in Address : NewClient(c, a)
    \/ \E s \in Server, v \in Version : SetParameter(s, v)
    \/ \E g \in GetBaseUrl :
           \/ \E c \in Client, force \in BOOLEAN : Call(g, c, force)
           \/ \E c \in Client : CallPortal(g, c)
           \/ ReadRecord(g) \/ ServerReads(g) \/ Store(g) \/ Fail(g)

Spec == Init /\ [][Next]_vars

-----------------------------------------------------------------------------
(* The URLs themselves *)

\* The redirect get_record_url returns; its query names the record.
RecordUrl(base) == [base |-> base, path |-> "/mail/view", token |-> NONE]

\* get_portal_url takes the redirect for a record without an access_url; the
\* token, if there is one, is one more parameter of the query, or the first.
PortalUrl(base, r) ==
    LET url == IF r.access_url THEN [base |-> base, path |-> "access_url", token |-> NONE]
               ELSE RecordUrl(base)
    IN  [url EXCEPT !.token = r.access_token]

Url(g) == IF record[g] = NONE THEN RecordUrl(result[g]) ELSE PortalUrl(result[g], record[g])

-----------------------------------------------------------------------------
(* Properties *)

\* c may be given the URL of s: its own server, or that of a client that was at
\* its address before it.
Known(c, s) == s = server[c] \/ \E d \in before[c] : server[d] = s

\* No client of another server was at c's address before it.
Untainted(c) == \A d \in before[c] : server[d] = server[c]

\* get_base_url's docstring: "cached per client instance".  A client is given its
\* own server's address, or that of a server whose client was at the same address
\* in memory before it.  Except to such a server, a portal URL takes an access
\* token to no server but the one that has made it.
UrlOfOwnServer ==
    \A g \in GetBaseUrl :
        result[g] # NONE =>
            /\ Known(client[g], Url(g).base.server)
            /\ Url(g).token # NONE /\ Untainted(client[g]) =>
                   Url(g).token = Url(g).base.server

\* docs/services/urls.md: force_refresh "to bypass the cache".  What a forced
\* call returns was its server's value during the call, even while calls that
\* began earlier overwrite the cache.
ForcedIsCurrent ==
    \A g \in GetBaseUrl :
        force_refresh[g] /\ result[g] # NONE => result[g] \in current[g]

-----------------------------------------------------------------------------
(* The inductive invariant the proofs rest on *)

BaseUrl == [server : Server, version : Version \cup {"unset"}]

TypeOK ==
    /\ address \in [Client -> Address \cup {NONE}]
    /\ tenants \in [Address -> SUBSET Client]
    /\ before \in [Client -> SUBSET Client]
    /\ server \in [Client -> Server]
    /\ base_url \in [Server -> Version \cup {"unset"}]
    /\ _base_url_cache \in [Address -> BaseUrl \cup {NONE}]
    /\ pc \in [GetBaseUrl -> {"idle", "record", "fetch", "store", "done", "failed"}]
    /\ client \in [GetBaseUrl -> Client \cup {NONE}]
    /\ force_refresh \in [GetBaseUrl -> BOOLEAN]
    /\ answer \in [GetBaseUrl -> BaseUrl \cup {NONE}]
    /\ result \in [GetBaseUrl -> BaseUrl \cup {NONE}]
    /\ DOMAIN record = GetBaseUrl
    /\ current \in [GetBaseUrl -> SUBSET BaseUrl]

\* Clients are where they have been put, none at the address of another; and an
\* entry of the cache is the URL of the server of a client that has been at its
\* address.
CacheOK ==
    /\ \A c \in Live :
           c \in tenants[address[c]] /\ tenants[address[c]] \subseteq before[c] \cup {c}
    /\ \A c, d \in Live : address[c] = address[d] => c = d
    /\ \A a \in Address :
           _base_url_cache[a] # NONE =>
               \E d \in tenants[a] : server[d] = _base_url_cache[a].server

\* One call along its way: it keeps its client alive, what it reads was current
\* after it began, and what it returns is of a server its client knows.
CallOK(g) ==
    /\ pc[g] = "idle" => client[g] = NONE /\ record[g] = NONE
    /\ pc[g] # "idle" => client[g] \in Client
    /\ pc[g] \in {"idle", "record", "fetch", "store"} => result[g] = NONE
    /\ pc[g] \in {"record", "fetch", "store"} => client[g] \in Live
    /\ pc[g] = "record" => ~force_refresh[g]
    /\ pc[g] \in {"record", "fetch"} => UrlOf(server[client[g]]) \in current[g]
    /\ pc[g] = "store" => answer[g] \in current[g] /\ answer[g].server = server[client[g]]
    /\ result[g] # NONE =>
           /\ Known(client[g], result[g].server)
           /\ force_refresh[g] => result[g] \in current[g]
    /\ record[g] # NONE => record[g] \in Portal(server[client[g]])

UrlInv == TypeOK /\ CacheOK /\ \A g \in GetBaseUrl : CallOK(g)

=============================================================================
