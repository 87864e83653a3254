--------------------------- MODULE UrlCache_proofs ---------------------------
(***************************************************************************)
(* Proofs about what a call keeps of an earlier answer of the server:      *)
(* UrlCache, for any number of clients, addresses, servers and calls, and  *)
(* then PropertiesUpdate, for any number of updates, records, names and    *)
(* values.                                                                 *)
(*                                                                         *)
(* The argument: a call keeps its client alive, and so at its address,     *)
(* until it ends; what it stores there is the URL of its client's server,  *)
(* and what it finds there was stored for a client that was at that        *)
(* address before (CacheOK).  What a call returns without the cache was    *)
(* its server's value when it was read, after the call began (CallOK).     *)
(***************************************************************************)
EXTENDS UrlCache, PropertiesUpdate, TLAPS

-----------------------------------------------------------------------------
(* Initial states and types *)

LEMMA InitInv == Init => UrlInv
<1> SUFFICES ASSUME Init PROVE UrlInv
  OBVIOUS
<1>1. TypeOK
  BY DEF Init, TypeOK
<1>2. CacheOK /\ \A g \in GetBaseUrl : CallOK(g)
  BY DEF Init, CacheOK, CallOK, Live
<1>3. QED BY <1>1, <1>2 DEF UrlInv

LEMMA UrlOfType ==
    ASSUME TypeOK, NEW s \in Server
    PROVE  UrlOf(s) \in BaseUrl /\ UrlOf(s).server = s
BY DEF TypeOK, UrlOf, BaseUrl

\* What a look-up does to the call that makes it.
LEMMA LookUpEffect ==
    ASSUME TypeOK, NEW g \in GetBaseUrl, NEW c \in Live, NEW force \in BOOLEAN,
           LookUp(g, c, force)
    PROVE  /\ pc' \in [GetBaseUrl -> {"idle", "record", "fetch", "store", "done", "failed"}]
           /\ result' \in [GetBaseUrl -> BaseUrl \cup {NONE}]
           /\ \A h \in GetBaseUrl \ {g} : pc'[h] = pc[h] /\ result'[h] = result[h]
           /\ \/ /\ pc'[g] = "done" /\ ~force
                 /\ _base_url_cache[address[c]] # NONE
                 /\ result'[g] = _base_url_cache[address[c]]
              \/ pc'[g] = "fetch" /\ result'[g] = result[g]
<1>1. address[c] \in Address
  BY DEF TypeOK, Live
<1>2. QED BY <1>1 DEF LookUp, UseCache, CacheKey, TypeOK

LEMMA NextType ==
    ASSUME UrlInv, [Next]_vars
    PROVE  TypeOK'
<1> USE DEF UrlInv, callVars
<1>1. ASSUME NEW c \in Client, Collect(c) PROVE TypeOK'
  BY <1>1 DEF TypeOK, Collect
<1>2. ASSUME NEW c \in Client, NEW a \in Address, NewClient(c, a) PROVE TypeOK'
  BY <1>2 DEF TypeOK, NewClient
<1>3. ASSUME NEW s \in Server, NEW v \in Version, SetParameter(s, v) PROVE TypeOK'
  <2>1. [server |-> s, version |-> v] \in BaseUrl
    BY DEF BaseUrl
  <2>2. QED BY <1>3, <2>1 DEF TypeOK, SetParameter
<1>4. ASSUME NEW g \in GetBaseUrl, NEW c \in Client, NEW force \in BOOLEAN,
             Begin(g, c, force)
      PROVE  /\ client' \in [GetBaseUrl -> Client \cup {NONE}]
             /\ force_refresh' \in [GetBaseUrl -> BOOLEAN]
             /\ current' \in [GetBaseUrl -> SUBSET BaseUrl]
             /\ UNCHANGED <<address, tenants, before, server, base_url, _base_url_cache,
                            answer, record>>
             /\ c \in Live
  <2>1. UrlOf(server[c]) \in BaseUrl
    BY UrlOfType DEF TypeOK
  <2>2. QED BY <1>4, <2>1 DEF TypeOK, Begin
<1>5. ASSUME NEW g \in GetBaseUrl, NEW c \in Client, NEW force \in BOOLEAN,
             Call(g, c, force)
      PROVE  TypeOK'
  BY <1>4, <1>5, LookUpEffect DEF TypeOK, Call
<1>6. ASSUME NEW g \in GetBaseUrl, NEW c \in Client, CallPortal(g, c) PROVE TypeOK'
  BY <1>4, <1>6 DEF TypeOK, CallPortal
<1>7. ASSUME NEW g \in GetBaseUrl, ReadRecord(g) PROVE TypeOK'
  <2>1. client[g] \in Live
    BY <1>7 DEF ReadRecord, CallOK
  <2>2. DOMAIN record' = GetBaseUrl
    BY <1>7 DEF ReadRecord, TypeOK
  <2>3. QED BY <1>7, <2>1, <2>2, LookUpEffect DEF TypeOK, ReadRecord
<1>8. ASSUME NEW g \in GetBaseUrl, ServerReads(g) PROVE TypeOK'
  <2>1. UrlOf(server[client[g]]) \in BaseUrl
    BY <1>8, UrlOfType DEF ServerReads, CallOK, Live, TypeOK
  <2>2. QED BY <1>8, <2>1 DEF TypeOK, ServerReads
<1>9. ASSUME NEW g \in GetBaseUrl, Store(g) PROVE TypeOK'
  BY <1>9 DEF TypeOK, Store
<1>10. ASSUME NEW g \in GetBaseUrl, Fail(g) PROVE TypeOK'
  BY <1>10 DEF TypeOK, Fail
<1>11. CASE UNCHANGED vars
  BY <1>11 DEF TypeOK, vars
<1>12. QED
  BY <1>1, <1>2, <1>3, <1>5, <1>6, <1>7, <1>8, <1>9, <1>10, <1>11 DEF Next

-----------------------------------------------------------------------------
(* The cache *)

LEMMA NextCache ==
    ASSUME UrlInv, [Next]_vars
    PROVE  CacheOK'
<1> USE DEF UrlInv
<1>1. ASSUME UNCHANGED <<address, tenants, before, server, _base_url_cache>> PROVE CacheOK'
  BY <1>1 DEF CacheOK, Live
<1>2. ASSUME NEW c \in Client, Collect(c) PROVE CacheOK'
  <2>1. /\ UNCHANGED <<tenants, before, server, _base_url_cache>>
        /\ \A d \in Live' : d \in Live /\ address'[d] = address[d]
    BY <1>2 DEF Collect, Live, TypeOK
  <2>2. QED BY <2>1 DEF CacheOK
<1>3. ASSUME NEW c \in Client, NEW a \in Address, NewClient(c, a) PROVE CacheOK'
  <2>1. \A b \in Address : tenants[b] \subseteq tenants'[b]
    BY <1>3 DEF NewClient, TypeOK
  <2>2. address'[c] = a /\ c \in tenants'[a]
    BY <1>3 DEF NewClient, TypeOK
  <2>3. \A d \in Client \ {c} : address'[d] = address[d]
    BY <1>3 DEF NewClient, TypeOK
  <2>4. UNCHANGED <<server, _base_url_cache>>
    BY <1>3 DEF NewClient
  <2>5. /\ before'[c] = before[c] \cup tenants[a]
        /\ \A d \in Client \ {c} : before'[d] = before[d]
        /\ tenants'[a] = tenants[a] \cup {c}
        /\ \A b \in Address \ {a} : tenants'[b] = tenants[b]
        /\ \A d \in Live : address[d] # a
    BY <1>3 DEF NewClient, TypeOK
  <2>6. \A d \in Live' \ {c} :
            d \in Live /\ address[d] \in Address \ {a} /\ address'[d] = address[d]
    BY <2>3, <2>5 DEF Live, TypeOK
  <2>7. ASSUME NEW d \in Live'
        PROVE  /\ d \in tenants'[address'[d]]
               /\ tenants'[address'[d]] \subseteq before'[d] \cup {d}
    <3>1. CASE d # c
      <4>1. /\ d \in Live /\ d \in Client \ {c}
            /\ tenants'[address'[d]] = tenants[address[d]]
        BY <2>5, <2>6, <3>1 DEF Live
      <4>2. QED BY <2>5, <4>1 DEF CacheOK
    <3>2. CASE d = c
      BY <2>2, <2>5, <3>2
    <3>3. QED BY <3>1, <3>2
  <2>8. \A d, e \in Live' : address'[d] = address'[e] => d = e
    BY <2>2, <2>6 DEF CacheOK
  <2>9. QED BY <2>1, <2>4, <2>7, <2>8 DEF CacheOK
<1>4. ASSUME NEW s \in Server, NEW v \in Version, SetParameter(s, v) PROVE CacheOK'
  BY <1>1, <1>4 DEF SetParameter
<1>5. ASSUME NEW g \in GetBaseUrl, NEW c \in Client, NEW force \in BOOLEAN,
             Call(g, c, force) \/ CallPortal(g, c)
      PROVE  CacheOK'
  BY <1>1, <1>5 DEF Call, CallPortal, Begin
<1>6. ASSUME NEW g \in GetBaseUrl, ReadRecord(g) \/ ServerReads(g) \/ Fail(g)
      PROVE  CacheOK'
  BY <1>1, <1>6 DEF ReadRecord, ServerReads, Fail
\* The answer is stored at the address of a client of the server it came from.
<1>7. ASSUME NEW g \in GetBaseUrl, Store(g) PROVE CacheOK'
  <2>1. /\ client[g] \in Live
        /\ answer[g].server = server[client[g]]
        /\ client[g] \in tenants[address[client[g]]]
    BY <1>7 DEF Store, CallOK, CacheOK
  <2>2. /\ _base_url_cache' =
               [_base_url_cache EXCEPT ![address[client[g]]] = answer[g]]
        /\ UNCHANGED <<address, tenants, before, server>>
    BY <1>7 DEF Store, CacheKey
  <2>3. QED BY <2>1, <2>2 DEF CacheOK, TypeOK, Live
<1>8. CASE UNCHANGED vars
  BY <1>1, <1>8 DEF vars
<1>9. QED
  BY <1>2, <1>3, <1>4, <1>5, <1>6, <1>7, <1>8 DEF Next

-----------------------------------------------------------------------------
(* The calls *)

\* What a cached value is to the client it is found for.
LEMMA CachedIsKnown ==
    ASSUME UrlInv, NEW c \in Live, _base_url_cache[address[c]] # NONE
    PROVE  Known(c, _base_url_cache[address[c]].server)
<1>1. address[c] \in Address /\ c \in Client
  BY DEF Live, UrlInv, TypeOK
<1>2. PICK d \in tenants[address[c]] : server[d] = _base_url_cache[address[c]].server
  BY <1>1 DEF UrlInv, CacheOK
<1>3. d = c \/ d \in before[c]
  BY <1>2 DEF UrlInv, CacheOK
<1>4. QED BY <1>2, <1>3 DEF Known

\* A step that leaves a call's variables alone, and its client where it is.
LEMMA CallFrame ==
    ASSUME NEW h \in GetBaseUrl, CallOK(h), UNCHANGED server,
           \A c \in Client : before[c] \subseteq before'[c],
           pc'[h] = pc[h], client'[h] = client[h], result'[h] = result[h],
           force_refresh'[h] = force_refresh[h], answer'[h] = answer[h],
           record'[h] = record[h], current[h] \subseteq current'[h],
           pc[h] \in {"record", "fetch"} =>
               UrlOf(server[client[h]])' \in current'[h],
           pc[h] \in {"record", "fetch", "store"} => client[h] \in Live'
    PROVE  CallOK(h)'
<1>1. client[h] \in Client => \A s : Known(client[h], s) => Known(client[h], s)'
  BY DEF Known
<1>2. result[h] # NONE => Known(client[h], result[h].server)'
  BY <1>1 DEF CallOK
<1>3. QED BY <1>2 DEF CallOK, Portal

\* The same for a step that changes no client, server or parameter.
LEMMA CallSameWorld ==
    ASSUME NEW h \in GetBaseUrl, CallOK(h),
           UNCHANGED <<address, tenants, before, server, base_url>>,
           pc'[h] = pc[h], client'[h] = client[h], result'[h] = result[h],
           force_refresh'[h] = force_refresh[h], answer'[h] = answer[h],
           record'[h] = record[h], current'[h] = current[h]
    PROVE  CallOK(h)'
<1>1. /\ \A c \in Client : before[c] \subseteq before'[c]
      /\ UrlOf(server[client[h]])' = UrlOf(server[client[h]])
      /\ Live' = Live
  BY DEF UrlOf, Live
<1>2. QED BY <1>1, CallFrame DEF CallOK

\* A call whose look-up is at hand: its client is alive, and its arguments and
\* what is current are as the call has noted them, or notes them in this step.
LEMMA AfterLookUp ==
    ASSUME UrlInv, NEW g \in GetBaseUrl, NEW c \in Live, NEW force \in BOOLEAN,
           LookUp(g, c, force), result[g] = NONE,
           UNCHANGED <<address, tenants, before, server, base_url>>,
           client'[g] = c, force_refresh'[g] = force,
           UrlOf(server[c]) \in current'[g],
           record'[g] # NONE => record'[g] \in Portal(server[c])
    PROVE  CallOK(g)'
<1>1. \/ /\ pc'[g] = "done" /\ ~force
         /\ _base_url_cache[address[c]] # NONE
         /\ result'[g] = _base_url_cache[address[c]]
      \/ pc'[g] = "fetch" /\ result'[g] = NONE
  BY LookUpEffect DEF UrlInv
<1>2. /\ UrlOf(server[client[g]])' = UrlOf(server[c])
      /\ Portal(server[client[g]])' = Portal(server[c])
      /\ Live' = Live /\ client'[g] \in Client
  BY DEF UrlOf, Live, Portal
<1>3. CASE pc'[g] = "done"
  <2>1. Known(c, result'[g].server)
    BY <1>1, <1>3, CachedIsKnown
  <2>2. Known(client[g], result[g].server)'
    BY <2>1 DEF Known
  <2>3. QED BY <1>1, <1>2, <1>3, <2>2 DEF CallOK
<1>4. CASE pc'[g] = "fetch"
  BY <1>1, <1>2, <1>4 DEF CallOK
<1>5. QED BY <1>1, <1>3, <1>4

LEMMA NextCall ==
    ASSUME UrlInv, [Next]_vars, NEW h \in GetBaseUrl
    PROVE  CallOK(h)'
<1> USE DEF UrlInv, callVars
<1>1. ASSUME NEW c \in Client, Collect(c) PROVE CallOK(h)'
  <2>1. pc[h] \in {"record", "fetch", "store"} => client[h] \in Live /\ client[h] # c
    BY <1>1 DEF Collect, CallOK
  <2>2. pc[h] \in {"record", "fetch", "store"} => client[h] \in Live'
    BY <1>1, <2>1 DEF Collect, Live, TypeOK
  <2>3. UrlOf(server[client[h]])' = UrlOf(server[client[h]])
    BY <1>1 DEF Collect, UrlOf
  <2>4. QED BY <1>1, <2>2, <2>3, CallFrame DEF Collect, CallOK
<1>2. ASSUME NEW c \in Client, NEW a \in Address, NewClient(c, a) PROVE CallOK(h)'
  <2>1. \A d \in Client : before[d] \subseteq before'[d]
    BY <1>2 DEF NewClient, TypeOK
  <2>2. Live \subseteq Live'
    <3>1. \A d \in Client : address'[d] = IF d = c THEN a ELSE address[d]
      BY <1>2 DEF NewClient, TypeOK
    <3>2. a # NONE
      BY UrlConstants
    <3>3. QED BY <3>1, <3>2 DEF Live
  <2>3. UrlOf(server[client[h]])' = UrlOf(server[client[h]])
    BY <1>2 DEF NewClient, UrlOf
  <2>4. QED BY <1>2, <2>1, <2>2, <2>3, CallFrame DEF NewClient, CallOK
\* A parameter that changes has its new value noted by the calls that may read it.
<1>3. ASSUME NEW s \in Server, NEW v \in Version, SetParameter(s, v) PROVE CallOK(h)'
  <2>1. UNCHANGED <<address, tenants, before, server, _base_url_cache, pc, client,
                    force_refresh, answer, result, record>>
    BY <1>3 DEF SetParameter
  <2>2. current[h] \subseteq current'[h]
    BY <1>3 DEF SetParameter
  <2>3. ASSUME pc[h] \in {"record", "fetch"}
        PROVE  UrlOf(server[client[h]])' \in current'[h]
    <3>1. client[h] \in Client /\ server[client[h]] \in Server
      BY <2>3 DEF CallOK, Live, TypeOK
    <3>2. CASE server[client[h]] = s
      <4>1. base_url'[s] = v
        BY <1>3 DEF SetParameter, TypeOK
      <4>2. UrlOf(server[client[h]])' = [server |-> s, version |-> v]
        BY <2>1, <3>2, <4>1 DEF UrlOf
      <4>3. [server |-> s, version |-> v] \in current'[h]
        BY <1>3, <2>3, <3>2 DEF SetParameter
      <4>4. QED BY <4>2, <4>3
    <3>3. CASE server[client[h]] # s
      <4>1. base_url'[server[client[h]]] = base_url[server[client[h]]]
        BY <1>3, <3>1, <3>3 DEF SetParameter, TypeOK
      <4>2. UrlOf(server[client[h]])' = UrlOf(server[client[h]])
        BY <2>1, <4>1 DEF UrlOf
      <4>3. QED BY <2>2, <2>3, <4>2 DEF CallOK
    <3>4. QED BY <3>2, <3>3
  <2>4. Live' = Live
    BY <2>1 DEF Live
  <2>5. QED BY <2>1, <2>2, <2>3, <2>4, CallFrame DEF CallOK
<1>4. ASSUME NEW g \in GetBaseUrl, NEW c \in Client, NEW force \in BOOLEAN,
             Begin(g, c, force)
      PROVE  /\ c \in Live /\ result[g] = NONE
             /\ UNCHANGED <<address, tenants, before, server, base_url, _base_url_cache,
                            answer, record>>
             /\ client'[g] = c /\ force_refresh'[g] = force
             /\ current'[g] = {UrlOf(server[c])}
             /\ \A i \in GetBaseUrl \ {g} :
                    /\ client'[i] = client[i]
                    /\ force_refresh'[i] = force_refresh[i]
                    /\ current'[i] = current[i]
  BY <1>4 DEF Begin, TypeOK, CallOK
<1>5. ASSUME NEW g \in GetBaseUrl, NEW c \in Client, NEW force \in BOOLEAN,
             Call(g, c, force)
      PROVE  CallOK(h)'
  <2>1. Begin(g, c, force) /\ LookUp(g, c, force)
    BY <1>5 DEF Call
  <2>2. CASE h = g
    <3>1. record[g] = NONE
      BY <2>1 DEF CallOK, Begin
    <3>2. QED BY <1>4, <2>1, <2>2, <3>1, AfterLookUp
  <2>3. CASE h # g
    BY <1>4, <2>1, <2>3, LookUpEffect, CallSameWorld
  <2>4. QED BY <2>2, <2>3
<1>6. ASSUME NEW g \in GetBaseUrl, NEW c \in Client, CallPortal(g, c) PROVE CallOK(h)'
  <2>1. Begin(g, c, FALSE) /\ pc' = [pc EXCEPT ![g] = "record"] /\ UNCHANGED result
    BY <1>6 DEF CallPortal
  <2>2. CASE h = g
    <3>1. record[g] = NONE
      BY <2>1 DEF CallOK, Begin
    <3>2. UNCHANGED <<address, server, base_url>> /\ client'[g] = c
      BY <1>4, <2>1
    <3>3. Live' = Live
      BY <3>2 DEF Live
    <3>4. UrlOf(server[client[g]])' = UrlOf(server[c])
      BY <3>2 DEF UrlOf
    <3>5. pc'[g] = "record" /\ result'[g] = NONE /\ record'[g] = NONE
      BY <1>4, <2>1, <3>1 DEF TypeOK
    <3>6. client'[g] \in Live' /\ client'[g] \in Client /\ ~force_refresh'[g]
      BY <1>4, <2>1, <3>3
    <3>7. UrlOf(server[client[g]])' \in current'[g]
      BY <1>4, <2>1, <3>4
    <3>8. QED BY <2>2, <3>5, <3>6, <3>7 DEF CallOK
  <2>3. CASE h # g
    BY <1>4, <2>1, <2>3, CallSameWorld DEF TypeOK
  <2>4. QED BY <2>2, <2>3
<1>7. ASSUME NEW g \in GetBaseUrl, ReadRecord(g) PROVE CallOK(h)'
  <2>1. /\ pc[g] = "record" /\ LookUp(g, client[g], FALSE)
        /\ client[g] \in Live /\ result[g] = NONE /\ force_refresh[g] = FALSE
        /\ UrlOf(server[client[g]]) \in current[g]
        /\ UNCHANGED <<address, tenants, before, server, base_url, client, force_refresh,
                       answer, current>>
    BY <1>7 DEF ReadRecord, CallOK, TypeOK
  <2>2. /\ record'[g] \in Portal(server[client[g]])
        /\ \A i \in GetBaseUrl \ {g} : record'[i] = record[i]
    BY <1>7 DEF ReadRecord, TypeOK
  <2>3. CASE h = g
    BY <2>1, <2>2, <2>3, AfterLookUp
  <2>4. CASE h # g
    BY <2>1, <2>2, <2>4, LookUpEffect, CallSameWorld
  <2>5. QED BY <2>3, <2>4
<1>8. ASSUME NEW g \in GetBaseUrl, ServerReads(g) PROVE CallOK(h)'
  <2>1. /\ pc[g] = "fetch"
        /\ UNCHANGED <<address, tenants, before, server, base_url, _base_url_cache, client,
                       force_refresh, result, record, current>>
    BY <1>8 DEF ServerReads
  <2>2. CASE h = g
    <3>1. /\ pc'[g] = "store" /\ answer'[g] = UrlOf(server[client[g]])
          /\ answer'[g].server = server[client[g]]
      BY <1>8 DEF ServerReads, TypeOK, UrlOf
    <3>2. Live' = Live
      BY <2>1 DEF Live
    <3>3. QED BY <2>1, <2>2, <3>1, <3>2 DEF CallOK, Portal
  <2>3. CASE h # g
    BY <1>8, <2>1, <2>3, CallSameWorld DEF ServerReads, TypeOK
  <2>4. QED BY <2>2, <2>3
<1>9. ASSUME NEW g \in GetBaseUrl, Store(g) PROVE CallOK(h)'
  <2>1. /\ pc[g] = "store"
        /\ UNCHANGED <<address, tenants, before, server, base_url, client, force_refresh,
                       record, current>>
    BY <1>9 DEF Store
  <2>2. CASE h = g
    <3>1. pc'[g] = "done" /\ result'[g] = answer[g]
      BY <1>9 DEF Store, TypeOK
    <3>2. answer[g] \in current[g] /\ answer[g].server = server[client[g]]
      BY <2>1 DEF CallOK
    <3>3. Known(client[g], result[g].server)'
      BY <2>1, <3>1, <3>2 DEF Known
    <3>4. QED BY <2>1, <2>2, <3>1, <3>2, <3>3 DEF CallOK, Portal
  <2>3. CASE h # g
    BY <1>9, <2>1, <2>3, CallSameWorld DEF Store, TypeOK
  <2>4. QED BY <2>2, <2>3
<1>10. ASSUME NEW g \in GetBaseUrl, Fail(g) PROVE CallOK(h)'
  <2>1. /\ pc[g] \in {"record", "fetch", "store"}
        /\ UNCHANGED <<address, tenants, before, server, base_url, _base_url_cache, client,
                       force_refresh, result, record, current>>
    BY <1>10 DEF Fail
  <2>2. CASE h = g
    <3>1. pc'[g] = "failed" /\ result'[g] = NONE
      BY <1>10, <2>1 DEF Fail, TypeOK, CallOK
    <3>2. QED BY <2>1, <2>2, <3>1 DEF CallOK, Portal
  <2>3. CASE h # g
    BY <1>10, <2>1, <2>3, CallSameWorld DEF Fail, TypeOK
  <2>4. QED BY <2>2, <2>3
<1>11. CASE UNCHANGED vars
  BY <1>11, CallSameWorld DEF vars
<1>12. QED
  BY <1>1, <1>2, <1>3, <1>5, <1>6, <1>7, <1>8, <1>9, <1>10, <1>11 DEF Next

-----------------------------------------------------------------------------
(* Theorems *)

\* The cache holds nothing but what clients at its addresses were answered.
THEOREM UrlInvariance == Spec => []UrlInv
<1>1. UrlInv /\ [Next]_vars => UrlInv'
  BY NextType, NextCache, NextCall DEF UrlInv
<1>2. QED BY <1>1, InitInv, PTL DEF Spec

\* get_base_url, get_record_url and get_portal_url give a client the URL of its
\* own server or of one whose client was at its address before it, and where no
\* such client was, get_portal_url sends a token only to the server that made it.
THEOREM OwnServer == Spec => []UrlOfOwnServer
<1>1. ASSUME UrlInv PROVE UrlOfOwnServer
  <2>1. SUFFICES ASSUME NEW g \in GetBaseUrl, result[g] # NONE
                 PROVE  /\ Known(client[g], Url(g).base.server)
                        /\ Url(g).token # NONE /\ Untainted(client[g]) =>
                               Url(g).token = Url(g).base.server
    BY DEF UrlOfOwnServer
  <2>2. Known(client[g], result[g].server)
    BY <1>1, <2>1 DEF UrlInv, CallOK
  <2>3. Untainted(client[g]) => result[g].server = server[client[g]]
    BY <2>2 DEF Untainted, Known
  <2>4. CASE record[g] = NONE
    BY <2>2, <2>4 DEF Url, RecordUrl
  <2>5. CASE record[g] # NONE
    <3>1. record[g] \in Portal(server[client[g]])
      BY <1>1, <2>5 DEF UrlInv, CallOK
    <3>2. /\ Url(g).base = result[g]
          /\ Url(g).token = record[g].access_token
      BY <2>5, <3>1 DEF Url, PortalUrl, RecordUrl, Portal
    <3>3. Url(g).token # NONE => Url(g).token = server[client[g]]
      BY <3>1, <3>2 DEF Portal
    <3>4. QED BY <2>2, <2>3, <3>2, <3>3
  <2>6. QED BY <2>4, <2>5
<1>2. QED BY <1>1, UrlInvariance, PTL

\* A call with force_refresh returns a value its server had while it ran.
THEOREM ForcedIsFresh == Spec => []ForcedIsCurrent
<1>1. UrlInv => ForcedIsCurrent
  BY DEF UrlInv, CallOK, ForcedIsCurrent
<1>2. QED BY <1>1, UrlInvariance, PTL

-----------------------------------------------------------------------------
(* PropertiesUpdate.  The argument: a record that is not in disturbed has at *)
(* most one update between its read and its write at the moment something    *)
(* reaches it, and what that update has merged is what it would merge now    *)
(* (UpdateOK).  Its write then changes the names it was given and no others. *)

-----------------------------------------------------------------------------
(* The merge *)

LEMMA MergeType ==
    ASSUME NEW old \in Properties, NEW new \in Properties
    PROVE  Merge(old, new) \in Properties
BY DEF Merge, Properties

\* What the merge of an update leaves: its own values, and nothing removed.
LEMMA MergeKeeps ==
    ASSUME NEW old \in Properties, NEW new \in Properties, NEW n \in Name
    PROVE  /\ new[n] # ABSENT => Merge(old, new)[n] # ABSENT
           /\ old[n] # ABSENT => Merge(old, new)[n] # ABSENT
BY DEF Merge

-----------------------------------------------------------------------------
(* Types *)

LEMMA UpdatesAtFirst == UpdatesInit => UpdatesInv
<1> SUFFICES ASSUME UpdatesInit PROVE UpdatesInv
  OBVIOUS
<1>1. Empty \in Properties
  BY DEF Empty, Properties
<1>2. UpdatesTypeOK
  BY <1>1 DEF UpdatesInit, UpdatesTypeOK
<1>3. NothingErased /\ BatchOK /\ \A u \in Update : UpdateOK(u)
  BY DEF UpdatesInit, NothingErased, BatchOK, UpdateOK, Holds
<1>4. QED BY <1>2, <1>3 DEF UpdatesInv

LEMMA DisturbType ==
    ASSUME UpdatesTypeOK, NEW r \in Record, NEW others, Disturb(r, others)
    PROVE  disturbed' \in SUBSET Record /\ disturbed \subseteq disturbed'
BY DEF UpdatesTypeOK, Disturb

LEMMA ReplaceType ==
    ASSUME UpdatesTypeOK, NEW u \in Update, Replace(u)
    PROVE  /\ props' \in [Record -> Properties]
           /\ intended' \in [Record -> Properties]
           /\ disturbed' \in SUBSET Record
<1>1. /\ record_id[u] \in Record
      /\ merged[u] \in Properties /\ updates[u] \in Properties
  BY DEF UpdatesTypeOK
<1>2. Merge(intended[record_id[u]], updates[u]) \in Properties
  BY <1>1, MergeType DEF UpdatesTypeOK
<1>3. QED BY <1>1, <1>2, DisturbType DEF UpdatesTypeOK, Replace

LEMMA UpdatesTypes ==
    ASSUME UpdatesTypeOK, [UpdatesNext]_updatesVars
    PROVE  UpdatesTypeOK'
<1>1. ASSUME NEW u \in Update, ReadAndMerge(u) PROVE UpdatesTypeOK'
  <2>1. Merge(props[record_id[u]], updates[u]) \in Properties
    BY MergeType DEF UpdatesTypeOK
  <2>2. QED BY <1>1, <2>1 DEF UpdatesTypeOK, ReadAndMerge
<1>2. ASSUME NEW u \in Update, Write(u) PROVE UpdatesTypeOK'
  BY <1>2, ReplaceType DEF UpdatesTypeOK, Write
<1>3. ASSUME NEW u \in Update, UpdateFails(u) PROVE UpdatesTypeOK'
  BY <1>3 DEF UpdatesTypeOK, UpdateFails
<1>4. ASSUME NEW u \in Update, LateWrite(u) PROVE UpdatesTypeOK'
  BY <1>4, ReplaceType DEF UpdatesTypeOK, LateWrite
<1>5. ASSUME NEW r \in Record, NEW n \in Name, NEW v \in Value, Edit(r, n, v)
      PROVE  UpdatesTypeOK'
  <2>1. /\ [props[r] EXCEPT ![n] = v] \in Properties
        /\ [intended[r] EXCEPT ![n] = v] \in Properties
    BY DEF UpdatesTypeOK, Properties
  <2>2. /\ props' \in [Record -> Properties]
        /\ intended' \in [Record -> Properties]
    BY <1>5, <2>1 DEF UpdatesTypeOK, Edit
  <2>3. QED BY <1>5, <2>2, DisturbType DEF UpdatesTypeOK, Edit
<1>6. CASE BatchReturns \/ BatchRaises
  BY <1>6 DEF UpdatesTypeOK, BatchReturns, BatchRaises
<1>7. CASE UNCHANGED updatesVars
  BY <1>7 DEF UpdatesTypeOK, updatesVars
<1>8. QED
  BY <1>1, <1>2, <1>3, <1>4, <1>5, <1>6, <1>7 DEF UpdatesNext, UpdateStep

-----------------------------------------------------------------------------
(* Reads and writes *)

\* A write of u reaches the server, for the last time.  On a record that is not
\* disturbed by it nobody else has read anything, and the field becomes what it
\* was with the values of u.
LEMMA ReplaceEffect ==
    ASSUME UpdatesInv, NEW u \in Update, Holds(u), Replace(u)
    PROVE  /\ disturbed \subseteq disturbed'
           /\ \A r \in Record \ {record_id[u]} :
                  props'[r] = props[r] /\ intended'[r] = intended[r]
           /\ record_id[u] \notin disturbed' =>
                  /\ \A v \in Update \ {u} : record_id[v] = record_id[u] => ~Holds(v)
                  /\ props'[record_id[u]] = Merge(props[record_id[u]], updates[u])
                  /\ intended'[record_id[u]] = props'[record_id[u]]
<1> USE DEF UpdatesInv
<1>1. /\ record_id[u] \in Record
      /\ props' = [props EXCEPT ![record_id[u]] = merged[u]]
      /\ intended' = [intended EXCEPT ![record_id[u]] =
                          Merge(intended[record_id[u]], updates[u])]
  BY DEF Replace, UpdatesTypeOK
<1>2. disturbed \subseteq disturbed'
  BY <1>1, DisturbType DEF Replace
<1>3. \A r \in Record \ {record_id[u]} : props'[r] = props[r] /\ intended'[r] = intended[r]
  BY <1>1 DEF UpdatesTypeOK
<1>4. ASSUME record_id[u] \notin disturbed'
      PROVE  /\ \A v \in Update \ {u} : record_id[v] = record_id[u] => ~Holds(v)
             /\ props'[record_id[u]] = Merge(props[record_id[u]], updates[u])
             /\ intended'[record_id[u]] = props'[record_id[u]]
  <2>1. record_id[u] \notin disturbed
    BY <1>2, <1>4
  <2>2. merged[u] = Merge(props[record_id[u]], updates[u])
    BY <2>1 DEF UpdateOK
  <2>3. props[record_id[u]] = intended[record_id[u]]
    BY <1>1, <2>1 DEF NothingErased
  <2>4. ~Held(record_id[u], Update \ {u})
    BY <1>4 DEF Replace, Disturb
  <2>5. QED BY <1>1, <2>2, <2>3, <2>4 DEF UpdatesTypeOK, Held
<1>5. QED BY <1>2, <1>3, <1>4

\* The update v after a write of another update u that has left v alone.
LEMMA AfterReplace ==
    ASSUME UpdatesInv, NEW u \in Update, Holds(u), Replace(u),
           NEW v \in Update, v # u,
           UNCHANGED <<record_id, updates, merged>>,
           at'[v] = at[v], v \in late' <=> v \in late
    PROVE  UpdateOK(v)'
<1> USE DEF UpdatesInv
<1>1. UpdateOK(v)
  OBVIOUS
<1>2. CASE record_id[v] = record_id[u]
  <2>1. ASSUME record_id[v] \notin disturbed'
        PROVE  /\ ~Holds(v)
               /\ \A n \in Name : props[record_id[v]][n] # ABSENT =>
                                      props'[record_id[v]][n] # ABSENT
               /\ record_id[v] \notin disturbed
    <3>1. /\ props'[record_id[u]] = Merge(props[record_id[u]], updates[u])
          /\ ~Holds(v) /\ record_id[v] \notin disturbed
      BY <1>2, <2>1, ReplaceEffect
    <3>2. props[record_id[u]] \in Properties /\ updates[u] \in Properties
      BY DEF UpdatesTypeOK
    <3>3. QED BY <1>2, <3>1, <3>2, MergeKeeps
  <2>2. QED BY <1>1, <2>1 DEF UpdateOK, Holds
<1>3. CASE record_id[v] # record_id[u]
  <2>1. props'[record_id[v]] = props[record_id[v]] /\ disturbed \subseteq disturbed'
    BY <1>3, ReplaceEffect DEF UpdatesTypeOK
  <2>2. QED BY <1>1, <2>1 DEF UpdateOK, Holds
<1>4. QED BY <1>2, <1>3

LEMMA ErasedByReplace ==
    ASSUME UpdatesInv, NEW u \in Update, Holds(u), Replace(u)
    PROVE  NothingErased'
BY ReplaceEffect DEF UpdatesInv, NothingErased, UpdatesTypeOK

\* An update that a step leaves alone, and its record too.
LEMMA UpdateFrame ==
    ASSUME NEW v \in Update, UpdateOK(v),
           UNCHANGED <<props, record_id, updates, disturbed>>,
           merged'[v] = merged[v], at'[v] = at[v], v \in late' <=> v \in late
    PROVE  UpdateOK(v)'
BY DEF UpdateOK, Holds

-----------------------------------------------------------------------------
(* The steps *)

LEMMA StepReadAndMerge ==
    ASSUME UpdatesInv, NEW u \in Update, ReadAndMerge(u)
    PROVE  /\ NothingErased'
           /\ \A v \in Update : UpdateOK(v)'
           /\ BatchOK'
<1> USE DEF UpdatesInv
<1>1. /\ at[u] = "idle" /\ at'[u] = "write" /\ u \notin late'
      /\ merged'[u] = Merge(props[record_id[u]], updates[u])
      /\ UNCHANGED <<props, record_id, updates, late, batch, intended, disturbed>>
      /\ \A v \in Update \ {u} : at'[v] = at[v] /\ merged'[v] = merged[v]
  BY DEF ReadAndMerge, UpdatesTypeOK, UpdateOK
<1>2. NothingErased'
  BY <1>1 DEF NothingErased
<1>3. UpdateOK(u)'
  BY <1>1 DEF UpdateOK
<1>4. \A v \in Update \ {u} : UpdateOK(v)'
  BY <1>1, UpdateFrame
<1>5. BatchOK'
  BY <1>1, ConstantsAssumption DEF BatchOK
<1>6. QED BY <1>2, <1>3, <1>4, <1>5

LEMMA StepWrite ==
    ASSUME UpdatesInv, NEW u \in Update, Write(u)
    PROVE  /\ NothingErased'
           /\ \A v \in Update : UpdateOK(v)'
           /\ BatchOK'
<1> USE DEF UpdatesInv
<1>1. /\ at[u] = "write" /\ at'[u] = "written" /\ u \notin late'
      /\ Replace(u) /\ Holds(u)
      /\ UNCHANGED <<record_id, updates, merged, late, batch>>
      /\ \A v \in Update \ {u} : at'[v] = at[v]
  BY DEF Write, UpdatesTypeOK, UpdateOK, Holds
<1>2. NothingErased'
  BY <1>1, ErasedByReplace
<1>3. UpdateOK(u)'
  <2>1. ASSUME record_id[u] \notin disturbed', NEW n \in Name, updates[u][n] # ABSENT
        PROVE  props'[record_id[u]][n] # ABSENT
    <3>1. props'[record_id[u]] = Merge(props[record_id[u]], updates[u])
      BY <1>1, <2>1, ReplaceEffect
    <3>2. props[record_id[u]] \in Properties /\ updates[u] \in Properties
      BY DEF UpdatesTypeOK
    <3>3. QED BY <2>1, <3>1, <3>2, MergeKeeps
  <2>2. QED BY <1>1, <2>1 DEF UpdateOK, Holds
<1>4. \A v \in Update \ {u} : UpdateOK(v)'
  BY <1>1, AfterReplace
<1>5. BatchOK'
  BY <1>1, ConstantsAssumption DEF BatchOK
<1>6. QED BY <1>2, <1>3, <1>4, <1>5

LEMMA StepFail ==
    ASSUME UpdatesInv, NEW u \in Update, UpdateFails(u)
    PROVE  /\ NothingErased'
           /\ \A v \in Update : UpdateOK(v)'
           /\ BatchOK'
<1> USE DEF UpdatesInv
<1>1. /\ at[u] \in {"idle", "write"} /\ at'[u] = "failed" /\ u \notin late
      /\ u \in late' => Holds(u)
      /\ UNCHANGED <<props, record_id, updates, merged, batch, intended, disturbed>>
      /\ \A v \in Update \ {u} : at'[v] = at[v] /\ (v \in late' <=> v \in late)
  BY DEF UpdateFails, UpdatesTypeOK, UpdateOK, Holds
<1>2. NothingErased'
  BY <1>1 DEF NothingErased
<1>3. UpdateOK(u)'
  BY <1>1 DEF UpdateOK, Holds
<1>4. \A v \in Update \ {u} : UpdateOK(v)'
  BY <1>1, UpdateFrame
<1>5. BatchOK'
  BY <1>1, ConstantsAssumption DEF BatchOK
<1>6. QED BY <1>2, <1>3, <1>4, <1>5

LEMMA StepLateWrite ==
    ASSUME UpdatesInv, NEW u \in Update, LateWrite(u)
    PROVE  /\ NothingErased'
           /\ \A v \in Update : UpdateOK(v)'
           /\ BatchOK'
<1> USE DEF UpdatesInv
<1>1. /\ at[u] = "failed" /\ Holds(u) /\ u \notin late'
      /\ Replace(u) \/ UNCHANGED <<props, intended, disturbed>>
      /\ UNCHANGED <<record_id, updates, at, merged, batch>>
      /\ \A v \in Update \ {u} : v \in late' <=> v \in late
  BY DEF LateWrite, UpdatesTypeOK, UpdateOK, Holds
<1>2. NothingErased'
  BY <1>1, ErasedByReplace DEF NothingErased
<1>3. UpdateOK(u)'
  BY <1>1 DEF UpdateOK, Holds
<1>4. ASSUME NEW v \in Update \ {u} PROVE UpdateOK(v)'
  BY <1>1, AfterReplace, UpdateFrame
<1>5. BatchOK'
  BY <1>1 DEF BatchOK
<1>6. QED BY <1>2, <1>3, <1>4, <1>5

\* Someone else sets a property: whoever has read the record is disturbed.
LEMMA StepEdit ==
    ASSUME UpdatesInv,
           NEW r \in Record, NEW n \in Name, NEW v \in Value, Edit(r, n, v)
    PROVE  /\ NothingErased'
           /\ \A u \in Update : UpdateOK(u)'
           /\ BatchOK'
<1> USE DEF UpdatesInv
<1>1. /\ \A s \in Record \ {r} : props'[s] = props[s] /\ intended'[s] = intended[s]
      /\ props'[r] = [props[r] EXCEPT ![n] = v]
      /\ intended'[r] = [intended[r] EXCEPT ![n] = v]
      /\ disturbed \subseteq disturbed'
      /\ UNCHANGED <<record_id, updates, at, merged, late, batch>>
  BY DisturbType DEF Edit, UpdatesTypeOK
<1>2. NothingErased'
  BY <1>1 DEF NothingErased
<1>3. ASSUME NEW u \in Update PROVE UpdateOK(u)'
  <2>1. UpdateOK(u)
    OBVIOUS
  <2>2. CASE record_id[u] = r
    <3>1. r \notin disturbed' => ~Holds(u)
      BY <2>2 DEF Edit, Disturb, Held
    <3>2. \A m \in Name : props[r][m] # ABSENT => props'[r][m] # ABSENT
      BY <1>1, ConstantsAssumption DEF UpdatesTypeOK, Properties
    <3>3. QED BY <1>1, <2>1, <2>2, <3>1, <3>2 DEF UpdateOK, Holds
  <2>3. CASE record_id[u] # r
    <3>1. props'[record_id[u]] = props[record_id[u]]
      BY <1>1, <2>3 DEF UpdatesTypeOK
    <3>2. QED BY <1>1, <2>1, <3>1 DEF UpdateOK, Holds
  <2>4. QED BY <2>2, <2>3
<1>4. BatchOK'
  BY <1>1 DEF BatchOK
<1>5. QED BY <1>2, <1>3, <1>4

LEMMA StepBatch ==
    ASSUME UpdatesInv, BatchReturns \/ BatchRaises
    PROVE  /\ NothingErased'
           /\ \A u \in Update : UpdateOK(u)'
           /\ BatchOK'
<1> USE DEF UpdatesInv
<1>1. UNCHANGED <<props, record_id, updates, at, merged, late, intended, disturbed>>
  BY DEF BatchReturns, BatchRaises
<1>2. BatchOK'
  BY DEF BatchReturns, BatchRaises, BatchOK
<1>3. QED BY <1>1, <1>2, UpdateFrame DEF NothingErased

LEMMA UpdatesStep ==
    ASSUME UpdatesInv, [UpdatesNext]_updatesVars
    PROVE  UpdatesInv'
<1>1. UpdatesTypeOK'
  BY UpdatesTypes DEF UpdatesInv
<1>2. CASE UNCHANGED updatesVars
  BY <1>1, <1>2, UpdateFrame DEF updatesVars, UpdatesInv, NothingErased, BatchOK
<1>3. CASE UpdatesNext
  BY <1>1, <1>3, StepReadAndMerge, StepWrite, StepFail, StepLateWrite, StepEdit,
     StepBatch
  DEF UpdatesNext, UpdateStep, UpdatesInv
<1>4. QED BY <1>2, <1>3

-----------------------------------------------------------------------------
(* Theorems *)

\* What an update has merged stays true of its record until its write arrives,
\* or the record is disturbed.
THEOREM UpdatesInvariance == UpdatesSpec => []UpdatesInv
<1>1. QED BY UpdatesAtFirst, UpdatesStep, PTL DEF UpdatesSpec

\* update_safely undoes no change of a property it was not given, unless it
\* came, or a late write did, between a read and its write.
THEOREM SafeUpdates == UpdatesSpec => []NothingErased
<1>1. UpdatesInv => NothingErased
  BY DEF UpdatesInv
<1>2. QED BY <1>1, UpdatesInvariance, PTL

\* update_safely_batch returns only when each of its records has the properties
\* it was given, and the records keep them while nobody comes between somebody
\* else's read and write.
THEOREM BatchTellsTheTruth == UpdatesSpec => []BatchOkMeansAllWritten
<1>1. UpdatesInv => BatchOkMeansAllWritten
  BY ConstantsAssumption DEF UpdatesInv, BatchOK, UpdateOK, BatchOkMeansAllWritten
<1>2. QED BY <1>1, UpdatesInvariance, PTL

=============================================================================
