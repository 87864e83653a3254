-------------------------- MODULE CdcHistory_proofs --------------------------
(***************************************************************************)
(* Proofs about CdcHistory and the FieldCache it shares, for any number of *)
(* rows, messages, readers, databases and fields, and any scenarios.       *)
(*                                                                         *)
(* The argument: every step of the history is a step of the cache or       *)
(* leaves it alone (SharesCache), so that the history is given what any    *)
(* reader is: types that a field of that model has had (NeverInvented),    *)
(* for all the names it asks for (ReadersOK).  The messages are read       *)
(* before their rows, so that a row that is there throughout is read if    *)
(* its message is, and its message is unless the limit keeps only newer    *)
(* ones (ReadOK).                                                          *)
(***************************************************************************)
EXTENDS CdcHistory, TLAPS

USE DEF Cache!readerVars, Cache!vars, Cache!Meta

-----------------------------------------------------------------------------
(* The cache *)

LEMMA TypesAreTypes ==
    /\ CHAR \in Type /\ NONE \notin Type
    /\ GetHistory \in Reader /\ Pages \in Nat
BY HistoryConstants

LEMMA OrCharType ==
    ASSUME NEW t \in Type \cup {NONE}
    PROVE  Cache!OrChar(t) \in Type /\ Cache!OrChar(t) # NONE
BY TypesAreTypes DEF Cache!OrChar

LEMMA CacheTypes ==
    ASSUME Cache!CacheInv, Cache!Next
    PROVE  Cache!TypeOK'
<1> USE DEF Cache!TypeOK
<1>0. Cache!TypeOK
  BY DEF Cache!CacheInv
<1>1. ASSUME NEW d \in Db, NEW k \in Model \X Field, NEW t \in Type \cup {NONE},
             Cache!ChangeField(d, k, t)
      PROVE  Cache!TypeOK'
  <2>1. ttype' \in [Db -> [Model \X Field -> Type \cup {NONE}]]
    BY <1>0, <1>1 DEF Cache!ChangeField
  <2>2. ever' \in [Model \X Field -> SUBSET Type]
    BY <1>0, <1>1, OrCharType DEF Cache!ChangeField
  <2>3. QED BY <1>0, <1>1, <2>1, <2>2 DEF Cache!ChangeField
<1>2. ASSUME NEW r \in Reader, NEW names \in SUBSET Field, Cache!Lookup(r, names)
      PROVE  Cache!TypeOK'
  <2>1. \A f \in Field : Cache!Entry(r, f) \in Type \cup {NONE}
    BY <1>0 DEF Cache!Entry, Cache!cache_key
  <2>2. result' \in [Reader -> [Field -> Type \cup {NONE}]]
    BY <1>0, <1>2, <2>1 DEF Cache!Lookup
  <2>3. missing' \in [Reader -> SUBSET Field]
    BY <1>0, <1>2 DEF Cache!Lookup
  <2>4. \/ page' = [page EXCEPT ![r] = @ + 1] /\ rpc' = rpc
        \/ page' = page /\ rpc' = [rpc EXCEPT ![r] = "fetch"]
    BY <1>2, Zenon DEF Cache!Lookup
  <2>5. page' \in [Reader -> Nat]
    <3>1. page \in [Reader -> Nat]
      BY <1>0
    <3>2. CASE page' = [page EXCEPT ![r] = @ + 1]
      <4>1. page[r] + 1 \in Nat
        BY <3>1
      <4>2. QED BY <3>1, <3>2, <4>1
    <3>3. QED BY <2>4, <3>1, <3>2
  <2>6. rpc' \in [Reader -> {"lookup", "fetch", "store", "failed"}]
    BY <1>0, <2>4
  <2>7. QED BY <1>0, <1>2, <2>2, <2>3, <2>5, <2>6 DEF Cache!Lookup
<1>3. ASSUME NEW r \in Reader, Cache!ServerReads(r) PROVE Cache!TypeOK'
  <2>1. \A f \in Field : ttype[db[r]][<<model[r], f>>] \in Type \cup {NONE}
    BY <1>0
  <2>2. records' \in [Reader -> [Field -> Type \cup {NONE}]]
    BY <1>0, <1>3, <2>1 DEF Cache!ServerReads
  <2>3. QED BY <1>0, <1>3, <2>2 DEF Cache!ServerReads
<1>4. ASSUME NEW r \in Reader, Cache!Store(r) PROVE Cache!TypeOK'
  <2> DEFINE stored == [f \in missing[r] |-> Cache!OrChar(records[r][f])]
  <2>1. \A f \in missing[r] : f \in Field /\ stored[f] \in Type
    BY <1>0, OrCharType
  <2> HIDE DEF stored
  <2>2. /\ _cache' = [k \in DOMAIN _cache |->
                        IF \E f \in missing[r] : Cache!cache_key(model[r], f) = k
                        THEN stored[CHOOSE f \in missing[r] : Cache!cache_key(model[r], f) = k]
                        ELSE _cache[k]]
        /\ result' = [result EXCEPT ![r] =
                        [f \in Field |-> IF f \in missing[r] THEN stored[f] ELSE result[r][f]]]
    BY <1>4 DEF Cache!Store, stored
  <2>3. _cache' \in [Model \X Field -> Type \cup {NONE}]
    BY <1>0, <2>1, <2>2
  <2>4. result' \in [Reader -> [Field -> Type \cup {NONE}]]
    BY <1>0, <2>1, <2>2
  <2>5. QED BY <1>0, <1>4, <2>3, <2>4 DEF Cache!Store
<1>5. ASSUME NEW r \in Reader, Cache!Fail(r) PROVE Cache!TypeOK'
  BY <1>0, <1>5 DEF Cache!Fail
<1>6. CASE Cache!clear_cache
  BY <1>0, <1>6 DEF Cache!clear_cache
<1>7. QED BY <1>1, <1>2, <1>3, <1>4, <1>5, <1>6 DEF Cache!Next

LEMMA CacheNames ==
    ASSUME Cache!CacheInv, Cache!Next
    PROVE  Cache!NamesOK'
<1> USE DEF Cache!NamesOK
<1>0. Cache!TypeOK /\ Cache!NamesOK /\ Cache!ReadersOK
  BY DEF Cache!CacheInv
<1> SUFFICES ASSUME NEW m \in Model, NEW f \in Field
             PROVE  /\ _cache'[<<m, f>>] # NONE => _cache'[<<m, f>>] \in ever'[<<m, f>>]
                    /\ \A d \in Db : Cache!OrChar(ttype'[d][<<m, f>>]) \in ever'[<<m, f>>]
  BY DEF Cache!OrChar
<1>1. ASSUME NEW d \in Db, NEW k \in Model \X Field, NEW t \in Type \cup {NONE},
             Cache!ChangeField(d, k, t)
      PROVE  /\ _cache'[<<m, f>>] # NONE => _cache'[<<m, f>>] \in ever'[<<m, f>>]
             /\ \A e \in Db : Cache!OrChar(ttype'[e][<<m, f>>]) \in ever'[<<m, f>>]
  <2>1. /\ ttype' = [ttype EXCEPT ![d][k] = t] /\ _cache' = _cache
        /\ ever' = [ever EXCEPT ![k] = @ \cup {Cache!OrChar(t)}]
    BY <1>1 DEF Cache!ChangeField
  <2>2. /\ ever[<<m, f>>] \subseteq ever'[<<m, f>>]
        /\ <<m, f>> = k => Cache!OrChar(t) \in ever'[<<m, f>>]
    BY <1>0, <2>1 DEF Cache!TypeOK
  <2>3. ASSUME NEW e \in Db
        PROVE  ttype'[e][<<m, f>>] = IF e = d /\ <<m, f>> = k THEN t ELSE ttype[e][<<m, f>>]
    BY <1>0, <2>1 DEF Cache!TypeOK
  <2>4. \A e \in Db : Cache!OrChar(ttype'[e][<<m, f>>]) \in ever'[<<m, f>>]
    BY <1>0, <2>2, <2>3
  <2>5. QED BY <1>0, <2>1, <2>2, <2>4
<1>2. ASSUME NEW r \in Reader, Cache!Store(r)
      PROVE  _cache'[<<m, f>>] # NONE => _cache'[<<m, f>>] \in ever'[<<m, f>>]
  <2> DEFINE stored == [g \in missing[r] |-> Cache!OrChar(records[r][g])]
  <2>1. \A g \in missing[r] : g \in Field /\ stored[g] = Cache!OrChar(records[r][g])
    BY <1>0 DEF Cache!TypeOK
  <2>2. /\ _cache' = [k \in DOMAIN _cache |->
                        IF \E g \in missing[r] : Cache!cache_key(model[r], g) = k
                        THEN stored[CHOOSE g \in missing[r] : Cache!cache_key(model[r], g) = k]
                        ELSE _cache[k]]
        /\ ever' = ever /\ rpc[r] = "store"
    BY <1>2 DEF Cache!Store
  <2> HIDE DEF stored
  <2>3. <<m, f>> \in DOMAIN _cache
    BY <1>0 DEF Cache!TypeOK
  <2>4. CASE m = model[r] /\ f \in missing[r]
    <3>1. (CHOOSE g \in missing[r] : Cache!cache_key(model[r], g) = <<m, f>>) = f
      BY <2>4 DEF Cache!cache_key
    <3>2. \E g \in missing[r] : Cache!cache_key(model[r], g) = <<m, f>>
      BY <2>4 DEF Cache!cache_key
    <3>3. _cache'[<<m, f>>] = stored[f]
      BY <2>2, <2>3, <3>1, <3>2
    <3>4. Cache!OrChar(records[r][f]) \in ever[<<model[r], f>>]
      BY <1>0, <2>2, <2>4 DEF Cache!ReadersOK
    <3>5. QED BY <2>1, <2>2, <2>4, <3>3, <3>4
  <2>5. CASE ~(m = model[r] /\ f \in missing[r])
    <3>1. ~\E g \in missing[r] : Cache!cache_key(model[r], g) = <<m, f>>
      BY <2>5 DEF Cache!cache_key
    <3>2. _cache'[<<m, f>>] = _cache[<<m, f>>]
      BY <2>2, <2>3, <3>1
    <3>3. QED BY <1>0, <2>2, <3>2
  <2>6. QED BY <2>4, <2>5
<1>3. CASE Cache!clear_cache
  <2>1. _cache'[<<m, f>>] = NONE /\ UNCHANGED <<ttype, ever>>
    BY <1>0, <1>3 DEF Cache!clear_cache, Cache!TypeOK
  <2>2. QED BY <1>0, <2>1
<1>4. CASE UNCHANGED <<ttype, _cache, ever>>
  BY <1>0, <1>4
<1>5. ASSUME NEW r \in Reader,
             \/ \E names \in (SUBSET Field) \ {{}} : Cache!Lookup(r, names)
             \/ Cache!ServerReads(r) \/ Cache!Fail(r)
      PROVE  UNCHANGED <<ttype, _cache, ever>>
  BY <1>5 DEF Cache!Lookup, Cache!ServerReads, Cache!Fail
<1>6. ASSUME NEW r \in Reader, Cache!Store(r) PROVE UNCHANGED <<ttype, ever>>
  BY <1>6 DEF Cache!Store
<1>7. QED BY <1>0, <1>1, <1>2, <1>3, <1>4, <1>5, <1>6 DEF Cache!Next

\* What one reader does to another: nothing.
LEMMA OtherReaders ==
    ASSUME Cache!TypeOK, NEW r \in Reader, NEW q \in Reader \ {r},
           \/ \E names \in SUBSET Field : Cache!Lookup(r, names)
           \/ Cache!ServerReads(r) \/ Cache!Store(r) \/ Cache!Fail(r)
    PROVE  /\ rpc'[q] = rpc[q] /\ missing'[q] = missing[q] /\ records'[q] = records[q]
           /\ result'[q] = result[q] /\ wanted'[q] = wanted[q]
           /\ UNCHANGED <<model, ever>>
<1> USE DEF Cache!TypeOK
<1>1. ASSUME NEW names \in SUBSET Field, Cache!Lookup(r, names)
      PROVE  /\ rpc'[q] = rpc[q] /\ missing'[q] = missing[q] /\ records'[q] = records[q]
             /\ result'[q] = result[q] /\ wanted'[q] = wanted[q]
             /\ UNCHANGED <<model, ever>>
  <2>1. rpc' = rpc \/ rpc' = [rpc EXCEPT ![r] = "fetch"]
    BY <1>1, Zenon DEF Cache!Lookup
  <2>2. QED BY <1>1, <2>1 DEF Cache!Lookup
<1>2. CASE Cache!ServerReads(r)
  BY <1>2 DEF Cache!ServerReads
<1>3. CASE Cache!Store(r)
  <2>1. result'[q] = result[q]
    BY <1>3 DEF Cache!Store
  <2>2. QED BY <1>3, <2>1 DEF Cache!Store
<1>4. CASE Cache!Fail(r)
  BY <1>4 DEF Cache!Fail
<1>5. QED BY <1>1, <1>2, <1>3, <1>4

\* What a look-up gives the reader that makes it.
LEMMA LookupGives ==
    ASSUME Cache!CacheInv, NEW r \in Reader, NEW names \in SUBSET Field,
           Cache!Lookup(r, names)
    PROVE  /\ UNCHANGED <<model, ever, records>>
           /\ wanted'[r] = names
           /\ missing'[r] = {f \in names : result'[r][f] = NONE}
           /\ \A f \in Field : result'[r][f] # NONE => result'[r][f] \in ever[<<model[r], f>>]
           /\ \/ rpc' = rpc /\ rpc[r] = "lookup" /\ missing'[r] = {}
              \/ rpc'[r] = "fetch"
<1>0. Cache!TypeOK /\ Cache!NamesOK
  BY DEF Cache!CacheInv
<1>1. \A f \in Field : result'[r][f] = IF f \in names THEN Cache!Entry(r, f) ELSE NONE
  BY <1>0 DEF Cache!Lookup, Cache!TypeOK
<1>2. missing'[r] = {f \in names : Cache!Entry(r, f) = NONE} /\ wanted'[r] = names
  BY <1>0 DEF Cache!Lookup, Cache!TypeOK
<1>3. missing'[r] = {f \in names : result'[r][f] = NONE}
  BY <1>1, <1>2
<1>4. \A f \in Field : Cache!Entry(r, f) # NONE => Cache!Entry(r, f) \in ever[<<model[r], f>>]
  BY <1>0 DEF Cache!Entry, Cache!cache_key, Cache!NamesOK, Cache!TypeOK
<1>5. \/ rpc' = rpc /\ missing'[r] = {}
      \/ rpc' = [rpc EXCEPT ![r] = "fetch"]
  BY Zenon DEF Cache!Lookup
<1>6. (rpc' = rpc /\ missing'[r] = {}) \/ rpc'[r] = "fetch"
  BY <1>0, <1>5 DEF Cache!TypeOK
<1>7. QED BY <1>1, <1>2, <1>3, <1>4, <1>6 DEF Cache!Lookup

\* What the answer gives the reader that stores it.
LEMMA StoreGives ==
    ASSUME Cache!CacheInv, NEW r \in Reader, Cache!Store(r)
    PROVE  /\ UNCHANGED <<model, ever, wanted>> /\ rpc'[r] = "lookup"
           /\ \A f \in Field : result'[r][f] # NONE => result'[r][f] \in ever[<<model[r], f>>]
           /\ \A f \in wanted[r] : result'[r][f] # NONE
<1>0. Cache!TypeOK /\ Cache!ReadersOK /\ Cache!NeverInvented
  BY DEF Cache!CacheInv
<1> DEFINE stored == [f \in missing[r] |-> Cache!OrChar(records[r][f])]
<1>1. \A f \in missing[r] : stored[f] = Cache!OrChar(records[r][f])
  OBVIOUS
<1>2. result' = [result EXCEPT ![r] =
                    [f \in Field |-> IF f \in missing[r] THEN stored[f] ELSE result[r][f]]]
  BY DEF Cache!Store
<1> HIDE DEF stored
<1>3. \A f \in Field : result'[r][f] = IF f \in missing[r] THEN stored[f] ELSE result[r][f]
  BY <1>0, <1>2 DEF Cache!TypeOK
<1>4. rpc[r] = "store" /\ rpc'[r] = "lookup" /\ UNCHANGED <<model, ever, wanted>>
  BY <1>0 DEF Cache!Store, Cache!TypeOK
<1>5. ASSUME NEW f \in Field
      PROVE  /\ result'[r][f] # NONE => result'[r][f] \in ever[<<model[r], f>>]
             /\ f \in wanted[r] => result'[r][f] # NONE
  <2>1. CASE f \in missing[r]
    <3>1. result'[r][f] = Cache!OrChar(records[r][f])
      BY <1>1, <1>3, <2>1
    <3>2. records[r][f] \in Type \cup {NONE}
      BY <1>0 DEF Cache!TypeOK
    <3>3. QED BY <1>0, <1>4, <2>1, <3>1, <3>2, OrCharType DEF Cache!ReadersOK
  <2>2. CASE f \notin missing[r]
    BY <1>0, <1>3, <1>4, <2>2 DEF Cache!ReadersOK, Cache!NeverInvented
  <2>3. QED BY <2>1, <2>2
<1>6. \A f \in wanted[r] : f \in Field
  BY <1>0 DEF Cache!TypeOK
<1>7. QED BY <1>4, <1>5, <1>6

LEMMA CacheReaders ==
    ASSUME Cache!CacheInv, Cache!Next
    PROVE  Cache!ReadersOK' /\ Cache!NeverInvented'
<1>0. Cache!TypeOK /\ Cache!NamesOK /\ Cache!ReadersOK /\ Cache!NeverInvented
  BY DEF Cache!CacheInv
<1> DEFINE Goal(q, f) ==
               /\ rpc'[q] = "store" /\ f \in missing'[q] =>
                      Cache!OrChar(records'[q][f]) \in ever'[<<model'[q], f>>]
               /\ rpc'[q] \in {"fetch", "store"} /\ f \in wanted'[q] =>
                      f \in missing'[q] \/ result'[q][f] # NONE
               /\ result'[q][f] # NONE => result'[q][f] \in ever'[<<model'[q], f>>]
<1> SUFFICES ASSUME NEW q \in Reader, NEW f \in Field
             PROVE  Goal(q, f)
  BY DEF Cache!ReadersOK, Cache!NeverInvented, Cache!OrChar
<1>1. ASSUME UNCHANGED <<model, wanted, rpc, missing, records, result>>,
             \A k \in Model \X Field : ever[k] \subseteq ever'[k]
      PROVE  Goal(q, f)
  BY <1>0, <1>1 DEF Cache!ReadersOK, Cache!NeverInvented, Cache!TypeOK
<1>2. ASSUME NEW d \in Db, NEW k \in Model \X Field, NEW t \in Type \cup {NONE},
             Cache!ChangeField(d, k, t)
      PROVE  Goal(q, f)
  <2>1. \A l \in Model \X Field : ever[l] \subseteq ever'[l]
    BY <1>0, <1>2 DEF Cache!ChangeField, Cache!TypeOK
  <2>2. UNCHANGED <<model, wanted, rpc, missing, records, result>>
    BY <1>2 DEF Cache!ChangeField
  <2>3. QED BY <1>1, <2>1, <2>2
<1>3. CASE Cache!clear_cache
  BY <1>1, <1>3 DEF Cache!clear_cache
<1>4. ASSUME NEW r \in Reader, r # q,
             \/ \E names \in (SUBSET Field) \ {{}} : Cache!Lookup(r, names)
             \/ Cache!ServerReads(r) \/ Cache!Store(r) \/ Cache!Fail(r)
      PROVE  Goal(q, f)
  <2>1. /\ rpc'[q] = rpc[q] /\ missing'[q] = missing[q] /\ records'[q] = records[q]
        /\ result'[q] = result[q] /\ wanted'[q] = wanted[q]
        /\ UNCHANGED <<model, ever>>
    BY <1>0, <1>4, OtherReaders
  <2>2. QED BY <1>0, <2>1 DEF Cache!ReadersOK, Cache!NeverInvented
<1>5. ASSUME NEW names \in SUBSET Field, Cache!Lookup(q, names) PROVE Goal(q, f)
  <2>1. /\ UNCHANGED <<model, ever, records>>
        /\ wanted'[q] = names /\ missing'[q] = {g \in names : result'[q][g] = NONE}
        /\ result'[q][f] # NONE => result'[q][f] \in ever[<<model[q], f>>]
        /\ rpc'[q] \in {"lookup", "fetch"}
    BY <1>5, LookupGives
  <2>2. QED BY <2>1
<1>6. CASE Cache!ServerReads(q)
  <2>1. /\ rpc[q] = "fetch" /\ UNCHANGED <<ever, model, wanted, missing, result>>
        /\ f \in missing[q] => records'[q][f] = ttype[db[q]][<<model[q], f>>]
    BY <1>0, <1>6 DEF Cache!ServerReads, Cache!TypeOK
  <2>2. Cache!OrChar(ttype[db[q]][<<model[q], f>>]) \in ever[<<model[q], f>>]
    BY <1>0 DEF Cache!NamesOK, Cache!TypeOK
  <2>3. QED BY <1>0, <2>1, <2>2 DEF Cache!ReadersOK, Cache!NeverInvented
<1>7. CASE Cache!Store(q)
  <2>1. /\ UNCHANGED <<model, ever>> /\ rpc'[q] = "lookup"
        /\ result'[q][f] # NONE => result'[q][f] \in ever[<<model[q], f>>]
    BY <1>7, StoreGives
  <2>2. QED BY <2>1
<1>8. CASE Cache!Fail(q)
  <2>1. rpc'[q] = "failed" /\ UNCHANGED <<model, ever, result>>
    BY <1>0, <1>8 DEF Cache!Fail, Cache!TypeOK
  <2>2. QED BY <1>0, <2>1 DEF Cache!NeverInvented
<1> HIDE DEF Goal
<1>9. QED BY <1>2, <1>3, <1>4, <1>5, <1>6, <1>7, <1>8 DEF Cache!Next

LEMMA CacheStep ==
    ASSUME Cache!CacheInv, Cache!Next \/ UNCHANGED cacheVars
    PROVE  Cache!CacheInv'
<1>1. CASE Cache!Next
  BY <1>1, CacheTypes, CacheNames, CacheReaders DEF Cache!CacheInv
<1>2. CASE UNCHANGED cacheVars
  <2>1. Cache!TypeOK'
    BY <1>2 DEF Cache!CacheInv, Cache!TypeOK, cacheVars
  <2>2. Cache!NamesOK'
    BY <1>2 DEF Cache!CacheInv, Cache!NamesOK, Cache!OrChar, cacheVars
  <2>3. Cache!ReadersOK' /\ Cache!NeverInvented'
    BY <1>2 DEF Cache!CacheInv, Cache!ReadersOK, Cache!NeverInvented, Cache!OrChar, cacheVars
  <2>4. QED BY <2>1, <2>2, <2>3 DEF Cache!CacheInv
<1>3. QED BY <1>1, <1>2

LEMMA CacheInit == Cache!Init => Cache!CacheInv
<1> SUFFICES ASSUME Cache!Init PROVE Cache!CacheInv
  OBVIOUS
<1>0. _cache = [k \in Model \X Field |-> NONE]
  <2>1. {Cache!cache_key(m, f) : m \in Model, f \in Field} = Model \X Field
    BY DEF Cache!cache_key
  <2>2. QED BY <2>1 DEF Cache!Init
<1>1. Cache!TypeOK
  <2>1. ttype \in [Db -> [Model \X Field -> Type \cup {NONE}]]
    BY DEF Cache!Init
  <2>2. _cache \in [Model \X Field -> Type \cup {NONE}]
    BY <1>0
  <2>3. ever \in [Model \X Field -> SUBSET Type]
    <3>1. \A d \in Db, k \in Model \X Field : Cache!OrChar(ttype[d][k]) \in Type
      BY <2>1, OrCharType
    <3>2. QED BY <3>1 DEF Cache!Init
  <2>4. QED BY <2>1, <2>2, <2>3 DEF Cache!Init, Cache!TypeOK
<1>2. Cache!NamesOK
  <2>1. ASSUME NEW m \in Model, NEW f \in Field
        PROVE  /\ _cache[<<m, f>>] = NONE
               /\ \A d \in Db : Cache!OrChar(ttype[d][<<m, f>>]) \in ever[<<m, f>>]
    BY <1>0 DEF Cache!Init
  <2>2. QED BY <2>1 DEF Cache!NamesOK
<1>3. Cache!ReadersOK /\ Cache!NeverInvented
  BY DEF Cache!Init, Cache!ReadersOK, Cache!NeverInvented
<1>4. QED BY <1>1, <1>2, <1>3 DEF Cache!CacheInv

-----------------------------------------------------------------------------
(* The history as a reader of the cache *)

LEMMA LogTypes ==
    /\ MsgOf \in [Row -> Msg]
    /\ MaxDate \in Nat
    /\ Type \subseteq FieldType
BY HistoryConstants

\* The names get_history asks for are those of its events.
LEMMA NamesOfEvents ==
    ASSUME TypeOK, ShownOK, pc = "types"
    PROVE  {about.field[r] : r \in events} \in (SUBSET Field) \ {{}}
<1>1. \A r \in events : about.field[r] \in Field
  BY DEF TypeOK, About
<1>2. PICK r : r \in events
  BY DEF ShownOK
<1>3. about.field[r] \in {about.field[q] : q \in events}
  BY <1>2
<1>4. {about.field[q] : q \in events} # {}
  BY <1>3
<1>5. {about.field[q] : q \in events} \subseteq Field
  BY <1>1
<1>6. QED BY <1>4, <1>5

\* Whatever happens to the log and to the call, the cache takes one of its own
\* steps or none.
LEMMA StepShares ==
    ASSUME HistoryInv, [Next]_vars
    PROVE  Cache!Next \/ UNCHANGED cacheVars
<1>0. TypeOK /\ ShownOK /\ GetHistory \in Reader
  BY TypesAreTypes DEF HistoryInv
<1>1. CASE LookupTypes
  BY <1>0, <1>1, NamesOfEvents DEF LookupTypes, Cache!Next
<1>2. CASE ReadTypes \/ StoreTypes
  BY <1>0, <1>2 DEF ReadTypes, StoreTypes, Cache!Next
<1>3. CASE Fail
  BY <1>0, <1>3 DEF Fail, Cache!Next
<1>4. ASSUME NEW d \in Db, NEW k \in Model \X Field, NEW t \in Type \cup {NONE},
             ChangeField(d, k, t)
      PROVE  Cache!Next
  BY <1>4 DEF ChangeField, Cache!Next
<1>5. ASSUME NEW r \in Reader, OtherReader(r) PROVE Cache!Next
  BY <1>5 DEF OtherReader, Cache!Next
<1>6. CASE clear_cache
  BY <1>6 DEF clear_cache, Cache!Next
<1>7. CASE \/ \E m \in Msg : Commit(m) \/ Delete(m)
           \/ Begin \/ ReadMessages \/ ReadRows \/ UNCHANGED vars
  BY <1>7 DEF Commit, Delete, Begin, ReadMessages, ReadRows, vars
<1>8. QED BY <1>1, <1>2, <1>3, <1>4, <1>5, <1>6, <1>7 DEF Next

-----------------------------------------------------------------------------
(* Initial states and types of the history *)

LEMMA InitInv == Init => HistoryInv
<1> SUFFICES ASSUME Init PROVE HistoryInv
  OBVIOUS
<1>1. Cache!CacheInv
  BY CacheInit DEF Init
<1>2. TypeOK
  <2>1. PICK s \in Scenario : about = s.about /\ res_id = s.res_id /\ options = s.options
    BY DEF Init
  <2>2. about \in About /\ res_id \in Res /\ options \in Options
    BY <2>1, HistoryConstants
  <2>3. QED BY <2>2 DEF Init, TypeOK
<1>3. ReadOK
  BY DEF Init, ReadOK
<1>4. ShownOK
  BY TypesAreTypes DEF Init, ShownOK, Cache!Init
<1>5. QED BY <1>1, <1>2, <1>3, <1>4 DEF HistoryInv

\* Other readers, changes of fields and clear_cache leave the log and the call
\* alone; so does a look-up of the history's that finds something missing.
LEMMA CacheOnly ==
    ASSUME \/ \E d \in Db, k \in Model \X Field, t \in Type \cup {NONE} : ChangeField(d, k, t)
           \/ \E r \in Reader : OtherReader(r)
           \/ clear_cache \/ ReadTypes \/ UNCHANGED vars
    PROVE  UNCHANGED <<logVars, callVars>>
BY DEF ChangeField, OtherReader, clear_cache, ReadTypes, vars

\* The messages that get_history selects.
LEMMA Selected ==
    ASSUME NEW S, NEW T \in Selections(S)
    PROVE  /\ T \subseteq S
           /\ options.limit \in {NONE, 0} => T = S
           /\ \A m \in T, k \in S \ T : about.date[m] >= about.date[k]
BY DEF Selections, Newest

LEMMA NextType == HistoryInv /\ [Next]_vars => TypeOK'
<1> SUFFICES ASSUME HistoryInv, [Next]_vars PROVE TypeOK'
  OBVIOUS
<1> USE DEF TypeOK, logVars, callVars
<1>0. TypeOK /\ Cache!TypeOK
  BY DEF HistoryInv, Cache!CacheInv
<1>1. ASSUME NEW m \in Msg, Commit(m) PROVE TypeOK'
  <2>1. \A r \in Row : TypeOf(r) \in Type \cup {NONE}
    BY <1>0, TypesAreTypes DEF TypeOf, Cache!TypeOK, About
  <2>2. wrote' \in [Row -> Type \cup {NONE}]
    BY <1>0, <1>1, <2>1 DEF Commit
  <2>3. QED BY <1>0, <1>1, <2>2 DEF Commit
<1>2. ASSUME NEW m \in Msg, Delete(m) PROVE TypeOK'
  BY <1>0, <1>2 DEF Delete
<1>3. CASE Begin
  BY <1>0, <1>3 DEF Begin, Existing
<1>4. CASE ReadMessages
  <2>1. messages' \subseteq {m \in ExistingMsg : about.res[m] = res_id /\ Since(m)}
    BY <1>4, Selected DEF ReadMessages
  <2>2. messages' \in SUBSET Msg
    BY <1>0, <2>1 DEF ExistingMsg
  <2>3. QED BY <1>0, <1>4, <2>2 DEF ReadMessages
<1>5. CASE ReadRows
  BY <1>0, <1>5 DEF ReadRows, Existing
<1>6. CASE LookupTypes \/ StoreTypes
  BY <1>0, <1>6 DEF LookupTypes, StoreTypes, Resolve
<1>7. CASE Fail
  BY <1>0, <1>7 DEF Fail
<1>8. CASE UNCHANGED <<logVars, callVars>>
  BY <1>0, <1>8
<1>9. QED
  BY <1>1, <1>2, <1>3, <1>4, <1>5, <1>6, <1>7, <1>8, CacheOnly DEF Next

-----------------------------------------------------------------------------
(* The messages and the rows *)

\* What is wanted depends on the arguments and the log's rows alone.
LEMMA SameWanted ==
    ASSUME UNCHANGED <<about, res_id, options>>
    PROVE  /\ \A r : /\ Wanted(r)' = Wanted(r) /\ InFields(r)' = InFields(r)
                     /\ DateOf(r)' = DateOf(r)
           /\ \A m : Since(m)' = Since(m)
BY DEF Wanted, InFields, DateOf, Since

\* A step that neither the log nor what the call has read takes part in.
LEMMA ReadStays ==
    ASSUME ReadOK, UNCHANGED <<about, committed, deleted, res_id, options, messages, events,
                               throughout>>,
           pc' \in {pc, "failed"} \/ (pc = "types" /\ pc' = "done")
    PROVE  ReadOK'
<1>1. Existing' = Existing
  BY DEF Existing, ExistingMsg
<1>2. QED BY <1>1, SameWanted DEF ReadOK

LEMMA NextRead == HistoryInv /\ [Next]_vars => ReadOK'
<1> SUFFICES ASSUME HistoryInv, [Next]_vars PROVE ReadOK'
  OBVIOUS
<1> USE DEF logVars, callVars
<1>0. TypeOK /\ ReadOK
  BY DEF HistoryInv
<1>1. ASSUME NEW m \in Msg, Commit(m) PROVE ReadOK'
  <2>1. /\ Existing \subseteq Existing'
        /\ UNCHANGED <<about, res_id, options, messages, events, throughout, pc>>
    BY <1>1 DEF Commit, Existing, ExistingMsg
  <2>2. QED BY <1>0, <2>1, SameWanted DEF ReadOK
<1>2. ASSUME NEW m \in Msg, Delete(m) PROVE ReadOK'
  <2>1. UNCHANGED <<about, res_id, options, messages, events, pc>>
    BY <1>2 DEF Delete
  <2>2. throughout' \subseteq throughout /\ throughout' \subseteq Existing'
    BY <1>0, <1>2 DEF Delete, Existing, ExistingMsg, ReadOK
  <2>3. QED BY <1>0, <2>1, <2>2, SameWanted DEF ReadOK
<1>3. CASE Begin
  <2>1. Existing' = Existing /\ throughout' = Existing /\ pc = "idle" /\ pc' = "messages"
        /\ UNCHANGED <<messages, events>>
    BY <1>3 DEF Begin, Existing, ExistingMsg
  <2>2. QED BY <1>0, <2>1 DEF ReadOK
<1>4. CASE ReadMessages
  <2> DEFINE S == {m \in ExistingMsg : about.res[m] = res_id /\ Since(m)}
  <2>1. /\ messages' \in Selections(S) /\ pc = "messages" /\ pc' \in {"done", "rows"}
        /\ pc' = "done" => messages' = {}
        /\ UNCHANGED <<about, committed, deleted, res_id, options, events, throughout>>
    BY <1>4 DEF ReadMessages
  <2>2. /\ messages' \subseteq S
        /\ options.limit \in {NONE, 0} => messages' = S
        /\ \A m \in messages', k \in S \ messages' : about.date[m] >= about.date[k]
    BY <2>1, Selected
  <2>3. ASSUME NEW r \in throughout, Wanted(r) PROVE MsgOf[r] \in S
    <3>1. MsgOf[r] \in ExistingMsg
      BY <1>0, <2>3 DEF ReadOK, Existing
    <3>2. QED BY <2>3, <3>1 DEF Wanted, Since, DateOf
  <2>4. \A m \in messages' : about.res[m] = res_id /\ Since(m)
    BY <2>2
  <2>5. ASSUME NEW r \in throughout, Wanted(r)
        PROVE  \/ MsgOf[r] \in messages' /\ pc' = "rows"
               \/ /\ options.limit \notin {NONE, 0}
                  /\ \A m \in messages' : about.date[m] >= DateOf(r)
    <3>1. CASE MsgOf[r] \in messages'
      BY <2>1, <3>1
    <3>2. CASE MsgOf[r] \notin messages'
      <4>1. MsgOf[r] \in S \ messages'
        BY <2>3, <2>5, <3>2
      <4> HIDE DEF S
      <4>2. \A m \in messages' : about.date[m] >= DateOf(r)
        BY <2>2, <4>1 DEF DateOf
      <4>3. QED BY <2>2, <4>1, <4>2
    <3>3. QED BY <3>1, <3>2
  <2>6. events = {} /\ throughout \subseteq Existing /\ Existing' = Existing
    BY <1>0, <2>1 DEF ReadOK, Existing, ExistingMsg
  <2> HIDE DEF S
  <2>7. QED BY <2>1, <2>4, <2>5, <2>6, SameWanted DEF ReadOK
<1>5. CASE ReadRows
  <2>1. /\ events' = {r \in Existing : MsgOf[r] \in messages /\ InFields(r)}
        /\ pc = "rows" /\ pc' \in {"done", "types"}
        /\ UNCHANGED <<about, committed, deleted, res_id, options, messages, throughout>>
    BY <1>5 DEF ReadRows
  <2>2. Existing' = Existing
    BY <2>1 DEF Existing, ExistingMsg
  <2>3. ASSUME NEW r \in throughout, Wanted(r), MsgOf[r] \in messages PROVE r \in events'
    BY <1>0, <2>1, <2>3 DEF ReadOK, Wanted
  <2>4. QED BY <1>0, <2>1, <2>2, <2>3, SameWanted DEF ReadOK
<1>6. CASE LookupTypes \/ StoreTypes
  <2>1. /\ UNCHANGED <<about, committed, deleted, res_id, options, messages, events,
                       throughout>>
        /\ pc = "types" /\ pc' \in {"types", "done"}
    BY <1>6 DEF LookupTypes, StoreTypes, Resolve
  <2>2. QED BY <1>0, <2>1, ReadStays
<1>7. CASE Fail
  BY <1>0, <1>7, ReadStays DEF Fail
<1>8. CASE UNCHANGED <<logVars, callVars>>
  BY <1>0, <1>8, ReadStays
<1>9. QED
  BY <1>1, <1>2, <1>3, <1>4, <1>5, <1>6, <1>7, <1>8, CacheOnly DEF Next

-----------------------------------------------------------------------------
(* The types of the fields *)

\* The events are put together with a type for each of their fields.
LEMMA ResolveShows ==
    ASSUME TypeOK, NEW metadata, Resolve(metadata), UNCHANGED <<ever, model>>,
           \A r \in events :
               /\ metadata[about.field[r]] \in ever[<<model[GetHistory], about.field[r]>>]
    PROVE  \A r \in events' : \E t \in ever'[<<model'[GetHistory], about'.field[r]>>] :
                                  shown'[r] = resolve_values(t)
<1>1. events' = events /\ about' = about
  BY DEF Resolve, logVars
<1>2. ASSUME NEW r \in events PROVE shown'[r] = resolve_values(metadata[about.field[r]])
  BY DEF Resolve, TypeOK
<1>3. QED BY <1>1, <1>2

LEMMA NextShown == HistoryInv /\ [Next]_vars => ShownOK'
<1> SUFFICES ASSUME HistoryInv, [Next]_vars PROVE ShownOK'
  OBVIOUS
<1> USE DEF logVars, callVars
<1> DEFINE G == GetHistory
           Names == {about.field[r] : r \in events}
<1>0. /\ TypeOK /\ ReadOK /\ ShownOK /\ Cache!CacheInv /\ Cache!TypeOK
      /\ GetHistory \in Reader
  BY TypesAreTypes DEF HistoryInv, Cache!CacheInv
<1>1. CASE \/ \E m \in Msg : Commit(m) \/ Delete(m)
           \/ Begin
  <2>1. /\ pc \in {"idle", "messages", "rows"} /\ pc' \in {"idle", "messages", "rows"}
        /\ UNCHANGED <<rpc, wanted>>
    BY <1>1 DEF Commit, Delete, Begin, LogIsRead, cacheVars
  <2>2. QED BY <1>0, <2>1 DEF ShownOK
<1>2. CASE ReadMessages \/ ReadRows
  <2>1. /\ pc \in {"messages", "rows"} /\ pc' \in {"done", "rows", "types"}
        /\ UNCHANGED <<rpc, wanted>>
        /\ pc' = "done" => events' = {}
        /\ pc' = "types" => events' # {}
    BY <1>0, <1>2 DEF ReadMessages, ReadRows, cacheVars, ReadOK
  <2>2. QED BY <1>0, <2>1 DEF ShownOK
<1>3. CASE LookupTypes
  <2>1. /\ pc = "types" /\ Cache!Lookup(G, Names) /\ Names \in SUBSET Field
        /\ \/ rpc' # rpc /\ UNCHANGED <<logVars, callVars>>
           \/ rpc' = rpc /\ Resolve(result'[G])
    BY <1>0, <1>3, NamesOfEvents DEF LookupTypes
  <2>2. /\ UNCHANGED <<model, ever>> /\ wanted'[G] = Names
        /\ missing'[G] = {f \in Names : result'[G][f] = NONE}
        /\ \A f \in Field : result'[G][f] # NONE => result'[G][f] \in ever[<<model[G], f>>]
        /\ \/ rpc' = rpc /\ rpc[G] = "lookup" /\ missing'[G] = {}
           \/ rpc'[G] = "fetch"
    BY <1>0, <2>1, LookupGives
  <2>3. CASE rpc' # rpc /\ UNCHANGED <<logVars, callVars>>
    BY <1>0, <2>1, <2>2, <2>3 DEF ShownOK
  <2>4. CASE rpc' = rpc /\ Resolve(result'[G])
    <3>1. rpc'[G] \notin {"fetch", "store"}
      BY <1>0, <2>2, <2>4, <2>1 DEF Cache!Lookup
    <3>2. missing'[G] = {}
      BY <2>2, <3>1
    <3>3. ASSUME NEW r \in events
          PROVE  result'[G][about.field[r]] \in ever[<<model[G], about.field[r]>>]
      <4>1. about.field[r] \in Names /\ about.field[r] \in Field
        BY <2>1
      <4>2. QED BY <2>2, <3>2, <4>1
    <3>4. pc' = "done"
      BY <2>4 DEF Resolve
    <3>5. QED BY <1>0, <2>2, <2>4, <3>1, <3>3, <3>4, ResolveShows DEF ShownOK
  <2>5. QED BY <2>1, <2>3, <2>4
<1>4. CASE ReadTypes
  <2>1. /\ rpc[G] = "fetch" /\ UNCHANGED <<logVars, callVars, wanted, model, ever>>
    BY <1>4 DEF ReadTypes, Cache!ServerReads
  <2>2. QED BY <1>0, <2>1 DEF ShownOK
<1>5. CASE StoreTypes
  <2>1. pc = "types" /\ Cache!Store(G) /\ Resolve(result'[G]) /\ rpc[G] = "store"
    BY <1>5 DEF StoreTypes, Cache!Store
  <2>2. /\ UNCHANGED <<model, ever, wanted>> /\ rpc'[G] = "lookup"
        /\ \A f \in Field : result'[G][f] # NONE => result'[G][f] \in ever[<<model[G], f>>]
        /\ \A f \in wanted[G] : result'[G][f] # NONE
    BY <1>0, <2>1, StoreGives
  <2>3. wanted[G] = Names /\ Names \in SUBSET Field
    BY <1>0, <2>1, NamesOfEvents DEF ShownOK
  <2>4. ASSUME NEW r \in events
        PROVE  result'[G][about.field[r]] \in ever[<<model[G], about.field[r]>>]
    <3>1. about.field[r] \in Names /\ about.field[r] \in Field
      BY <2>3
    <3>2. QED BY <2>2, <2>3, <3>1
  <2>5. pc' = "done"
    BY <2>1 DEF Resolve
  <2>6. QED BY <1>0, <2>1, <2>2, <2>4, <2>5, ResolveShows DEF ShownOK
<1>6. CASE Fail
  <2>1. CASE pc \in {"messages", "rows"} /\ UNCHANGED cacheVars
    BY <1>0, <1>6, <2>1 DEF Fail, ShownOK, cacheVars
  <2>2. CASE pc = "types" /\ Cache!Fail(G)
    <3>1. pc' = "failed" /\ rpc'[G] = "failed"
      BY <1>0, <1>6, <2>2 DEF Fail, Cache!Fail, Cache!TypeOK
    <3>2. QED BY <3>1 DEF ShownOK
  <2>3. QED BY <1>6, <2>1, <2>2 DEF Fail
\* What the others do: nothing is changed of the reader that get_history is, nor,
\* once it has ended, of any field.
<1>7. ASSUME UNCHANGED <<logVars, callVars>>, rpc'[G] = rpc[G], wanted'[G] = wanted[G],
             model' = model, pc = "done" => ever' = ever
      PROVE  ShownOK'
  BY <1>0, <1>7 DEF ShownOK
<1>8. ASSUME NEW d \in Db, NEW k \in Model \X Field, NEW t \in Type \cup {NONE},
             ChangeField(d, k, t)
      PROVE  ShownOK'
  BY <1>7, <1>8 DEF ChangeField, Cache!ChangeField, Ended
<1>9. ASSUME NEW r \in Reader, OtherReader(r) PROVE ShownOK'
  <2>1. /\ G # r /\ UNCHANGED <<logVars, callVars>>
        /\ \/ \E names \in SUBSET Field : Cache!Lookup(r, names)
           \/ Cache!ServerReads(r) \/ Cache!Store(r) \/ Cache!Fail(r)
    BY <1>9 DEF OtherReader
  <2>2. rpc'[G] = rpc[G] /\ wanted'[G] = wanted[G] /\ UNCHANGED <<model, ever>>
    BY <1>0, <2>1, OtherReaders
  <2>3. QED BY <1>7, <2>1, <2>2
<1>10. CASE clear_cache
  BY <1>7, <1>10 DEF clear_cache, Cache!clear_cache
<1>11. CASE UNCHANGED vars
  BY <1>7, <1>11 DEF vars, cacheVars
<1>12. QED
  BY <1>1, <1>2, <1>3, <1>4, <1>5, <1>6, <1>8, <1>9, <1>10, <1>11 DEF Next

LEMMA NextInv == HistoryInv /\ [Next]_vars => HistoryInv'
BY StepShares, CacheStep, NextType, NextRead, NextShown DEF HistoryInv

-----------------------------------------------------------------------------
(* Theorems *)

\* What the call has read fits the log, and what it is given by the cache fits
\* the fields.
THEOREM HistoryInvariance == Spec => []HistoryInv
<1>1. QED BY InitInv, NextInv, PTL DEF Spec

\* get_history is a reader of the cache like any other: together with the
\* readers beside it, it does what FieldCache says readers do.
THEOREM SharesCache == Spec => Cache!Spec
<1>1. Init => Cache!Init
  BY DEF Init
<1>2. HistoryInv /\ [Next]_vars => [Cache!Next]_(Cache!vars)
  BY StepShares DEF cacheVars
<1>3. QED BY <1>1, <1>2, HistoryInvariance, PTL DEF Spec, Cache!Spec

\* The type any reader is given for a field is one the field has had.
THEOREM TypesNotInvented == Spec => []NeverInvented
<1>1. HistoryInv => NeverInvented
  BY DEF HistoryInv, Cache!CacheInv, NeverInvented
<1>2. QED BY <1>1, HistoryInvariance, PTL

\* Without a limit get_history returns every wanted change that was there
\* throughout, and none that was not asked for.
THEOREM AllChanges == Spec => []Complete
<1>1. ASSUME HistoryInv PROVE Complete
  <2>1. SUFFICES ASSUME pc = "done", options.limit \in {NONE, 0}
                 PROVE  /\ \A r \in throughout : Wanted(r) => r \in events
                        /\ \A r \in events : Wanted(r)
    BY DEF Complete
  <2>2. \A r \in throughout : Wanted(r) => r \in events
    BY <1>1, <2>1 DEF HistoryInv, ReadOK
  <2>3. \A r \in events : Wanted(r)
    BY <1>1 DEF HistoryInv, ReadOK, Wanted, Since, DateOf
  <2>4. QED BY <2>2, <2>3
<1>2. QED BY <1>1, HistoryInvariance, PTL

\* A limit drops no change that is newer than one it keeps.
THEOREM LimitDropsOldest == Spec => []NewestKept
<1>1. ASSUME HistoryInv PROVE NewestKept
  <2>1. SUFFICES ASSUME pc = "done", NEW r \in throughout, NEW e \in events,
                        Wanted(r), DateOf(r) > DateOf(e)
                 PROVE  r \in events
    BY DEF NewestKept
  <2>2. MsgOf[e] \in messages
    BY <1>1 DEF HistoryInv, ReadOK
  <2>3. DateOf(r) \in Nat /\ DateOf(e) \in Nat
    BY <1>1, LogTypes DEF HistoryInv, TypeOK, DateOf, About, Date
  <2>4. ~(DateOf(e) >= DateOf(r))
    BY <2>1, <2>3
  <2>5. ~\A m \in messages : about.date[m] >= DateOf(r)
    BY <2>2, <2>4 DEF DateOf
  <2>6. QED BY <1>1, <2>1, <2>5 DEF HistoryInv, ReadOK
<1>2. QED BY <1>1, HistoryInvariance, PTL

\* Every type but text is shown by the columns its values are stored in.
LEMMA ShownAsStored ==
    ASSUME NEW t \in FieldType, t # "text"
    PROVE  Shows(resolve_values(t), t)
BY DEF FieldType, Shows, resolve_values, StoredIn

\* An event shows what its row was stored with, if its field has never had
\* another type.
THEOREM ShowsWhatWasStored == Spec => []ValuesAreShown
<1>1. ASSUME HistoryInv PROVE ValuesAreShown
  <2>1. SUFFICES ASSUME pc = "done", NEW r \in events, wrote[r] # "text",
                        ever[<<model[GetHistory], about.field[r]>>] = {wrote[r]}
                 PROVE  Shows(shown[r], wrote[r])
    BY DEF ValuesAreShown
  <2>2. shown[r] = resolve_values(wrote[r])
    BY <1>1, <2>1 DEF HistoryInv, ShownOK
  <2>3. wrote[r] \in FieldType
    <3>1. <<model[GetHistory], about.field[r]>> \in Model \X Field
      BY <1>1, TypesAreTypes DEF HistoryInv, TypeOK, About, Cache!CacheInv, Cache!TypeOK
    <3>2. ever[<<model[GetHistory], about.field[r]>>] \subseteq Type
      BY <1>1, <3>1 DEF HistoryInv, Cache!CacheInv, Cache!TypeOK
    <3>3. QED BY <2>1, <3>2, LogTypes
  <2>4. QED BY <2>1, <2>2, <2>3, ShownAsStored
<1>2. QED BY <1>1, HistoryInvariance, PTL

=============================================================================
