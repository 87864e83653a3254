----------------------------- MODULE FieldCache -----------------------------
(***************************************************************************)
(* services/cdc/field_cache.py: the metadata of tracked fields, in one     *)
(* dict of the Python module that every client of the process shares and   *)
(* that is keyed by model and field alone.                                 *)
(*                                                                         *)
(* Each reader is one feed iteration (or one get_history): it calls        *)
(* ensure_fields_cached once per page.  The lookup, the server's answer    *)
(* and the store that follows it are separate actions; databases change    *)
(* their fields, and readers of several databases interleave, in between.  *)
(***************************************************************************)
EXTENDS Naturals, FiniteSets

CONSTANTS
    Reader,         \* feed iterations and histories
    Db,             \* databases, one client each
    Model, Field,
    Type,           \* values of ir.model.fields.ttype
    CHAR,           \* "char", the type of a field that is not found
    NONE,           \* no entry
    Pages           \* bound on the pages of a reader

Meta == Type \cup {NONE}

VARIABLES
    ttype,          \* ttype[d][m, f]: ir.model.fields of each database
    _cache,         \* the module's dict
    db, model,      \* each reader's database and model
    wanted,         \* the field names of its page
    pc,             \* where each reader is
    missing,        \* the names ensure_fields_cached asks the server for
    records,        \* the server's answer
    result,         \* the dict ensure_fields_cached returns
    page            \* pages read so far

\* History: the types each name has had, in any database at any time.
VARIABLE ever

readerVars == <<pc, missing, records, result, page>>
vars == <<ttype, _cache, db, model, wanted, readerVars, ever>>

\* Fault: a key without the model.
cache_key_NoModel(m, f) == f

cache_key(m, f) == <<m, f>>

\* What a reader of a field that has no ir.model.fields record is given.
OrChar(t) == IF t = NONE THEN CHAR ELSE t

Init ==
    /\ ttype \in [Db -> [Model \X Field -> Meta]]
    /\ _cache = [k \in {cache_key(m, f) : m \in Model, f \in Field} |-> NONE]
    /\ db \in [Reader -> Db]
    /\ model \in [Reader -> Model]
    /\ wanted = [r \in Reader |-> {}]
    /\ pc = [r \in Reader |-> "lookup"]
    /\ missing = [r \in Reader |-> {}]
    /\ records = [r \in Reader |-> [f \in Field |-> NONE]]
    /\ result = [r \in Reader |-> [f \in Field |-> NONE]]
    /\ page = [r \in Reader |-> 0]
    /\ ever = [k \in Model \X Field |-> {OrChar(ttype[d][k]) : d \in Db}]

\* A database gains, loses or retypes a field.
ChangeField(d, k, t) ==
    /\ t # ttype[d][k]
    /\ ttype' = [ttype EXCEPT ![d][k] = t]
    /\ ever' = [ever EXCEPT ![k] = @ \cup {OrChar(t)}]
    /\ UNCHANGED <<_cache, db, model, wanted, readerVars>>

Entry(r, f) == _cache[cache_key(model[r], f)]

\* The first loop: what is cached is taken, the rest is missing.
Lookup(r, names) ==
    /\ pc[r] = "lookup"
    /\ page[r] < Pages
    /\ wanted' = [wanted EXCEPT ![r] = names]
    /\ result' = [result EXCEPT ![r] =
                    [f \in Field |-> IF f \in names THEN Entry(r, f) ELSE NONE]]
    /\ missing' = [missing EXCEPT ![r] = {f \in names : Entry(r, f) = NONE}]
    /\ IF missing'[r] = {}
       THEN page' = [page EXCEPT ![r] = @ + 1] /\ UNCHANGED pc
       ELSE pc' = [pc EXCEPT ![r] = "fetch"] /\ UNCHANGED page
    /\ UNCHANGED <<ttype, _cache, db, model, records, ever>>

\* The server reads ir.model.fields for the missing names.
ServerReads(r) ==
    /\ pc[r] = "fetch"
    /\ records' = [records EXCEPT ![r] =
                    [f \in Field |-> IF f \in missing[r]
                                     THEN ttype[db[r]][<<model[r], f>>] ELSE NONE]]
    /\ pc' = [pc EXCEPT ![r] = "store"]
    /\ UNCHANGED <<ttype, _cache, db, model, wanted, missing, result, page, ever>>

\* The answer arrives: found names are stored with their type, and names that
\* were not found as char, for good.
Store(r) ==
    /\ pc[r] = "store"
    /\ LET stored == [f \in missing[r] |-> OrChar(records[r][f])]
       IN  /\ _cache' = [k \in DOMAIN _cache |->
                            IF \E f \in missing[r] : cache_key(model[r], f) = k
                            THEN stored[CHOOSE f \in missing[r] :
                                            cache_key(model[r], f) = k]
                            ELSE _cache[k]]
           /\ result' = [result EXCEPT ![r] =
                            [f \in Field |-> IF f \in missing[r] THEN stored[f]
                                             ELSE result[r][f]]]
    /\ records' = [records EXCEPT ![r] = [f \in Field |-> NONE]]
    /\ missing' = [missing EXCEPT ![r] = {}]
    /\ page' = [page EXCEPT ![r] = @ + 1]
    /\ pc' = [pc EXCEPT ![r] = "lookup"]
    /\ UNCHANGED <<ttype, db, model, wanted, ever>>

\* The read fails: the reader ends with an exception and stores nothing.
Fail(r) ==
    /\ pc[r] \in {"fetch", "store"}
    /\ pc' = [pc EXCEPT ![r] = "failed"]
    /\ records' = [records EXCEPT ![r] = [f \in Field |-> NONE]]
    /\ missing' = [missing EXCEPT ![r] = {}]
    /\ UNCHANGED <<ttype, _cache, db, model, wanted, result, page, ever>>

clear_cache ==
    /\ _cache' = [k \in DOMAIN _cache |-> NONE]
    /\ UNCHANGED <<ttype, db, model, wanted, readerVars, ever>>

Next ==
    \/ \E d \in Db, k \in Model \X Field, t \in Meta : ChangeField(d, k, t)
    \/ \E r \in Reader :
           \/ \E names \in (SUBSET Field) \ {{}} : Lookup(r, names)
           \/ ServerReads(r) \/ Store(r) \/ Fail(r)
    \/ clear_cache

Spec == Init /\ [][Next]_vars

-----------------------------------------------------------------------------
(* Properties *)

\* Interleaved readers never mix up names: the type given for a field is one
\* that field of that model has had in some database.
NeverInvented ==
    \A r \in Reader, f \in Field :
        result[r][f] # NONE => result[r][f] \in ever[<<model[r], f>>]

-----------------------------------------------------------------------------
(* The inductive invariant the proofs rest on *)

\* Every variable has its type.
TypeOK ==
    /\ ttype \in [Db -> [Model \X Field -> Meta]]
    /\ _cache \in [Model \X Field -> Meta]
    /\ db \in [Reader -> Db]
    /\ model \in [Reader -> Model]
    /\ wanted \in [Reader -> SUBSET Field]
    /\ pc \in [Reader -> {"lookup", "fetch", "store", "failed"}]
    /\ missing \in [Reader -> SUBSET Field]
    /\ records \in [Reader -> [Field -> Meta]]
    /\ result \in [Reader -> [Field -> Meta]]
    /\ page \in [Reader -> Nat]
    /\ ever \in [Model \X Field -> SUBSET Type]

\* What is cached for a name, and what a database says of it, it has been.
NamesOK ==
    \A m \in Model, f \in Field :
        /\ _cache[<<m, f>>] # NONE => _cache[<<m, f>>] \in ever[<<m, f>>]
        /\ \A d \in Db : OrChar(ttype[d][<<m, f>>]) \in ever[<<m, f>>]

\* So has what a reader has been answered; and of every name it wants it has a
\* type, or asks for it.
ReadersOK ==
    \A r \in Reader, f \in Field :
        /\ pc[r] = "store" /\ f \in missing[r] =>
               OrChar(records[r][f]) \in ever[<<model[r], f>>]
        /\ pc[r] \in {"fetch", "store"} /\ f \in wanted[r] =>
               f \in missing[r] \/ result[r][f] # NONE

CacheInv == TypeOK /\ NamesOK /\ ReadersOK /\ NeverInvented

=============================================================================
