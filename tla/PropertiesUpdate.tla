-------------------------- MODULE PropertiesUpdate --------------------------
(***************************************************************************)
(* services/properties/functions.py: update_safely reads a properties      *)
(* field, merges its updates into what it read and writes the whole field  *)
(* back, because Odoo replaces a properties field as a whole.              *)
(* update_safely_batch runs one update_safely per record in                *)
(* asyncio.gather.                                                         *)
(*                                                                         *)
(* Every RPC is one action, at the moment the server handles it.  Others   *)
(* edit single properties in the meantime, and a write whose caller has    *)
(* given up (a timeout) may reach the server late.                         *)
(***************************************************************************)
EXTENDS Naturals, FiniteSets

CONSTANTS
    Update,         \* invocations of update_safely
    Batch,          \* those that one update_safely_batch has made
    Record,         \* record ids
    Name,           \* property names
    Value,          \* property values
    ABSENT          \* a record has no such property

ASSUME ConstantsAssumption ==
    /\ Batch \subseteq Update
    /\ ABSENT \notin Value

VARIABLES
    props,          \* the properties field of every record on the server
    record_id,      \* argument record_id of each update
    updates,        \* argument updates: the value for a name, or ABSENT
    at,             \* where each update is
    merged,         \* the merged properties an update writes
    late,           \* updates whose write may still reach the server
    batch           \* what the caller of update_safely_batch sees

\* History: the field as it would be had every change touched its names only,
\* and the records that changed while an update had read and not yet written.
VARIABLES intended, disturbed

updatesVars == <<props, record_id, updates, at, merged, late, batch, intended, disturbed>>

Properties == [Name -> Value \cup {ABSENT}]

Empty == [n \in Name |-> ABSENT]

\* The merge loop: a given value replaces or adds, all else stays.
Merge(current, new) ==
    [n \in Name |-> IF new[n] # ABSENT THEN new[n] ELSE current[n]]

UpdatesInit ==
    /\ props = [r \in Record |-> Empty]
    /\ record_id \in [Update -> Record]
    /\ \A u, v \in Batch : u # v => record_id[u] # record_id[v]
    /\ updates \in [Update -> Properties \ {Empty}]
    /\ \A u, v \in Batch : updates[u] = updates[v]
    /\ at = [u \in Update |-> "idle"]
    /\ merged = [u \in Update |-> Empty]
    /\ late = {}
    /\ batch = "running"
    /\ intended = props
    /\ disturbed = {}

\* u has read its record, and its write has not reached the server.
Holds(u) == at[u] = "write" \/ u \in late

\* Someone has read the record and not written it, as far as the server knows.
Held(r, others) ==
    \E u \in others : record_id[u] = r /\ Holds(u)

\* A change of r by nobody of others.
Disturb(r, others) ==
    disturbed' = IF Held(r, others) THEN disturbed \cup {r} ELSE disturbed

\* Another client sets one property.
Edit(r, n, v) ==
    /\ props' = [props EXCEPT ![r][n] = v]
    /\ Disturb(r, Update)
    /\ intended' = [intended EXCEPT ![r][n] = v]
    /\ UNCHANGED <<record_id, updates, at, merged, late, batch>>

\* Fault: only the updates are kept for the write.
ReadAndMerge_UpdatesOnly(u) ==
    /\ at[u] = "idle"
    /\ merged' = [merged EXCEPT ![u] = updates[u]]
    /\ at' = [at EXCEPT ![u] = "write"]
    /\ UNCHANGED <<props, record_id, updates, late, batch, intended, disturbed>>

\* client.read, and the merge of what it returns.
ReadAndMerge(u) ==
    /\ at[u] = "idle"
    /\ merged' = [merged EXCEPT ![u] = Merge(props[record_id[u]], updates[u])]
    /\ at' = [at EXCEPT ![u] = "write"]
    /\ UNCHANGED <<props, record_id, updates, late, batch, intended, disturbed>>

\* The server replaces the whole field.
Replace(u) ==
    /\ props' = [props EXCEPT ![record_id[u]] = merged[u]]
    /\ intended' = [intended EXCEPT ![record_id[u]] = Merge(@, updates[u])]
    /\ Disturb(record_id[u], Update \ {u})

\* client.write returns.
Write(u) ==
    /\ at[u] = "write"
    /\ Replace(u)
    /\ at' = [at EXCEPT ![u] = "written"]
    /\ UNCHANGED <<record_id, updates, merged, late, batch>>

\* The read or the write raises, or its task is cancelled there.  A write may
\* still reach the server.
UpdateFails(u) ==
    /\ at[u] \in {"idle", "write"}
    /\ at' = [at EXCEPT ![u] = "failed"]
    /\ late' \in {late, IF at[u] = "write" THEN late \cup {u} ELSE late}
    /\ UNCHANGED <<props, record_id, updates, merged, batch, intended, disturbed>>

\* The server handles, or drops, a write nobody waits for.
LateWrite(u) ==
    /\ u \in late
    /\ late' = late \ {u}
    /\ Replace(u) \/ UNCHANGED <<props, intended, disturbed>>
    /\ UNCHANGED <<record_id, updates, at, merged, batch>>

-----------------------------------------------------------------------------
(* update_safely_batch *)

\* Fault: gather(return_exceptions=True), and nobody looks at the results.
BatchReturns_Swallows ==
    /\ batch = "running"
    /\ \A u \in Batch : at[u] \in {"written", "failed"}
    /\ batch' = "ok"
    /\ UNCHANGED <<props, record_id, updates, at, merged, late, intended, disturbed>>

\* gather returns once every update has.
BatchReturns ==
    /\ batch = "running"
    /\ \A u \in Batch : at[u] = "written"
    /\ batch' = "ok"
    /\ UNCHANGED <<props, record_id, updates, at, merged, late, intended, disturbed>>

\* gather raises the first exception at once; the other updates go on.
BatchRaises ==
    /\ batch = "running"
    /\ \E u \in Batch : at[u] = "failed"
    /\ batch' = "raised"
    /\ UNCHANGED <<props, record_id, updates, at, merged, late, intended, disturbed>>

-----------------------------------------------------------------------------

UpdateStep(u) == ReadAndMerge(u) \/ Write(u) \/ UpdateFails(u)

UpdatesNext ==
    \/ \E u \in Update : UpdateStep(u) \/ LateWrite(u)
    \/ \E r \in Record, n \in Name, v \in Value : Edit(r, n, v)
    \/ BatchReturns
    \/ BatchRaises

UpdatesSpec == UpdatesInit /\ [][UpdatesNext]_updatesVars

-----------------------------------------------------------------------------
(* Properties *)

\* Every variable has its type.
UpdatesTypeOK ==
    /\ props \in [Record -> Properties]
    /\ record_id \in [Update -> Record]
    /\ updates \in [Update -> Properties]
    /\ at \in [Update -> {"idle", "write", "written", "failed"}]
    /\ merged \in [Update -> Properties]
    /\ late \in SUBSET Update
    /\ batch \in {"running", "ok", "raised"}
    /\ intended \in [Record -> Properties]
    /\ disturbed \in SUBSET Record

\* docs/services/properties.md: the service solves that "all other properties
\* on the record are erased".  No change of a property is undone by an update of
\* others, unless it came, or a late write did, between a read and its write.
NothingErased ==
    \A r \in Record \ disturbed : props[r] = intended[r]

\* update_safely_batch returns normally only with every record written: then
\* each property of its updates is on each of its records, and stays there while
\* nobody comes between somebody else's read and write.
BatchOkMeansAllWritten ==
    batch = "ok" =>
        \A u \in Batch, n \in Name :
            updates[u][n] # ABSENT /\ record_id[u] \notin disturbed =>
                props[record_id[u]][n] # ABSENT

-----------------------------------------------------------------------------
(* The inductive invariant the proofs rest on *)

\* What u has merged is what it would merge now, and what it has written is
\* there, unless somebody came between somebody's read and write.
UpdateOK(u) ==
    /\ u \in late => at[u] = "failed"
    /\ record_id[u] \notin disturbed =>
           /\ Holds(u) => merged[u] = Merge(props[record_id[u]], updates[u])
           /\ at[u] = "written" =>
                  \A n \in Name : updates[u][n] # ABSENT => props[record_id[u]][n] # ABSENT

BatchOK == batch = "ok" => \A u \in Batch : at[u] = "written"

UpdatesInv == UpdatesTypeOK /\ NothingErased /\ (\A u \in Update : UpdateOK(u)) /\ BatchOK

=============================================================================
