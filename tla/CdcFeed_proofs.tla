--------------------------- MODULE CdcFeed_proofs ---------------------------
(***************************************************************************)
(* Proofs about CdcFeed, for any number of rows, messages, failures and    *)
(* any page size.                                                          *)
(*                                                                         *)
(* The argument: a page is the first of the matching rows (TrackingRows),  *)
(* so that no row that is owed is missing between two of its rows          *)
(* (PageOK), and the cursor, which follows the page row by row, never      *)
(* passes one that has not been handled (PassedOK).  A transaction that    *)
(* commits meanwhile cannot break this: those of its rows that lie below   *)
(* what is committed are overtaken, and no longer owed (CommitOwes).       *)
(***************************************************************************)
EXTENDS CdcFeed, FiniteSetTheorems, WellFoundedInduction, TLAPS

-----------------------------------------------------------------------------
(* Least rows and first rows *)

\* A set of ids has a least one, and Least is it.
LEMMA LeastOfRows ==
    ASSUME NEW S \in SUBSET Nat, S # {}
    PROVE  Least(S) \in S /\ \A x \in S : Least(S) <= x
<1> DEFINE lt == OpToRel(<, Nat)
<1>1. IsWellFoundedOn(lt, Nat)
  BY NatLessThanWellFounded
<1>2. PICK x \in S : \A y \in S : ~(<<y, x>> \in lt)
  <2> HIDE DEF lt
  <2>1. QED BY <1>1, WFMin
<1>3. ASSUME NEW y \in S, y < x PROVE FALSE
  <2>1. <<y, x>> \in Nat \X Nat /\ <<y, x>>[1] < <<y, x>>[2]
    BY <1>3
  <2>2. <<y, x>> \in lt
    BY <2>1, Zenon DEF OpToRel
  <2>3. QED BY <1>2, <2>2
<1>4. \A y \in S : x <= y
  BY <1>3
<1>5. QED BY <1>4 DEF Least

\* A page is taken from the matching rows.
LEMMA FirstRowsAreRows ==
    ASSUME NEW S, NEW n
    PROVE  FirstRows(S, n) \subseteq S
BY DEF FirstRows

\* A page leaves out no row below one of its own.
LEMMA FirstRowsAreFirst ==
    ASSUME NEW S \in SUBSET Nat, IsFiniteSet(S), NEW n \in Nat,
           NEW p \in FirstRows(S, n), NEW r \in S, r < p
    PROVE  r \in FirstRows(S, n)
<1> DEFINE Below(x) == {s \in S : s < x}
<1>1. p \in S /\ p \in Nat /\ r \in Nat /\ Cardinality(Below(p)) < n
  BY DEF FirstRows
<1>2. Below(p) \in SUBSET S /\ Below(r) \in SUBSET Below(p)
  <2>1. ASSUME NEW s \in S, s < r PROVE s < p
    BY <1>1, <2>1
  <2>2. QED BY <2>1
<1>3. IsFiniteSet(Below(p)) /\ IsFiniteSet(Below(r))
  BY <1>2, FS_Subset
<1>4. Cardinality(Below(r)) <= Cardinality(Below(p))
  BY <1>2, <1>3, FS_Subset
<1>5. Cardinality(Below(r)) \in Nat /\ Cardinality(Below(p)) \in Nat
  BY <1>3, FS_CardinalityType
<1>6. Cardinality(Below(r)) < n
  BY <1>1, <1>4, <1>5
<1>7. QED BY <1>6 DEF FirstRows

\* A page with fewer rows than asked for holds every matching row: the least of
\* the rows left out would have only rows of the page below it.
LEMMA ShortPageIsLast ==
    ASSUME NEW S \in SUBSET Nat, IsFiniteSet(S), NEW n \in Nat,
           Cardinality(FirstRows(S, n)) < n
    PROVE  FirstRows(S, n) = S
<1> DEFINE Rest == S \ FirstRows(S, n)
<1>1. SUFFICES ASSUME Rest # {} PROVE FALSE
  BY FirstRowsAreRows
<1>2. /\ Least(Rest) \in Rest
      /\ \A x \in Rest : Least(Rest) <= x
  BY <1>1, LeastOfRows
<1> DEFINE r == Least(Rest)
<1> HIDE DEF r
<1>3. r \in S /\ r \notin FirstRows(S, n) /\ \A x \in Rest : r <= x
  BY <1>2 DEF r
<1>4. {s \in S : s < r} \in SUBSET FirstRows(S, n)
  <2>1. SUFFICES ASSUME NEW s \in S, s < r, s \notin FirstRows(S, n) PROVE FALSE
    OBVIOUS
  <2>2. r <= s
    BY <1>3, <2>1
  <2>3. s \in Nat /\ r \in Nat
    BY <1>3, <2>1
  <2>4. QED BY <2>1, <2>2, <2>3
<1>5. IsFiniteSet(FirstRows(S, n))
  BY FS_Subset, FirstRowsAreRows
<1>6. Cardinality({s \in S : s < r}) <= Cardinality(FirstRows(S, n))
  BY <1>4, <1>5, FS_Subset
<1>7. Cardinality({s \in S : s < r}) \in Nat /\ Cardinality(FirstRows(S, n)) \in Nat
  BY <1>4, <1>5, FS_Subset, FS_CardinalityType
<1>8. ~(Cardinality({s \in S : s < r}) < n)
  BY <1>3 DEF FirstRows
<1>9. QED BY <1>6, <1>7, <1>8

\* No page is empty while there are matching rows.
LEMMA EmptyPageIsLast ==
    ASSUME NEW S \in SUBSET Nat, IsFiniteSet(S), NEW n \in Nat \ {0},
           FirstRows(S, n) = {}
    PROVE  S = {}
<1>1. Cardinality(FirstRows(S, n)) < n
  BY FS_EmptySet
<1>2. QED BY <1>1, ShortPageIsLast

-----------------------------------------------------------------------------
(* The events, and what is owed *)

LEMMA RowsAreNats ==
    /\ Row \subseteq Nat \ {0} /\ IsFiniteSet(Row)
    /\ MsgOf \in [Row -> Msg]
    /\ BatchSizes \subseteq Nat \ {0}
    /\ MaxFailures \in Nat
    /\ \A S \in SUBSET Res : NONE # S
BY LogAssumption

\* The row the for loop looks at is the least of its page.
LEMMA LeastOfPage ==
    ASSUME TypeOK, page # {}
    PROVE  /\ Least(page) \in page
           /\ \A p \in page : Least(page) <= p
<1>1. page \in SUBSET Nat
  BY RowsAreNats DEF TypeOK
<1>2. QED BY <1>1, LeastOfRows

\* since_id is the highest event: the events come in the order of their ids.
LEMMA LastSeenIsHighest ==
    ASSUME TypeOK, LogOK
    PROVE  /\ last_seen \in Row \cup {0}
           /\ \A r \in HandledRows : r \in Row /\ r <= last_seen
           /\ last_seen # 0 => last_seen \in HandledRows
<1>1. CASE handled = <<>>
  BY <1>1 DEF last_seen, HandledRows
<1>2. CASE handled # <<>>
  <2>1. Len(handled) \in 1 .. Len(handled) /\ last_seen = handled[Len(handled)]
    BY <1>2 DEF last_seen, TypeOK
  <2>2. ASSUME NEW i \in 1 .. Len(handled) PROVE handled[i] \in Row /\ handled[i] <= last_seen
    <3>1. handled[i] \in Row /\ last_seen \in Row
      BY <2>1 DEF TypeOK
    <3>2. i < Len(handled) => handled[i] < last_seen
      BY <2>1 DEF LogOK
    <3>3. i = Len(handled) => handled[i] = last_seen
      BY <2>1
    <3>4. i < Len(handled) \/ i = Len(handled)
      BY DEF TypeOK
    <3>5. handled[i] \in Nat /\ last_seen \in Nat
      BY <3>1, RowsAreNats
    <3>6. QED BY <3>1, <3>2, <3>3, <3>4, <3>5
  <2>3. QED BY <2>1, <2>2 DEF HandledRows
<1>3. QED BY <1>1, <1>2

LEMMA IdsAreNats ==
    ASSUME TypeOK, LogOK
    PROVE  /\ \A r \in Row : r \in Nat
           /\ cursor \in Nat /\ last_seen \in Nat
<1>1. \A r \in Row : r \in Nat
  BY RowsAreNats
<1>2. cursor \in Row \cup {0} /\ last_seen \in Row \cup {0}
  BY LastSeenIsHighest DEF TypeOK
<1>3. QED BY <1>1, <1>2

\* What another event adds to the list.
LEMMA OneMoreEvent ==
    ASSUME TypeOK, NEW r \in Row, handled' = Append(handled, r)
    PROVE  /\ HandledRows' = HandledRows \cup {r}
           /\ last_seen' = r
           /\ Len(handled') = Len(handled) + 1
           /\ handled'[Len(handled) + 1] = r
           /\ \A i \in 1 .. Len(handled) : handled'[i] = handled[i]
<1>1. /\ Len(handled) \in Nat
      /\ Len(handled') = Len(handled) + 1
      /\ handled'[Len(handled) + 1] = r
      /\ \A i \in 1 .. Len(handled) : handled'[i] = handled[i]
  BY DEF TypeOK
<1>2. handled' # <<>>
  BY <1>1
<1>3. last_seen' = r
  BY <1>1, <1>2 DEF last_seen
<1>4. HandledRows' = HandledRows \cup {r}
  <2>1. 1 .. Len(handled') = 1 .. Len(handled) \cup {Len(handled) + 1}
    BY <1>1
  <2>2. QED BY <1>1, <2>1 DEF HandledRows
<1>5. QED BY <1>1, <1>3, <1>4

\* A commit makes the feed owe only rows above everything committed so far:
\* those below are overtaken.
LEMMA CommitOwes ==
    ASSUME TypeOK, NEW m \in Msg, Commit(m)
    PROVE  \A r \in Owed' :
               \/ r \in Owed
               \/ /\ r \in Row /\ MsgOf[r] = m
                  /\ \A s \in Row : MsgOf[s] \in committed => s < r
<1>1. SUFFICES ASSUME NEW r \in Owed', r \notin Owed
               PROVE  /\ r \in Row /\ MsgOf[r] = m
                      /\ \A s \in Row : MsgOf[s] \in committed => s < r
  OBVIOUS
<1>2. /\ r \in Row /\ Wanted(r) /\ r \notin overtaken'
      /\ MsgOf[r] \in committed' \ deleted
  BY <1>1 DEF Owed, Existing, ExistingMsg, Wanted, ModelOf, InFields, Commit
<1>3. MsgOf[r] = m /\ r \notin overtaken
  BY <1>1, <1>2 DEF Owed, Existing, ExistingMsg, Commit
<1>4. ASSUME NEW s \in Row, MsgOf[s] \in committed PROVE s < r
  <2>1. ~(r < s)
    BY <1>2, <1>3, <1>4 DEF Commit, RowsOf
  <2>2. r # s
    BY <1>3, <1>4 DEF Commit
  <2>3. QED BY <1>2, <2>1, <2>2, RowsAreNats
<1>5. QED BY <1>2, <1>3, <1>4

LEMMA DeleteOwes ==
    ASSUME NEW m \in Msg, Delete(m)
    PROVE  Owed' \subseteq Owed
BY DEF Delete, Owed, Existing, ExistingMsg, Wanted, ModelOf, InFields

\* A step of the feed leaves the server's log alone, and what is owed.
LEMMA FeedStepsOwe ==
    ASSUME UNCHANGED serverVars
    PROVE  /\ Owed' = Owed
           /\ Existing' = Existing
           /\ ExistingMsg' = ExistingMsg
BY DEF serverVars, Owed, Existing, ExistingMsg, Wanted, ModelOf, InFields

LEMMA OwedRows ==
    /\ Owed \subseteq Existing
    /\ Existing \subseteq Row
    /\ \A r \in Existing : MsgOf[r] \in committed /\ MsgOf[r] \notin deleted
    /\ \A r \in Owed : r \notin overtaken /\ Wanted(r)
BY DEF Owed, Existing, ExistingMsg

\* A page is taken from the matching rows, in the order of their ids; a short
\* one holds them all.
LEMMA TrackingRows ==
    ASSUME TypeOK
    PROVE  /\ Cardinality(Tracking) \in Nat /\ options.batch_size \in Nat
           /\ Tracking \subseteq Matching
           /\ Matching \subseteq Existing
           /\ \A p \in Tracking, r \in Matching : r < p => r \in Tracking
           /\ Cardinality(Tracking) < options.batch_size => Tracking = Matching
           /\ Tracking = {} => Matching = {}
<1>1. Matching \in SUBSET Row
  BY OwedRows DEF Matching
<1>2. Matching \in SUBSET Nat /\ IsFiniteSet(Matching)
  BY <1>1, RowsAreNats, FS_Subset
<1>3. options.batch_size \in Nat \ {0}
  BY RowsAreNats DEF TypeOK
<1>4. \A p \in Tracking, r \in Matching : r < p => r \in Tracking
  BY <1>2, <1>3, FirstRowsAreFirst DEF Tracking
<1>5. Cardinality(Tracking) < options.batch_size => Tracking = Matching
  BY <1>2, <1>3, ShortPageIsLast DEF Tracking
<1>6. Tracking = {} => Matching = {}
  BY <1>2, <1>3, EmptyPageIsLast DEF Tracking
<1>7. Tracking \subseteq Matching
  BY FirstRowsAreRows DEF Tracking
<1>8. Cardinality(Tracking) \in Nat
  BY <1>2, <1>7, FS_Subset, FS_CardinalityType
<1>9. QED
  BY <1>3, <1>4, <1>5, <1>6, <1>7, <1>8 DEF Matching

-----------------------------------------------------------------------------
(* Initial states and types *)

LEMMA InitInv == Init => FeedInv
<1> SUFFICES ASSUME Init PROVE FeedInv
  OBVIOUS
<1>1. TypeOK
  <2>1. handled \in Seq(Row) /\ failures \in 0 .. MaxFailures
    BY RowsAreNats DEF Init
  <2>2. QED BY <2>1 DEF Init, TypeOK
<1>2. Owed = {} /\ HandledRows = {}
  BY DEF Init, Owed, Existing, ExistingMsg, HandledRows
<1>3. LogOK
  BY <1>2 DEF Init, LogOK
<1>4. MessagesOK /\ PageOK /\ PassedOK
  BY <1>2 DEF Init, MessagesOK, PageOK, PassedOK
<1>5. QED BY <1>1, <1>3, <1>4 DEF FeedInv

LEMMA NextType == FeedInv /\ [Next]_vars => TypeOK'
<1> SUFFICES ASSUME FeedInv, [Next]_vars PROVE TypeOK'
  OBVIOUS
<1> USE DEF TypeOK, serverVars, feedVars, consumerVars, Ended, top
<1>0. TypeOK /\ LogOK
  BY DEF FeedInv
<1>1. CASE \E m \in Msg : Commit(m) \/ Delete(m)
  BY <1>0, <1>1 DEF Commit, Delete, RowsOf, ExistingMsg
<1>2. CASE Start
  BY <1>0, <1>2, LastSeenIsHighest, OwedRows DEF Start
<1>3. CASE ReadMessages
  <2>1. messages' \in SUBSET Msg /\ msg_map' \in SUBSET Msg
    BY <1>0, <1>3 DEF ReadMessages, ExistingMsg
  <2>2. QED BY <1>0, <1>3, <2>1 DEF ReadMessages
<1>4. CASE ReadRows
  <2>1. Tracking \in SUBSET Row
    BY <1>0, TrackingRows, OwedRows
  <2>2. Cardinality(Tracking) \in Nat /\ options.batch_size \in Nat
    BY <1>0, TrackingRows
  <2>3. (Cardinality(Tracking) >= options.batch_size) \in BOOLEAN
    BY <2>2
  <2>4. full' \in BOOLEAN
    BY <1>4, <2>3, Zenon DEF ReadRows
  <2>5. page' \in SUBSET Row
    BY <1>4, <2>1 DEF ReadRows
  <2>6. QED BY <1>0, <1>4, <2>4, <2>5 DEF ReadRows
<1>5. CASE ReadMsgMap
  BY <1>0, <1>5 DEF ReadMsgMap, ExistingMsg
<1>6. CASE SkipRow
  BY <1>0, <1>6, LeastOfPage DEF SkipRow
<1>7. CASE YieldRow
  BY <1>0, <1>7 DEF YieldRow
<1>8. CASE Handle
  BY <1>0, <1>8, LeastOfPage DEF Handle, FeedInv, PageOK
<1>9. CASE EndPage
  BY <1>0, <1>9, OwedRows DEF EndPage
<1>10. CASE Break
  <2>1. failures' \in 0 .. MaxFailures
    BY <1>0, <1>10, RowsAreNats DEF Break
  <2>2. QED BY <1>0, <1>10, <2>1 DEF Break
<1>11. CASE UNCHANGED vars
  BY <1>0, <1>11 DEF vars
<1>12. QED
  BY <1>1, <1>2, <1>3, <1>4, <1>5, <1>6, <1>7, <1>8, <1>9, <1>10, <1>11
     DEF Next, FeedStep

-----------------------------------------------------------------------------
(* The events and the cursor *)

\* A step that adds no event.
LEMMA SameEvents ==
    ASSUME UNCHANGED handled
    PROVE  HandledRows' = HandledRows /\ last_seen' = last_seen
BY DEF HandledRows, last_seen

\* The row the for loop looks at lies above the cursor and above every event.
LEMMA NextRow ==
    ASSUME FeedInv, at # "stopped", page # {}
    PROVE  /\ Least(page) \in page
           /\ \A p \in page : Least(page) <= p
           /\ Least(page) \in Row
           /\ MsgOf[Least(page)] \in committed
           /\ cursor < Least(page) /\ last_seen < Least(page)
           /\ \A r \in HandledRows : r < Least(page)
<1> USE DEF FeedInv
<1>1. Least(page) \in page /\ \A p \in page : Least(page) <= p
  BY LeastOfPage
<1>2. Least(page) \in Row /\ MsgOf[Least(page)] \in committed
  BY <1>1 DEF TypeOK, LogOK
<1>3. cursor < Least(page)
  BY <1>1 DEF PageOK
<1>4. last_seen <= cursor
  BY DEF LogOK
<1>5. \A r \in HandledRows : r \in Row /\ r <= last_seen
  BY LastSeenIsHighest
<1>6. last_seen \in Nat /\ cursor \in Nat /\ Least(page) \in Nat
  BY <1>2, IdsAreNats
<1>7. last_seen < Least(page)
  BY <1>3, <1>4, <1>6
<1>8. ASSUME NEW r \in HandledRows PROVE r < Least(page)
  <2>1. r \in Nat /\ r <= last_seen
    BY <1>5, IdsAreNats
  <2>2. QED BY <1>6, <1>7, <2>1
<1>9. QED BY <1>1, <1>2, <1>3, <1>7, <1>8

LEMMA NextLog == FeedInv /\ [Next]_vars => LogOK'
<1> SUFFICES ASSUME FeedInv, [Next]_vars PROVE LogOK'
  OBVIOUS
<1> USE DEF serverVars, feedVars, consumerVars, Ended
<1>0. TypeOK /\ LogOK /\ PageOK
  BY DEF FeedInv
<1>1. CASE \E m \in Msg : Commit(m) \/ Delete(m)
  <2>1. committed \subseteq committed'
    BY <1>1 DEF Commit, Delete
  <2>2. UNCHANGED <<at, cursor, messages, page, handled, horizon>>
    BY <1>1 DEF Commit, Delete
  <2>3. QED BY <1>0, <2>1, <2>2, SameEvents DEF LogOK
<1>2. CASE Start
  <2>1. UNCHANGED <<committed, handled, messages, page>>
    BY <1>2 DEF Start
  <2>2. cursor' = last_seen /\ horizon' = Existing
    BY <1>2 DEF Start
  <2>3. cursor' # 0 => MsgOf[cursor'] \in committed
    BY <1>0, <2>2, LastSeenIsHighest DEF LogOK
  <2>4. last_seen <= last_seen
    BY <1>0, LastSeenIsHighest, RowsAreNats
  <2>5. QED BY <1>0, <2>1, <2>2, <2>3, <2>4, OwedRows, SameEvents DEF LogOK
<1>3. CASE ReadMessages
  BY <1>0, <1>3, SameEvents DEF ReadMessages, ExistingMsg, LogOK
<1>4. CASE ReadRows
  <2>1. \A r \in Tracking : MsgOf[r] \in committed
    BY <1>0, TrackingRows, OwedRows
  <2>2. QED BY <1>0, <1>4, <2>1, SameEvents DEF ReadRows, LogOK
<1>5. CASE ReadMsgMap
  BY <1>0, <1>5, SameEvents DEF ReadMsgMap, LogOK
<1>6. CASE SkipRow
  <2>1. at # "stopped" /\ page # {}
    BY <1>6 DEF SkipRow
  <2>2. last_seen < Least(page) /\ MsgOf[Least(page)] \in committed
    BY <2>1, NextRow
  <2>3. last_seen <= Least(page)
    BY <1>0, <2>1, <2>2, NextRow, IdsAreNats
  <2>4. QED BY <1>0, <1>6, <2>2, <2>3, SameEvents DEF SkipRow, LogOK
<1>7. CASE YieldRow
  BY <1>0, <1>7, SameEvents DEF YieldRow, LogOK
<1>8. CASE Handle
  <2>1. at # "stopped" /\ page # {}
    BY <1>0, <1>8 DEF Handle, PageOK
  <2> DEFINE r == Least(page)
  <2>2. /\ r \in Row /\ MsgOf[r] \in committed
        /\ \A s \in HandledRows : s < r
    BY <2>1, NextRow
  <2> HIDE DEF r
  <2>3. /\ handled' = Append(handled, r) /\ cursor' = r /\ page' \subseteq page
        /\ UNCHANGED <<committed, horizon, messages>>
    BY <1>8 DEF Handle, r
  <2>4. /\ HandledRows' = HandledRows \cup {r}
        /\ last_seen' = r
        /\ Len(handled') = Len(handled) + 1
        /\ handled'[Len(handled) + 1] = r
        /\ \A i \in 1 .. Len(handled) : handled'[i] = handled[i]
    BY <1>0, <2>2, <2>3, OneMoreEvent
  <2>5. ASSUME NEW i \in 1 .. Len(handled'), NEW j \in 1 .. Len(handled'), i < j
        PROVE  handled'[i] < handled'[j]
    <3>1. Len(handled) \in Nat
      BY <1>0 DEF TypeOK
    <3>2. i \in 1 .. Len(handled) /\ handled'[i] = handled[i]
      BY <2>4, <2>5, <3>1
    <3>3. CASE j \in 1 .. Len(handled)
      BY <1>0, <2>4, <2>5, <3>2, <3>3 DEF LogOK
    <3>4. CASE j \notin 1 .. Len(handled)
      <4>1. j = Len(handled) + 1
        BY <2>4, <3>1, <3>4
      <4>2. handled[i] \in HandledRows
        BY <3>2 DEF HandledRows
      <4>3. QED BY <2>2, <2>4, <3>2, <4>1, <4>2
    <3>5. QED BY <3>3, <3>4
  <2>6. last_seen' <= cursor'
    BY <2>2, <2>3, <2>4, RowsAreNats
  <2>7. QED BY <1>0, <2>2, <2>3, <2>4, <2>5, <2>6 DEF LogOK
<1>9. CASE EndPage
  BY <1>0, <1>9, OwedRows, SameEvents DEF EndPage, LogOK
<1>10. CASE Break
  BY <1>0, <1>10, SameEvents DEF Break, LogOK
<1>11. CASE UNCHANGED vars
  BY <1>0, <1>11, SameEvents DEF vars, LogOK
<1>12. QED
  BY <1>1, <1>2, <1>3, <1>4, <1>5, <1>6, <1>7, <1>8, <1>9, <1>10, <1>11
     DEF Next, FeedStep

-----------------------------------------------------------------------------
(* The messages read for res_ids *)

LEMMA NextMessages == FeedInv /\ [Next]_vars => MessagesOK'
<1> SUFFICES ASSUME FeedInv, [Next]_vars PROVE MessagesOK'
  OBVIOUS
<1> USE DEF serverVars, feedVars, consumerVars, Ended, top
<1>0. TypeOK /\ LogOK /\ MessagesOK /\ PageOK
  BY DEF FeedInv
<1>1. ASSUME NEW m \in Msg, Commit(m) PROVE MessagesOK'
  <2>1. UNCHANGED <<about, options, at, messages, horizon>>
    BY <1>1 DEF Commit
  <2>2. ASSUME options.res_ids # NONE, at \in {"rows", "loop", "yielded"},
               NEW r \in Owed', MsgOf[r] \notin messages
        PROVE  r \notin horizon /\ \A p \in Row : MsgOf[p] \in messages => p < r
    <3>1. CASE r \in Owed
      BY <1>0, <2>2, <3>1 DEF MessagesOK
    <3>2. CASE r \notin Owed
      <4>1. MsgOf[r] = m /\ \A s \in Row : MsgOf[s] \in committed => s < r
        BY <1>0, <1>1, <3>2, <2>2, CommitOwes
      <4>2. m \notin committed
        BY <1>1 DEF Commit
      <4>3. QED BY <1>0, <4>1, <4>2 DEF LogOK
    <3>3. QED BY <3>1, <3>2
  <2>3. QED BY <1>0, <2>1, <2>2 DEF MessagesOK
<1>2. ASSUME NEW m \in Msg, Delete(m) PROVE MessagesOK'
  BY <1>0, <1>2, DeleteOwes DEF Delete, MessagesOK
<1>3. CASE Start
  BY <1>0, <1>3 DEF Start, MessagesOK
<1>4. CASE ReadMessages
  <2>1. CASE at' = "stopped" /\ messages' = {}
    BY <1>4, <2>1 DEF ReadMessages, MessagesOK
  <2>2. CASE at' = "rows" /\ messages' = {m \in ExistingMsg :
                                 about.model[m] = model /\ about.res[m] \in options.res_ids}
    <3>1. options.res_ids # NONE
      BY <1>0, <1>4 DEF ReadMessages, MessagesOK
    <3>2. UNCHANGED <<about, options>> /\ Owed' = Owed
      BY <1>4, FeedStepsOwe DEF ReadMessages
    <3>3. \A r \in Owed : MsgOf[r] \in messages'
      BY <2>2, <3>1 DEF Owed, Existing, Wanted, ModelOf
    <3>4. QED BY <2>2, <3>1, <3>2, <3>3 DEF MessagesOK
  <2>3. QED BY <1>4, <2>1, <2>2 DEF ReadMessages
<1>5. CASE ReadRows
  BY <1>0, <1>5, FeedStepsOwe DEF ReadRows, MessagesOK
<1>6. CASE ReadMsgMap
  BY <1>0, <1>6, FeedStepsOwe DEF ReadMsgMap, MessagesOK
<1>7. CASE SkipRow \/ YieldRow \/ Handle
  <2>1. /\ UNCHANGED <<about, options, messages, horizon>> /\ Owed' = Owed
        /\ at \in {"loop", "yielded"} /\ at' \in {"loop", "yielded"}
    BY <1>7, FeedStepsOwe DEF SkipRow, YieldRow, Handle
  <2>2. QED BY <1>0, <2>1 DEF MessagesOK
<1>8. CASE EndPage
  BY <1>0, <1>8 DEF EndPage, MessagesOK
<1>9. CASE Break
  BY <1>9 DEF Break, MessagesOK
<1>10. CASE UNCHANGED vars
  BY <1>0, <1>10, FeedStepsOwe DEF vars, MessagesOK
<1>11. QED
  BY <1>1, <1>2, <1>3, <1>4, <1>5, <1>6, <1>7, <1>8, <1>9, <1>10 DEF Next, FeedStep

-----------------------------------------------------------------------------
(* The page *)

\* Which rows were asked for, and whether get_feed passes one over, depend on
\* nothing that the server or the loop change.
LEMMA SameRows ==
    ASSUME UNCHANGED <<about, options>>
    PROVE  /\ \A r : InFields(r)' = InFields(r) /\ Wanted(r)' = Wanted(r)
           /\ msg_map' = msg_map => \A r : Foreign(r)' = Foreign(r)
BY DEF InFields, Wanted, ModelOf, Foreign

LEMMA NextPage == FeedInv /\ [Next]_vars => PageOK'
<1> SUFFICES ASSUME FeedInv, [Next]_vars PROVE PageOK'
  OBVIOUS
<1> USE DEF serverVars, feedVars, consumerVars, Ended, top
<1>0. TypeOK /\ LogOK /\ MessagesOK /\ PageOK
  BY DEF FeedInv
<1>1. ASSUME NEW m \in Msg, Commit(m) PROVE PageOK'
  <2>1. UNCHANGED <<about, options, deleted, feedVars>>
    BY <1>1 DEF Commit
  <2>2. ASSUME NEW p \in page, NEW r \in Owed', cursor < r, r < p
        PROVE  r \in page
    <3>1. r \in Owed
      <4>1. SUFFICES ASSUME r \notin Owed PROVE FALSE
        OBVIOUS
      <4>2. r \in Row /\ p \in Row /\ p < r
        BY <1>0, <1>1, <4>1, CommitOwes DEF LogOK, TypeOK
      <4>3. QED BY <2>2, <4>2, RowsAreNats
    <3>2. QED BY <1>0, <2>2, <3>1 DEF PageOK
  <2>3. QED BY <1>0, <2>1, <2>2, SameRows DEF PageOK
<1>2. ASSUME NEW m \in Msg, Delete(m) PROVE PageOK'
  <2>1. UNCHANGED <<about, options, feedVars>> /\ deleted \subseteq deleted'
    BY <1>2 DEF Delete
  <2>2. Owed' \subseteq Owed
    BY <1>2, DeleteOwes
  <2>3. QED BY <1>0, <2>1, <2>2, SameRows DEF PageOK
<1>3. CASE Start
  BY <1>0, <1>3 DEF Start, PageOK
<1>4. CASE ReadMessages
  BY <1>0, <1>4 DEF ReadMessages, PageOK
<1>5. CASE ReadRows
  <2>1. CASE page' = {} /\ at' = "stopped"
    BY <2>1 DEF PageOK
  <2>2. CASE /\ page' = Tracking /\ UNCHANGED <<cursor, messages, about, options>>
             /\ at' = IF options.res_ids = NONE THEN "annotate" ELSE "loop"
    <3>1. \A p \in Tracking :
              /\ p \in Matching /\ p \in Row /\ cursor < p /\ InFields(p)
              /\ options.res_ids # NONE => MsgOf[p] \in messages
      <4>1. \A p \in Matching : cursor < p
        BY <1>0, IdsAreNats, OwedRows DEF Matching
      <4>2. QED BY <1>0, <4>1, TrackingRows, OwedRows DEF Matching
    <3>2. ASSUME NEW p \in Tracking, NEW r \in Owed, cursor < r, r < p
          PROVE  r \in Tracking
      <4>1. r \in Existing /\ r \in Row /\ InFields(r)
        BY OwedRows DEF Wanted
      <4>2. options.res_ids # NONE => MsgOf[r] \in messages
        <5>1. SUFFICES ASSUME options.res_ids # NONE, MsgOf[r] \notin messages PROVE FALSE
          OBVIOUS
        <5>2. at = "rows"
          BY <1>5 DEF ReadRows
        <5>3. p < r
          BY <1>0, <3>1, <5>1, <5>2 DEF MessagesOK
        <5>4. p \in Nat /\ r \in Nat
          BY <3>1, <4>1, RowsAreNats
        <5>5. r < p
          BY <3>2
        <5> HIDE DEF serverVars, feedVars, consumerVars, Ended, top
        <5>6. QED BY <5>3, <5>4, <5>5
      <4>3. r > cursor
        BY <1>0, <3>2, <4>1, IdsAreNats
      <4>4. r \in Matching
        BY <4>1, <4>2, <4>3 DEF Matching
      <4>5. QED BY <1>0, <3>2, <4>4, TrackingRows
    <3>3. Owed' = Owed
      BY <1>5, FeedStepsOwe DEF ReadRows
    <3>4. \A r : InFields(r)' = InFields(r)
      BY <2>2, SameRows
    <3>5. at' \in {"annotate", "loop"} /\ (at' = "loop" => options.res_ids # NONE)
      BY <2>2
    <3> HIDE DEF serverVars, feedVars, consumerVars, Ended, top
    <3>6. QED BY <2>2, <3>1, <3>2, <3>3, <3>4, <3>5 DEF PageOK
  <2>3. QED BY <1>5, <2>1, <2>2 DEF ReadRows
<1>6. CASE ReadMsgMap
  <2>1. \A p \in page : MsgOf[p] \in msg_map' \cup deleted
    BY <1>0, <1>6 DEF ReadMsgMap, LogOK, ExistingMsg
  <2>2. UNCHANGED <<about, options, cursor, page, messages, deleted>> /\ at' = "loop"
    BY <1>6 DEF ReadMsgMap
  <2>3. Owed' = Owed /\ \A r : InFields(r)' = InFields(r)
    BY <1>6, FeedStepsOwe, SameRows DEF ReadMsgMap
  <2>4. QED BY <1>0, <2>1, <2>2, <2>3 DEF PageOK
<1>7. CASE SkipRow \/ Handle
  <2> DEFINE r == Least(page)
  <2>1. /\ UNCHANGED <<about, options, messages, deleted, msg_map>>
        /\ at \in {"loop", "yielded"} /\ at' = "loop"
        /\ page # {} /\ page' = page \ {r} /\ cursor' = r
    BY <1>0, <1>7 DEF SkipRow, Handle, PageOK
  <2>2. Owed' = Owed /\ \A p : InFields(p)' = InFields(p)
    BY <1>7, FeedStepsOwe, SameRows DEF SkipRow, Handle
  <2>3. r \in page /\ r \in Row /\ cursor < r /\ \A p \in page : r <= p
    BY <2>1, NextRow
  <2> HIDE DEF r
  <2>4. \A p \in page' : p \in page /\ r < p
    BY <1>0, <2>1, <2>3, RowsAreNats DEF TypeOK
  <2>5. ASSUME NEW p \in page', NEW q \in Owed, r < q, q < p PROVE q \in page'
    <3>1. q \in Nat /\ r \in Nat /\ cursor \in Nat
      BY <1>0, <2>3, OwedRows, IdsAreNats
    <3>2. cursor < q /\ q # r
      BY <2>3, <2>5, <3>1
    <3>3. q \in page
      BY <1>0, <2>4, <2>5, <3>2 DEF PageOK
    <3>4. QED BY <2>1, <3>2, <3>3
  <2>6. QED BY <1>0, <2>1, <2>2, <2>4, <2>5 DEF PageOK
<1>8. CASE YieldRow
  <2>1. /\ UNCHANGED <<about, options, deleted, messages, page, cursor, msg_map>>
        /\ at = "loop" /\ at' = "yielded" /\ page # {} /\ ~Foreign(Least(page))
    BY <1>8 DEF YieldRow
  <2>2. Owed' = Owed /\ \A p : InFields(p)' = InFields(p) /\ Foreign(p)' = Foreign(p)
    BY <1>8, <2>1, FeedStepsOwe, SameRows DEF YieldRow
  <2>3. Least(page)' = Least(page)
    BY <2>1
  <2>4. QED BY <1>0, <2>1, <2>2, <2>3 DEF PageOK
<1>9. CASE EndPage
  BY <1>0, <1>9 DEF EndPage, PageOK
<1>10. CASE Break
  BY <1>10 DEF Break, PageOK
<1>11. CASE UNCHANGED vars
  BY <1>0, <1>11, FeedStepsOwe, SameRows DEF vars, PageOK
<1>12. QED
  BY <1>1, <1>2, <1>3, <1>4, <1>5, <1>6, <1>7, <1>8, <1>9, <1>10, <1>11 DEF Next, FeedStep

-----------------------------------------------------------------------------
(* What has been passed *)

\* What is owed below the row the for loop looks at has been handled.
LEMMA PassedBelow ==
    ASSUME FeedInv, at # "stopped", page # {},
           NEW r \in Owed, r <= Least(page), r # Least(page)
    PROVE  r \in HandledRows
<1>0. TypeOK /\ LogOK /\ PageOK /\ PassedOK
  BY DEF FeedInv
<1>1. /\ Least(page) \in page /\ Least(page) \in Row
      /\ \A p \in page : Least(page) <= p
  BY NextRow
<1>2. r \in Nat /\ cursor \in Nat /\ Least(page) \in Nat
  BY <1>0, <1>1, OwedRows, IdsAreNats
<1>3. r < Least(page) /\ r \notin page
  BY <1>1, <1>2
<1>4. ~(cursor < r)
  BY <1>0, <1>1, <1>3 DEF PageOK
<1>5. r <= cursor
  BY <1>2, <1>4
<1>6. QED BY <1>0, <1>5 DEF PassedOK, Reached

\* The consumer is brought to a committed row, or to none, and never short of
\* its last event.
LEMMA ReachedRow ==
    ASSUME TypeOK, LogOK
    PROVE  /\ Reached \in Nat /\ last_seen \in Nat /\ last_seen <= Reached
           /\ Reached # 0 => Reached \in Row /\ MsgOf[Reached] \in committed
<1>1. CASE at = "stopped"
  <2>1. Reached = last_seen
    BY <1>1 DEF Reached
  <2>2. last_seen \in Nat /\ last_seen <= last_seen
    BY IdsAreNats
  <2>3. QED BY <2>1, <2>2, LastSeenIsHighest DEF LogOK
<1>2. CASE at # "stopped"
  BY <1>2, IdsAreNats DEF Reached, TypeOK, LogOK
<1>3. QED BY <1>1, <1>2

LEMMA NextPassed == FeedInv /\ [Next]_vars => PassedOK'
<1> SUFFICES ASSUME FeedInv, [Next]_vars PROVE PassedOK'
  OBVIOUS
<1> USE DEF serverVars, feedVars, consumerVars, top
<1>0. TypeOK /\ LogOK /\ MessagesOK /\ PageOK /\ PassedOK
  BY DEF FeedInv
<1>1. ASSUME NEW m \in Msg, Commit(m) PROVE PassedOK'
  <2>1. UNCHANGED <<at, cursor, page, full, handled, horizon>>
    BY <1>1 DEF Commit
  <2>2. HandledRows' = HandledRows /\ Reached' = Reached
    BY <2>1, SameEvents DEF Reached
  <2>3. ASSUME NEW r \in Owed', r \notin Owed PROVE ~(r <= Reached) /\ r \notin horizon
    <3>1. r \in Row /\ MsgOf[r] = m /\ \A s \in Row : MsgOf[s] \in committed => s < r
      BY <1>0, <1>1, <2>3, CommitOwes
    <3>2. r \notin horizon
      BY <1>0, <1>1, <3>1 DEF Commit, LogOK
    <3>3. r \in Nat /\ r # 0 /\ Reached \in Nat
      BY <1>0, <3>1, RowsAreNats, ReachedRow
    <3>4. Reached < r
      <4>1. CASE Reached = 0
        BY <3>3, <4>1
      <4>2. CASE Reached # 0
        BY <1>0, <3>1, <4>2, ReachedRow
      <4>3. QED BY <4>1, <4>2
    <3>5. QED BY <3>2, <3>3, <3>4
  <2>4. QED BY <1>0, <2>1, <2>2, <2>3 DEF PassedOK
<1>2. ASSUME NEW m \in Msg, Delete(m) PROVE PassedOK'
  <2>1. UNCHANGED <<at, cursor, page, full, handled, horizon>>
    BY <1>2 DEF Delete
  <2>2. HandledRows' = HandledRows /\ Reached' = Reached
    BY <2>1, SameEvents DEF Reached
  <2>3. QED BY <1>0, <1>2, <2>1, <2>2, DeleteOwes DEF PassedOK
<1>3. CASE Start
  <2>1. Reached' = Reached
    BY <1>3 DEF Start, Reached
  <2>2. HandledRows' = HandledRows /\ Owed' = Owed
    BY <1>3, SameEvents, FeedStepsOwe DEF Start
  <2>3. at' \notin {"annotate", "loop", "yielded"}
    BY <1>3 DEF Start
  <2>4. QED BY <1>0, <2>1, <2>2, <2>3 DEF PassedOK
\* The end of a feed takes the consumer back from the cursor to its last event.
<1>4. ASSUME Ended, UNCHANGED <<serverVars, handled>> PROVE PassedOK'
  <2>1. HandledRows' = HandledRows /\ Owed' = Owed /\ last_seen' = last_seen
    BY <1>4, SameEvents, FeedStepsOwe
  <2>2. at' = "stopped" /\ Reached' = last_seen
    BY <1>4, <2>1 DEF Ended, Reached
  <2>3. \A r \in Owed : r <= last_seen => r <= Reached
    BY <1>0, ReachedRow, OwedRows, IdsAreNats
  <2>4. QED BY <1>0, <2>1, <2>2, <2>3 DEF PassedOK
<1>5. ASSUME UNCHANGED <<serverVars, handled, cursor>>, at # "stopped",
             at' \in {"messages", "rows"}
      PROVE  PassedOK'
  <2>1. HandledRows' = HandledRows /\ Owed' = Owed /\ Reached' = Reached
    BY <1>5, SameEvents, FeedStepsOwe DEF Reached
  <2>2. QED BY <1>0, <1>5, <2>1 DEF PassedOK
<1>6. CASE ReadMessages
  BY <1>4, <1>5, <1>6 DEF ReadMessages
<1>7. CASE ReadRows /\ ~Ended
  <2>1. /\ page' = Tracking /\ UNCHANGED <<cursor, handled, horizon, options>>
        /\ full' = (Cardinality(Tracking) >= options.batch_size)
        /\ at = "rows" /\ at' # "stopped"
    BY <1>7 DEF ReadRows
  <2>2. HandledRows' = HandledRows /\ Owed' = Owed /\ Reached' = Reached
    BY <1>7, <2>1, SameEvents, FeedStepsOwe DEF ReadRows, Reached
  <2>3. ASSUME ~full', NEW r \in horizon \cap Owed, ~(r <= cursor)
        PROVE  r \in Tracking
    <3>1. Tracking = Matching
      <4>1. ~(Cardinality(Tracking) >= options.batch_size)
        BY <2>1, <2>3, Zenon
      <4>2. Cardinality(Tracking) < options.batch_size
        BY <1>0, <4>1, TrackingRows
      <4>3. QED BY <1>0, <4>2, TrackingRows
    <3>2. r \in Existing /\ r > cursor /\ InFields(r)
      BY <1>0, <2>3, OwedRows, IdsAreNats DEF Wanted
    <3>3. options.res_ids # NONE => MsgOf[r] \in messages
      BY <1>0, <2>1, <2>3 DEF MessagesOK
    <3>4. QED BY <3>1, <3>2, <3>3 DEF Matching
  <2>4. QED BY <1>0, <2>1, <2>2, <2>3 DEF PassedOK
<1>8. CASE ReadMsgMap \/ YieldRow
  <2>1. /\ UNCHANGED <<cursor, page, full, handled, horizon>>
        /\ at \in {"annotate", "loop"} /\ at' \in {"loop", "yielded"}
    BY <1>8 DEF ReadMsgMap, YieldRow
  <2>2. HandledRows' = HandledRows /\ Owed' = Owed /\ Reached' = Reached
    BY <1>8, <2>1, SameEvents, FeedStepsOwe DEF ReadMsgMap, YieldRow, Reached
  <2>3. QED BY <1>0, <2>1, <2>2 DEF PassedOK
<1>9. CASE SkipRow \/ Handle
  <2> DEFINE r == Least(page)
  <2>1. /\ at \in {"loop", "yielded"} /\ at' = "loop" /\ UNCHANGED <<full, horizon>>
        /\ page # {} /\ page' = page \ {r} /\ cursor' = r
    BY <1>0, <1>9 DEF SkipRow, Handle, PageOK
  <2>2. Owed' = Owed /\ Reached' = r
    BY <1>9, <2>1, FeedStepsOwe DEF SkipRow, Handle, Reached
  <2>3. r \in Row /\ cursor < r
    BY <2>1, NextRow
  <2>4. HandledRows \subseteq HandledRows'
    <3>1. CASE SkipRow
      BY <3>1, SameEvents DEF SkipRow
    <3>2. CASE Handle
      BY <1>0, <2>3, <3>2, OneMoreEvent DEF Handle
    <3>3. QED BY <1>9, <3>1, <3>2
  <2>5. r \in Owed => r \in HandledRows'
    <3>1. CASE SkipRow
      BY <3>1, OwedRows DEF SkipRow, Foreign, Wanted
    <3>2. CASE Handle
      BY <1>0, <2>3, <3>2, OneMoreEvent DEF Handle
    <3>3. QED BY <1>9, <3>1, <3>2
  <2>6. ASSUME NEW q \in Owed, q <= r PROVE q \in HandledRows'
    BY <2>1, <2>4, <2>5, <2>6, PassedBelow
  <2>7. ASSUME ~full, NEW q \in horizon \cap Owed PROVE q <= r \/ q \in page'
    <3>1. q \in Nat /\ r \in Nat /\ cursor \in Nat
      BY <1>0, <2>3, OwedRows, IdsAreNats
    <3>2. q <= cursor \/ q \in page
      BY <1>0, <2>1, <2>7 DEF PassedOK
    <3>3. QED BY <2>1, <2>3, <3>1, <3>2
  <2> HIDE DEF r
  <2>8. QED BY <2>1, <2>2, <2>6, <2>7 DEF PassedOK
<1>10. CASE EndPage
  BY <1>4, <1>5, <1>10 DEF EndPage
<1>11. CASE Break
  BY <1>4, <1>11 DEF Break
<1>12. CASE UNCHANGED vars
  <2>1. HandledRows' = HandledRows /\ Owed' = Owed /\ Reached' = Reached
    BY <1>12, SameEvents, FeedStepsOwe DEF vars, Reached
  <2>2. QED BY <1>0, <1>12, <2>1 DEF PassedOK, vars
<1>13. CASE ReadRows /\ Ended
  BY <1>4, <1>13 DEF ReadRows
<1>14. QED
  BY <1>1, <1>2, <1>3, <1>6, <1>7, <1>8, <1>9, <1>10, <1>11, <1>12, <1>13
     DEF Next, FeedStep

LEMMA NextInv == FeedInv /\ [Next]_vars => FeedInv'
BY NextType, NextLog, NextMessages, NextPage, NextPassed DEF FeedInv

-----------------------------------------------------------------------------
(* The end of a feed *)

\* A feed that returns has nothing left to hand out of what was there when its
\* last page began: no message, no row, or a short page that is used up.
LEMMA ReturnIsComplete ==
    ASSUME FeedInv, [Next]_vars, at # "stopped", at' = "stopped", failures' = failures
    PROVE  horizon \cap Owed \subseteq HandledRows
<1>0. TypeOK /\ LogOK /\ MessagesOK /\ PageOK /\ PassedOK
  BY DEF FeedInv
<1>1. SUFFICES ASSUME NEW r \in horizon \cap Owed PROVE r \in HandledRows
  OBVIOUS
<1>2. /\ r \in Existing /\ Wanted(r) /\ InFields(r)
      /\ r \in Nat /\ cursor \in Nat
  BY <1>0, OwedRows, IdsAreNats DEF Wanted
<1>3. at # "stopped" /\ (r <= cursor => r \in HandledRows)
  BY <1>0 DEF PassedOK, Reached
<1>4. CASE ReadMessages
  <2>1. at = "messages" /\ options.res_ids # NONE
    BY <1>0, <1>4 DEF ReadMessages, MessagesOK
  <2>2. MsgOf[r] \in {m \in ExistingMsg : about.model[m] = model
                                          /\ about.res[m] \in options.res_ids}
    BY <1>2, <2>1 DEF Existing, Wanted, ModelOf
  <2>3. at' = "rows"
    BY <1>4, <2>2 DEF ReadMessages
  <2>4. QED BY <2>3
<1>5. CASE ReadRows
  <2>1. at = "rows" /\ Tracking = {}
    BY <1>5 DEF ReadRows
  <2>2. Matching = {}
    BY <1>0, <2>1, TrackingRows
  <2>3. options.res_ids # NONE => MsgOf[r] \in messages
    BY <1>0, <2>1 DEF MessagesOK
  <2>4. ~(r > cursor)
    BY <1>2, <2>2, <2>3 DEF Matching
  <2>5. QED BY <1>2, <1>3, <2>4
<1>6. CASE EndPage
  <2>1. at = "loop" /\ page = {} /\ ~full
    BY <1>6 DEF EndPage, top
  <2>2. QED BY <1>0, <1>3, <2>1 DEF PassedOK
<1>7. CASE Break
  BY <1>0, <1>7, RowsAreNats DEF Break, TypeOK
\* No other step ends a feed.
<1>8. CASE \E m \in Msg : Commit(m) \/ Delete(m)
  BY <1>8 DEF Commit, Delete, feedVars
<1>9. CASE Start \/ ReadMsgMap \/ SkipRow \/ YieldRow \/ Handle \/ UNCHANGED vars
  BY <1>9 DEF Start, ReadMsgMap, SkipRow, YieldRow, Handle, vars, feedVars, top
<1>10. QED
  BY <1>4, <1>5, <1>6, <1>7, <1>8, <1>9 DEF Next, FeedStep

-----------------------------------------------------------------------------
(* The feed implements ChangeFeed *)

USE DEF Promise!Commit, Promise!Delete, Promise!Deliver, Promise!vars,
        Promise!Existing, Promise!Handled

LEMMA InitPromise == Init => Promise!Init
BY DEF Init, Promise!Init

\* An event that is handled is one ChangeFeed may deliver.
LEMMA HandleDelivers ==
    ASSUME FeedInv, Handle
    PROVE  Promise!Deliver(Least(page))
<1> DEFINE r == Least(page)
<1>0. TypeOK /\ LogOK /\ MessagesOK /\ PageOK
  BY DEF FeedInv
<1>1. at = "yielded" /\ page # {} /\ ~Foreign(r)
  BY <1>0 DEF Handle, PageOK
<1>2. /\ r \in page /\ r \in Row /\ MsgOf[r] \in committed
      /\ \A s \in HandledRows : s < r
  BY <1>1, NextRow
<1>3. Wanted(r) \/ MsgOf[r] \in deleted
  <2>1. CASE options.res_ids # NONE
    BY <1>0, <1>2, <2>1 DEF PageOK, MessagesOK, Wanted, ModelOf
  <2>2. CASE options.res_ids = NONE
    BY <1>0, <1>1, <1>2, <2>2 DEF PageOK, Foreign, Wanted
  <2>3. QED BY <2>1, <2>2
<1>4. ASSUME NEW s \in (Existing \cap {q \in Row : Wanted(q)}) \ overtaken, s < r
      PROVE  s \in HandledRows
  <2>1. s \in Owed /\ s <= r /\ s # r
    <3>1. s \in Owed
      BY <1>4 DEF Owed
    <3>2. s \in Nat /\ r \in Nat
      BY <1>2, <3>1, OwedRows, RowsAreNats
    <3>3. QED BY <1>4, <3>1, <3>2
  <2>2. QED BY <1>1, <2>1, PassedBelow
<1>5. UNCHANGED {q \in Row : Wanted(q)}
  BY SameRows DEF Handle, serverVars
<1>6. handled' = Append(handled, r) /\ UNCHANGED <<committed, deleted, overtaken>>
  BY DEF Handle, serverVars
<1> HIDE DEF r
<1>7. Promise!Deliver(r)
  BY <1>2, <1>3, <1>4, <1>5, <1>6 DEF HandledRows, Existing, ExistingMsg
<1>8. QED BY <1>7 DEF r

LEMMA StepPromise ==
    ASSUME FeedInv, [Next]_vars
    PROVE  [Promise!Next]_Promise!vars
<1> USE DEF serverVars, feedVars, consumerVars
<1>1. ASSUME NEW m \in Msg, Commit(m) PROVE Promise!Commit(m)
  <2>1. UNCHANGED {r \in Row : Wanted(r)}
    BY <1>1, SameRows DEF Commit
  <2>2. QED BY <1>1, <2>1 DEF Commit, RowsOf
<1>2. ASSUME NEW m \in Msg, Delete(m) PROVE Promise!Delete(m)
  <2>1. UNCHANGED {r \in Row : Wanted(r)}
    BY <1>2, SameRows DEF Delete
  <2>2. QED BY <1>2, <2>1 DEF Delete, ExistingMsg
<1>3. ASSUME UNCHANGED <<serverVars, handled>> PROVE UNCHANGED Promise!vars
  <2>1. UNCHANGED {r \in Row : Wanted(r)}
    BY <1>3, SameRows
  <2>2. QED BY <1>3, <2>1
<1>4. CASE Handle
  <2>1. Least(page) \in Row
    BY <1>4, NextRow DEF Handle, FeedInv, PageOK
  <2>2. QED BY <1>4, <2>1, HandleDelivers DEF Promise!Next
<1>5. CASE \/ Start \/ ReadMessages \/ ReadRows \/ ReadMsgMap \/ SkipRow
           \/ YieldRow \/ EndPage \/ Break \/ UNCHANGED vars
  <2>1. UNCHANGED <<serverVars, handled>>
    BY <1>5 DEF Start, ReadMessages, ReadRows, ReadMsgMap, SkipRow, YieldRow,
                EndPage, Break, vars
  <2>2. QED BY <1>3, <2>1
<1>6. QED
  BY <1>1, <1>2, <1>4, <1>5 DEF Next, FeedStep, Promise!Next

-----------------------------------------------------------------------------
(* Theorems *)

\* The cursor, the messages and the page get_feed holds fit what the consumer
\* has handled and what the server's log holds.
THEOREM FeedInvariance == Spec => []FeedInv
<1>1. QED BY InitInv, NextInv, PTL DEF Spec

\* No row that is owed lies at or below the last event without having been
\* handled: nothing is skipped for good, across pages, feeds and failures.
THEOREM NothingLost == Spec => []NothingSkipped
<1>1. ASSUME FeedInv PROVE NothingSkipped
  <2>1. SUFFICES ASSUME NEW r \in Owed, r <= last_seen PROVE r \in HandledRows
    BY DEF NothingSkipped
  <2>2. r <= Reached
    BY <1>1, <2>1, ReachedRow, OwedRows, IdsAreNats DEF FeedInv
  <2>3. QED BY <1>1, <2>2 DEF FeedInv, PassedOK
<1>2. QED BY <1>1, FeedInvariance, PTL

\* A feed that returns by itself has handed out all that it owed when it began
\* to read its last page.
THEOREM ReturnsComplete == Spec => CompleteAtReturn
<1>1. FeedInv /\ [Next]_vars =>
          [at # "stopped" /\ at' = "stopped" /\ failures' = failures =>
               horizon \cap Owed \subseteq HandledRows]_vars
  BY ReturnIsComplete
<1>2. QED BY <1>1, FeedInvariance, PTL DEF Spec, CompleteAtReturn

\* get_feed, with its pages, its cursor and its two or three reads per page,
\* implements the feed that ChangeFeed promises: one event at a time, in order,
\* none skipped, none twice, none foreign.
THEOREM FeedKeepsPromise == Spec => KeepsPromise
<1>1. FeedInv /\ [Next]_vars => [Promise!Next]_Promise!vars
  BY StepPromise
<1>2. QED
  BY <1>1, InitPromise, FeedInvariance, PTL DEF Spec, KeepsPromise, Promise!Spec

=============================================================================
