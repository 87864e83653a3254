---------------------------- MODULE MCCdcHistory ----------------------------
(***************************************************************************)
(* CdcHistory for TLC, in two kinds of scenarios: three messages on either *)
(* of two records with the options of the call and nothing else going on   *)
(* in the process, and two messages of one record with another reader of   *)
(* the same cache and a field that changes its type.                       *)
(***************************************************************************)
EXTENDS CdcHistory

MCRow == 1 .. 3
MCMsg == 1 .. 3
MCMsgOf == <<1, 2, 3>>
MCLimits == {NONE, 0, 1}

\* Each of the two models has a field of every name, of a type of its own.
MCTtype == [k \in Model \X Field |-> IF k[1] = "sale.order" THEN "many2one" ELSE "char"]

Quiet ==
    {[about |-> a, res_id |-> "r1", options |-> o, ttype |-> MCTtype,
      model |-> "sale.order", busy |-> FALSE] :
        a \in {x \in About : x.posted = Msg /\ x.field[1] = "f"},
        o \in {x \in Options : x.field_names \in {{}, {"g"}}}}

NoOptions == [field_names |-> {}, limit |-> NONE, since |-> 0]

Busy ==
    {[about |-> [posted |-> {1, 2}, res |-> <<"r1", "r1", "r2">>, date |-> <<0, 0, 0>>,
                 field |-> <<"f", "g", "f">>],
      res_id |-> "r1", options |-> NoOptions, ttype |-> MCTtype, model |-> m, busy |-> TRUE] :
        m \in Model}

MCScenario == Quiet \cup Busy

\* Every type but text is shown by the columns it is stored in.
ASSUME \A t \in FieldType \ {"text"} : Shows(resolve_values(t), t)

=============================================================================
