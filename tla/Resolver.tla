------------------------------ MODULE Resolver ------------------------------
(***************************************************************************)
(* services/cdc/resolver.py: a row of mail.tracking.value has a pair of    *)
(* columns per kind of value, and the type of the field decides which of   *)
(* them are shown.                                                         *)
(***************************************************************************)

FieldType ==
    {"integer", "float", "monetary", "char", "text", "html", "selection",
     "datetime", "date", "many2one", "boolean", "many2many", "one2many"}

\* The columns the raw value and the text for display are taken from: a many2one
\* is an id with a name, and char is the fallback for a type that is not listed.
resolve_values(field_type) ==
    LET both(column) == [raw |-> column, display |-> column]
    IN  CASE field_type \in {"integer", "boolean"}   -> both("integer")
          [] field_type \in {"float", "monetary"}    -> both("float")
          [] field_type \in {"datetime", "date"}     -> both("datetime")
          [] field_type = "many2one"  -> [raw |-> "integer", display |-> "char"]
          [] OTHER                                   -> both("char")

\* Where Odoo stores the values of a tracked field.  It has a column for text
\* too, which get_history and get_feed fetch.
StoredIn(field_type) ==
    CASE field_type \in {"integer", "boolean"}       -> {"integer"}
      [] field_type \in {"float", "monetary"}        -> {"float"}
      [] field_type \in {"datetime", "date"}         -> {"datetime"}
      [] field_type = "many2one"                     -> {"integer", "char"}
      [] field_type = "text"                         -> {"text"}
      [] field_type \in {"char", "html", "selection", "many2many", "one2many"} -> {"char"}

\* What is shown is all that a value of that type was stored in.
Shows(shown, field_type) == {shown.raw, shown.display} = StoredIn(field_type)

=============================================================================
