---------------------------- MODULE MCAccounting ----------------------------
(***************************************************************************)
(* Accounting for TLC: an invoice payable in two instalments, and two      *)
(* payments in the bank journal, the second without a partner.             *)
(***************************************************************************)
EXTENDS Accounting, TLC

MCMove == {"invoice", "payment1", "payment2"}
MCInvoice == {"invoice"}
MCReceivable == {"instalment1", "instalment2", "paid1", "paid2"}
MCLine == MCReceivable \cup {"income", "bank1", "bank2"}
MCMoveOf == [instalment1 |-> "invoice", instalment2 |-> "invoice", income |-> "invoice",
             paid1 |-> "payment1", bank1 |-> "payment1",
             paid2 |-> "payment2", bank2 |-> "payment2"]
MCamount == [instalment1 |-> 2, instalment2 |-> 1, income |-> -3,
             paid1 |-> -2, bank1 |-> 2, paid2 |-> -1, bank2 |-> 1]

\* The second payment is labelled as the entry that closes a year.
MCname == [instalment1 |-> NONE, instalment2 |-> NONE, income |-> "other",
           paid1 |-> "other", bank1 |-> "other", paid2 |-> "closing", bank2 |-> NONE]

MCJournal == {"sales", "bank"}
MCJournalType == [sales |-> "sale", bank |-> "bank"]
MCjournal_id == [invoice |-> "sales", payment1 |-> "bank", payment2 |-> "bank"]

MCPartner == {"ann", "bob"}
MCpartner_id == [invoice |-> "ann", payment1 |-> "bob", payment2 |-> NONE]

Symmetry == Permutations(Group)

=============================================================================
