--------------------------- MODULE MC_FinanceBooks ---------------------------
(***************************************************************************)
(* Instances of FinanceBooks for TLC: loans at a variable rate repaid at   *)
(* the end, and at a fixed rate by instalments of either kind.             *)
(***************************************************************************)
EXTENDS FinanceBooks

SharesDef == {-1}
LoanKindsDef == {[pay |-> "bullet", rate |-> "variable"],
                 [pay |-> "linear", rate |-> "fixed"], [pay |-> "annuity", rate |-> "fixed"]}
==============================================================================
