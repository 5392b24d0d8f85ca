------------------------------ MODULE Question ------------------------------
(***************************************************************************)
(* The modules of pure functions share one variable: the call under        *)
(* evaluation.  A behaviour is a single call, with one of the arguments     *)
(* that the model enumerates; the properties of those modules say what the *)
(* call returns.                                                           *)
(***************************************************************************)
VARIABLE asked  \* [about, ...]: the function called and its arguments

NothingAsked == asked = [about |-> "nothing"]

\* The one step, where nothing is asked yet: a call of `about` with the argument x.
Ask(about, x) == asked' = [about |-> about, x |-> x]
==============================================================================
