-------------------------- MODULE MCOperatorSettings ------------------------
(* Small instances of OperatorSettings. *)
EXTENDS OperatorSettings

CONSTANTS n1, n2

\* The operator starts without settings, or with everything switched on.
Fresh == {NoSettings, [c \in Driver |-> 1]}

\* Controllers share nothing but the settings: one at a time.
OneByOne == {{c} : c \in Driver}
===========================================================================
