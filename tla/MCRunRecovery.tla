--------------------------- MODULE MCRunRecovery ---------------------------
(***************************************************************************)
(* An instance of RunRecovery: two runs, two passes, two Sessions, and one *)
(* of FewMixes of what people do and of what goes wrong. All of it at once *)
(* is 2.8 million states and finds nothing else.                           *)
(***************************************************************************)
EXTENDS RunRecovery, TLC

Mix(starts, decisions, overrides, full, losses, slips) ==
    [starts |-> starts, decisions |-> decisions, overrides |-> overrides,
     full |-> full, losses |-> losses, slips |-> slips]

\* A launch and a retry; a launch with something lost and a slip; one decided
\* upon, with something lost and a wake-up refused; one a person moves.
FewMixes == {Mix(2, 0, 0, 0, 0, 0), Mix(1, 0, 0, 0, 1, 1),
             Mix(1, 1, 0, 1, 1, 0), Mix(1, 0, 1, 0, 1, 0)}
=============================================================================
