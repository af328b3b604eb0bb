-------------------------- MODULE MCSessionStream --------------------------
(***************************************************************************)
(* An instance of SessionStream: one page, two Sessions, a round and one   *)
(* that is asked for again, and one of FewMixes of what goes on.           *)
(***************************************************************************)
EXTENDS SessionStream, TLC

Mix(emits, lines, failures, plans, drops) ==
    [emits |-> emits, lines |-> lines, failures |-> failures,
     plans |-> plans, drops |-> drops]

\* Harnesses alone, with a break; with compaction; beside one of the orchestrator's
\* own lines, and with breaks; and with appends that throw.
FewMixes == {Mix(3, 0, 0, 0, 1), Mix(3, 0, 0, 2, 0), Mix(1, 1, 0, 0, 2),
             Mix(1, 1, 1, 1, 1), Mix(2, 0, 1, 0, 2)}
=============================================================================
