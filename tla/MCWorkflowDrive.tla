--------------------------- MODULE MCWorkflowDrive --------------------------
(***************************************************************************)
(* WorkflowDrive for TLC: the shapes of script the prelude's helpers give, *)
(* over two items and two stages.                                          *)
(***************************************************************************)
EXTENDS WorkflowDrive

CONSTANTS A1, B1, A2, B2    \* item A and item B, first and second stage

\* What each call waits for: all of the first stage, its own item, everything.
WavesAfter == [c \in Calls |-> IF c \in {A2, B2} THEN {A1, B1} ELSE {}]
PipeAfter  == [c \in Calls |-> CASE c = A2 -> {A1} [] c = B2 -> {B1} [] OTHER -> {}]
ChainAfter == [c \in Calls |-> CASE c = A1 -> {}
                                 [] c = A2 -> {A1}
                                 [] c = B1 -> {A1, A2}
                                 [] c = B2 -> {A1, A2, B1}]

\* parallel() over both items, then parallel() over both again.
Waved == [calls |-> <<A1, B1, A2, B2>>, after |-> WavesAfter,
          awaits |-> {A2, B2}, onThrow |-> "null", undeclared |-> {}]

\* pipeline(): each item goes to its second stage on its own.
Piped == [Waved EXCEPT !.after = PipeAfter, !.onThrow = "drop"]

\* One call after another, the last refused at the ceiling.
Chained == [Waved EXCEPT !.calls = <<A1, A2, B1, B2>>, !.after = ChainAfter,
                         !.awaits = {B2}, !.onThrow = "reject"]

\* A call the script never awaits.
Detached == [Waved EXCEPT !.calls = <<A1, B1>>, !.awaits = {A1}]

\* A first stage that leads to a call with an undeclared role.
Misnamed == [Piped EXCEPT !.calls = <<A1, B1, A2>>, !.undeclared = {A2}]

\* A root promise that nothing resolves.
Stalled == [Waved EXCEPT !.calls = <<A1>>, !.awaits = {A1, Never}]

AllScripts == {Waved, Piped, Chained, Detached, Misnamed, Stalled}
PipeScripts == {Piped}
FailScripts == {Misnamed}
=============================================================================
