--------------------------- MODULE MCAgentRequests ---------------------------
(* Small instances of AgentRequests for TLC. *)
EXTENDS AgentRequests

CONSTANTS r1, a1, a2

\* One app of project r1 and one that belongs to no project AirLock knows.
MCAppRoot == [a \in Apps |-> IF a = a1 /\ r1 \in Roots THEN r1 ELSE None]

\* What steers nothing in the registry: the result of a call that has returned, what
\* was typed before the Enter, whether a card is in the stack or in the bell, and
\* whether nothing has the focus or the first window.  Two states that differ in these
\* alone have the same successors up to them.
Steering(k) ==
    [k EXCEPT !.result = "none", !.payload = IF k.phase = "typing" THEN "line" ELSE @]
FocusOrFirst == IF focused = None THEN First(windows) ELSE {focused}
WithoutIdle ==
    <<windows, lastWindow, FocusOrFirst, active, tabs, live,
      [i \in DOMAIN entries |-> [entries[i] EXCEPT !.dismissed = FALSE]],
      nextId, granted, acknowledged, [c \in Callers |-> Steering(call[c])]>>
=============================================================================
