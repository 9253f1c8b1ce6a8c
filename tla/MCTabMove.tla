------------------------------- MODULE MCTabMove -------------------------------
(* Small instances of TabMove for TLC. *)
EXTENDS TabMove

\* A pane that has unmounted matters no more once no request of its own is under
\* way, but for the live pty it was closed on, which MoveSparesShells looks at.
Awaited(i) ==
    \/ i \in creating
    \/ \E w \in Windows :
          \/ \E k \in DOMAIN toMain[w] : /\ toMain[w][k].op \in {"create", "adopt"}
                                         /\ toMain[w][k].pane = i
          \/ \E k \in DOMAIN toWin[w] : /\ toWin[w][k].op \in {"created", "adopted", "failed"}
                                        /\ toWin[w][k].pane = i

Spent(i) == panes[i].state \in {"closed", "left", "lost"} /\ ~Awaited(i)

Forgotten(pane) ==
    IF pane.state = "closed" /\ pane.pty \in DOMAIN owner
    THEN [pane EXCEPT !.win = None]
    ELSE [win |-> None, pty |-> None, state |-> "lost"]

WithoutSpentPanes ==
    <<desktop, tab, ptyVars, creating, toMain, toWin,
      [i \in PaneIds |-> IF Spent(i) THEN Forgotten(panes[i]) ELSE panes[i]]>>
=============================================================================
