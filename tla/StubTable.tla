----------------------------- MODULE StubTable -----------------------------
(* What the stubs of plt.c promise the code around them: entry points that    *)
(* are handed out one per section and target, never move, and lead to their   *)
(* target for as long as the process lives.                                   *)
CONSTANTS Section, Goal, EntryPoint

VARIABLE entries   \* <<s, t, a>>: code of s that jumps to a arrives at t

Init == entries = {}

(* A new entry point, for a section and target that have none yet.            *)
Make(e) ==
    /\ e \in Section \X Goal \X EntryPoint
    /\ \A f \in entries : ~(f[1] = e[1] /\ f[2] = e[2]) /\ f[3] # e[3]
    /\ entries' = entries \cup {e}

Next == \E e \in entries' : Make(e)

Spec == Init /\ [][Next]_entries
=============================================================================
