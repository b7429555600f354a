--------------------------- MODULE MCLogDirectory ---------------------------
(* A directory with a few old logs and placeholders, which the four actors  *)
(* share.  One of each kind is wanted.                                      *)
EXTENDS LogDirectory

OneOfEach == [k \in LogKinds |-> 1]

Old(kinds, n) == [kind : kinds, id : 0..n-1]

Start(names, failures) == [dir |-> names, canFail |-> failures]

\* For all four, when nothing fails: too many logs or just enough, and placeholders.
MCStartsSound ==
  {Start(Old({"native"}, n) \cup Old({"anr"}, m) \cup Old({"clean"}, c) \cup Old({"dirty"}, d), {}) :
     n \in {0, 2}, m \in {0, 2}, c \in 0..2, d \in 0..1}

MCStarts ==
  MCStartsSound
  \cup {Start(Old({"anr"}, 2), {"dir", "rename", "create"}),
        Start(Old({"anr"}, 2) \cup Old({"clean"}, 1), {"dir", "delete", "create"})}

\* For the maintenance and ANRs: every kind, and the margin passed; operations fail in groups.
MCStartsMaintenance ==
  {Start(Old({"native"}, n) \cup Old({"java"}, j) \cup Old({"anr"}, m) \cup Old({"trace"}, t)
           \cup Old({"clean"}, c) \cup Old({"dirty"}, d), {}) :
     n \in {0, 2}, j \in {1, 3}, m \in {0, 3}, t \in {0, 2}, c \in 0..2, d \in 0..2}
  \cup {Start(Old({"anr"}, 2), {"list", "open", "write"}),
        Start(Old({"anr"}, 2), {"rename", "create"}),
        Start(Old({"anr"}, 1), {"dir", "delete", "create", "write"})}
=============================================================================
