----------------------------- MODULE AtomicText -----------------------------
(***************************************************************************)
(* What replacing a user's file promises (atomic_write.rs, its header):    *)
(* whoever opens the file, at any moment and after any crash, finds a      *)
(* whole text, which is one the user saved, the new form of one the file   *)
(* held, or one it held before.  A failed or interrupted replacement is    *)
(* a step that changes nothing.                                            *)
(***************************************************************************)
CONSTANTS Saved,   \* the texts a user may save, and the file's absence
          NewForm  \* what a command makes of each text it rewrites

VARIABLES text, \* what the file holds
          held  \* all it has held

Becomes(t) == /\ text' = t
              /\ held' = held \cup {t}

Init == /\ text \in Saved
        /\ held = {text}

\* The user writes, removes or restores the file.
Save == \E t \in Saved : Becomes(t)

\* A command installs the new form of a text the file held when it was read.
Replace == \E t \in held \cap DOMAIN NewForm : Becomes(NewForm[t])

\* A crash may cost what had not reached the disk.
Crash == \E t \in held : Becomes(t)

Next == Save \/ Replace \/ Crash
Spec == Init /\ [][Next]_<<text, held>>
=============================================================================
