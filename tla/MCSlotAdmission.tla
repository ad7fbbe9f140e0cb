-------------------------- MODULE MCSlotAdmission --------------------------
(***************************************************************************)
(* Small instances of SlotAdmission, with one history variable: the        *)
(* callers that were parked, or woken and not yet through their terminal   *)
(* checks, while their context was done or the router closed.              *)
(***************************************************************************)
EXTENDS SlotAdmission, TLC

VARIABLE doomed

MCInit == Init /\ doomed = {}

MCNext ==
  /\ Next
  /\ doomed' = {c \in Callers :
                  /\ pc'[c] # "idle"
                  /\ \/ c \in doomed
                     \/ /\ pc'[c] \in {"parked", "recheck"}
                        /\ closed' \/ c \in cancelled'}

MCSpec == MCInit /\ [][MCNext]_<<vars, doomed>>

Symmetry == Permutations(Callers) \cup Permutations(Keys)

(* I4/I5, the close/release race: once a terminal signal is up while a     *)
(* caller is queued, that call never gets a permit and never passes as     *)
(* ungoverned, even if wake, done and a governance flip are all ready.     *)
TerminalSignalsWin ==
  \A c \in doomed : pc[c] \in {"parked", "recheck", "reject"}
=============================================================================
