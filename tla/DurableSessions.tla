-------------------------- MODULE DurableSessions --------------------------
(***************************************************************************)
(* What the session files of tea-agent promise a user who runs several     *)
(* terminals over one home directory, and whose terminals may die at any   *)
(* moment (docs/tui.md, "Linear session persistence"): a session on disk   *)
(* is always a conversation that some terminal held when it saved it,      *)
(* replaced as a whole, and opening a session gives what was last stored.  *)
(* Files, temporary names and encodings are not known here, nor what of a  *)
(* message the encoding keeps; SessionStore is shown to implement this for *)
(* its Kept.                                                               *)
(***************************************************************************)
CONSTANTS Processes,    \* the terminals
          Ids,          \* session identifiers
          Nothing       \* no session: on disk, or in a terminal that is down

VARIABLES store,        \* store[i]: the session i on disk
          working       \* working[p]: the session terminal p is showing

\* A terminal begins another session, continues its own, or is gone.
Work(p) ==
    \E w \in {working'[p]} :
        /\ working' = [working EXCEPT ![p] = w]
        /\ \/ w = Nothing
           \/ w.id \in Ids /\ (working[p].id = w.id \/ w.messages = <<>>)

\* A terminal shows what is stored.
Open(p) ==
    \E i \in Ids : store[i] # Nothing /\ working' = [working EXCEPT ![p] = store[i]]

\* A terminal replaces the stored session by the one it shows.
Replace(p) ==
    /\ working[p] # Nothing
    /\ store' = [store EXCEPT ![working[p].id] = working[p]]

Init == \A p \in Processes : working[p] = Nothing

Next ==
    \/ working' = working /\ \E p \in Processes : Replace(p)
    \/ store' = store /\ \E p \in Processes : Work(p) \/ Open(p)

Spec == Init /\ [][Next]_<<store, working>>
=============================================================================
