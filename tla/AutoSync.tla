-------------------------------- MODULE AutoSync --------------------------------
(***************************************************************************)
(* What `nobsi watch` promises, without its timers and its queues.  A      *)
(* change that was reported is wanted until a sync takes it; one sync runs *)
(* at a time and takes everything wanted; the whole vault is synced only   *)
(* when the periodic timer asks for it; a sync that fails gives back what  *)
(* it took; once asked to stop, nothing starts, and the state DB is closed *)
(* only after the sync that was running has returned.                      *)
(***************************************************************************)
CONSTANT Paths

VARIABLES
    periodic, \* this watch also syncs the whole vault every so often
    wanted,   \* reported changes that no sync has taken
    whole,    \* the whole vault is wanted
    doing,    \* what the running sync took, or Nothing
    state     \* "open", "stopping", "closed" or "killed"

vars == <<periodic, wanted, whole, doing, state>>

Nothing == [all |-> FALSE, batch |-> {}]

Init ==
    /\ periodic \in BOOLEAN
    /\ wanted = {} /\ whole = FALSE
    /\ doing = Nothing
    /\ state = "open"

Want(p) ==
    /\ state = "open"
    /\ wanted' = wanted \cup {p}
    /\ UNCHANGED <<periodic, whole, doing, state>>

WantAll ==
    /\ state = "open" /\ periodic
    /\ whole' = TRUE
    /\ UNCHANGED <<periodic, wanted, doing, state>>

(* The periodic timer may ask and be served at once. *)
Take(all) ==
    /\ state = "open"
    /\ doing = Nothing
    /\ (whole => all) /\ (all => periodic)
    /\ all \/ wanted # {}
    /\ doing' = [all |-> all, batch |-> wanted]
    /\ wanted' = {} /\ whole' = FALSE
    /\ UNCHANGED <<periodic, state>>

Finish ==
    /\ doing # Nothing
    /\ doing' = Nothing
    /\ UNCHANGED <<periodic, wanted, whole, state>>

GiveBack ==
    /\ state = "open"
    /\ doing # Nothing
    /\ doing' = Nothing
    /\ wanted' = wanted \cup doing.batch
    /\ UNCHANGED <<periodic, whole, state>>

Stop ==
    /\ state = "open"
    /\ state' = "stopping"
    /\ wanted' = {} /\ whole' = FALSE
    /\ UNCHANGED <<periodic, doing>>

Close ==
    /\ state = "stopping"
    /\ doing = Nothing
    /\ state' = "closed"
    /\ UNCHANGED <<periodic, wanted, whole, doing>>

Kill ==
    /\ state = "stopping"
    /\ state' = "killed"
    /\ doing' = Nothing
    /\ UNCHANGED <<periodic, wanted, whole>>

Next ==
    \/ \E p \in Paths : Want(p)
    \/ WantAll
    \/ \E all \in BOOLEAN : Take(all)
    \/ Finish \/ GiveBack
    \/ Stop \/ Close \/ Kill

Spec == Init /\ [][Next]_vars
================================================================================
