-------------------------- MODULE DesktopOwnership ---------------------------
(***************************************************************************)
(* What the Host store promises about desktops, without Sessions,          *)
(* revisions, records or lease rows.  A desktop is owned by at most one    *)
(* Turn; a Turn owns its desktop once, from its admission to its end; and  *)
(* probes, snapshots and maintenance use only desktops no Turn owns.       *)
(***************************************************************************)
CONSTANTS
    Turns,       \* Turns that may ever be admitted
    Desktops,    \* desktops of the Host
    DesktopOf    \* the desktop each Turn runs on

VARIABLES
    owners,      \* Turns that own their desktop
    ended,       \* Turns whose ownership is over
    borrowed     \* desktops in use by something other than a Turn

Owned == {DesktopOf[t] : t \in owners}

Init ==
    /\ owners = {}
    /\ ended = {}
    /\ borrowed = {}

Acquire(t) ==
    /\ t \notin owners \cup ended
    /\ DesktopOf[t] \notin Owned \cup borrowed
    /\ owners' = owners \cup {t}
    /\ UNCHANGED <<ended, borrowed>>

Release(t) ==
    /\ t \in owners
    /\ owners' = owners \ {t}
    /\ ended' = ended \cup {t}
    /\ UNCHANGED borrowed

\* Several desktops change at once when maintenance begins or ends.
Borrow ==
    /\ borrowed' \in SUBSET (Desktops \ Owned)
    /\ UNCHANGED <<owners, ended>>

Next == (\E t \in Turns : Acquire(t) \/ Release(t)) \/ Borrow

Spec == Init /\ [][Next]_<<owners, ended, borrowed>>
=============================================================================
