--------------------------- MODULE BeaconPromise ---------------------------
(***************************************************************************)
(* What the beacon backend promises to the tasks that send through it: the *)
(* anchors it reports as accepted (IsConfigured) are the ones that it was  *)
(* last given, and the autopilot has confirmed just these.                 *)
(***************************************************************************)
CONSTANTS Configs, None

VARIABLES wanted,   \* the anchors of the last ConfigureAnchors
          agreed    \* the anchors the autopilot confirmed, while that counts

Init == wanted = None /\ agreed = None

Want == /\ wanted' \in Configs \cup {None}
        /\ agreed' = None

Agree == /\ wanted # None
         /\ agreed' = wanted
         /\ UNCHANGED wanted

Retract == agreed' = None /\ UNCHANGED wanted

Next == Want \/ Agree \/ Retract

Spec == Init /\ [][Next]_<<wanted, agreed>>
=============================================================================
