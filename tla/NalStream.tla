------------------------------ MODULE NalStream ------------------------------
(***************************************************************************)
(* What the video path owes one viewer, seen from the NAL units alone: the *)
(* base sends units, the viewer is shown units, and a unit that nothing    *)
(* hurt on the way is shown whole, once, in its turn and without a gap.    *)
(* A unit that was hurt may be missing, late or damaged, and repeated if   *)
(* it came twice, but its trouble is its own.  VideoPath implements this   *)
(* module for every viewer.                                                *)
(***************************************************************************)
EXTENDS Naturals, Sequences

VARIABLES
    sent,   \* units 1..sent were sent
    hurt,   \* units a part of which was lost, displaced, doubled or passed over
    twice,  \* those a part of which was doubled
    shown   \* what the viewer got: the unit, and whether it was whole

streamVars == <<sent, hurt, twice, shown>>

Shown == {shown[i].unit : i \in DOMAIN shown}

Init ==
    /\ sent = 0
    /\ hurt = {} /\ twice = {}
    /\ shown = <<>>

Send ==
    /\ sent' > sent
    /\ UNCHANGED <<hurt, twice, shown>>

Hurt ==
    /\ hurt \subseteq hurt' /\ twice \subseteq twice'
    /\ UNCHANGED <<sent, shown>>

InTurn(u) == \A w \in 1 .. (u - 1) : w \in hurt \/ w \in Shown

Show ==
    /\ \E u \in 1 .. sent, whole \in BOOLEAN :
         /\ u \notin Shown \/ u \in twice
         /\ u \in hurt \/ (whole /\ InTurn(u))
         /\ shown' = Append(shown, [unit |-> u, whole |-> whole])
    /\ UNCHANGED <<sent, hurt, twice>>

Next == Send \/ Hurt \/ Show

Spec == Init /\ [][Next]_streamVars
=============================================================================
