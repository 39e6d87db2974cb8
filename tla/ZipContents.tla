---------------------------- MODULE ZipContents ----------------------------
(***************************************************************************)
(* What an archive being written promises its caller: a list of members    *)
(* that only grows, one whole member at a time, until it is finalized;     *)
(* what a reader then sees is that list.  An addition that fails leaves    *)
(* the list alone.                                                         *)
(***************************************************************************)
EXTENDS Sequences

CONSTANTS Names, Contents

VARIABLES
    members,        \* the members added so far: names and contents, in order
    final           \* what the finalized archive holds, or "none"

Member == [name : Names, content : Contents]

Init == members = <<>> /\ final = <<"none">>

Add(m) ==
    /\ final = <<"none">>
    /\ members' = Append(members, m)
    /\ UNCHANGED final

Finalize ==
    /\ final = <<"none">>
    /\ final' = <<"some", members>>
    /\ UNCHANGED members

\* The archive is given up, or another is begun.
Reset == Init'

Next == Finalize \/ Reset \/ \E m \in Member : Add(m)

Spec == Init /\ [][Next]_<<members, final>>
=============================================================================
