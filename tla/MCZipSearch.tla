---------------------------- MODULE MCZipSearch ----------------------------
(***************************************************************************)
(* Instances of ZipSearch: four names, two of them spelled two ways, and   *)
(* windows of eight bytes.                                                 *)
(***************************************************************************)
EXTENDS ZipSearch

MCNames ==
    {[path |-> p, base |-> b, upper |-> FALSE] : p \in {0, 1}, b \in {1, 2}}
        \cup {[path |-> 0, base |-> 1, upper |-> TRUE]}

=============================================================================
