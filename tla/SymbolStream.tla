---------------------------- MODULE SymbolStream ----------------------------
(***************************************************************************)
(* What a sequence of symbols of a deflate stream stands for: the          *)
(* reference against which Inflate.tla is checked.                         *)
(***************************************************************************)
LOCAL INSTANCE Naturals
LOCAL INSTANCE Sequences

Junk == 0           \* a byte that nobody wrote

\* A copy repeats what lies dist bytes back, and may overlap itself; what lies
\* before the first byte is arbitrary.
Expected(cells) ==
    LET back(s, dist) == IF dist <= Len(s) THEN s[Len(s) + 1 - dist] ELSE Junk
        copied[p \in Seq(Nat) \X Nat \X Nat] ==
            IF p[3] = 0 THEN p[1]
            ELSE copied[<<Append(p[1], back(p[1], p[2])), p[2], p[3] - 1>>]
        upto[i \in Nat] ==
            IF i = 0 THEN <<>>
            ELSE CASE cells[i].t \in {"lit", "raw"} -> Append(upto[i - 1], cells[i].b)
                   [] cells[i].t = "copy" -> copied[<<upto[i - 1], cells[i].dist, cells[i].len>>]
                   [] OTHER -> upto[i - 1]
    IN upto[Len(cells)]
=============================================================================
