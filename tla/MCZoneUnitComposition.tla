----------------------- MODULE MCZoneUnitComposition -----------------------
(* Small instances of ZoneUnitComposition for TLC. *)
EXTENDS ZoneUnitComposition, TLC

WWW(t) == [name |-> "www", type |-> t]
MCOneIdent == {WWW("A")}
MCTwoTypes == {WWW("A"), WWW("CNAME")}

\* Every claim may take every identity, or only claim 1 may take either type.
MCAnyIdent == [c \in Claims |-> Idents]
MCFirstMoves == [c \in Claims |-> IF c = 1 THEN Idents ELSE MCOneIdent]

\* Two creations may fall in the same second.
MCCreatedAt == [u \in 1 .. MaxUID |-> (u + 1) \div 2]
MCNoPairs == {}
MCSymmetry == Permutations(Bodies)
=============================================================================
