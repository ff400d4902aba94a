-------------------------- MODULE MCMessageFramer --------------------------
EXTENDS MessageFramer

MCPayloads == {<<>>, <<5>>, <<0, 9>>}

\* A Bitfield may be empty; an Extended message names its extension.
MCShortest == [type \in {5, 20} |-> IF type = 20 THEN 1 ELSE 0]
=============================================================================
