----------------------------- MODULE MCThreading -----------------------------
EXTENDS Threading
MCConversation == <<0, 1, 1, 2, 0>>
MCMatches == [c \in {"all", "foo"} |-> IF c = "all" THEN Uids ELSE {2}]
=============================================================================
