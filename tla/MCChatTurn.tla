----------------------------- MODULE MCChatTurn -----------------------------
(***************************************************************************)
(* Two turns that may share a conversation.  The first asks two            *)
(* connections, or one of them and the documents, or nothing; the second   *)
(* the documents.                                                          *)
(***************************************************************************)
EXTENDS ChatTurn

CONSTANTS sales, stock, first, second

MCConnectionLists == {<<>>, <<sales>>, <<sales, stock>>}

MCSelections ==
    [r \in Requests |->
        IF r = first
        THEN {[list |-> <<sales, stock>>, kb |-> FALSE],
              [list |-> <<sales>>, kb |-> TRUE],
              [list |-> <<>>, kb |-> FALSE]}
        ELSE {[list |-> <<>>, kb |-> TRUE]}]
=============================================================================
