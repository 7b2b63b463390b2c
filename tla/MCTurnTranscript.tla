-------------------------- MODULE MCTurnTranscript --------------------------
(***************************************************************************)
(* One turn of up to two rounds with tools and the final call, over the    *)
(* chains that change the wire, with replies of no, one and two calls.     *)
(***************************************************************************)
EXTENDS TurnTranscript

MCChains ==
    {<<w>> : w \in Wire} \cup {p \in Wire \X Wire : p[1] # p[2]}
    \cup {<<"responses", "anthropic", "responses">>}

\* A fresh conversation, one with an answered question, and one whose earlier
\* question was never answered.
MCPriors == {<<>>, <<"user", "assistant">>, <<"user">>}

Call(tool, named, valid) == [tool |-> tool, named |-> named, valid |-> valid]

MCReply ==
    [text : {TRUE}, calls : {<<>>}, reasoned : BOOLEAN] \cup
    [text : BOOLEAN, reasoned : BOOLEAN,
     calls : {<<Call("recall_search", TRUE, TRUE)>>,
              <<Call("read_page", TRUE, FALSE), Call("web_fetch", TRUE, TRUE)>>,
              <<Call("recall_search", FALSE, TRUE), Call("propose_edit", TRUE, TRUE)>>}]
=============================================================================
