---------------------------- MODULE EstateMarket ----------------------------
(***************************************************************************)
(* How an estate comes to the market and leaves it, as far as the matches  *)
(* are concerned.  publish_status and the market places are not here.      *)
(***************************************************************************)
EXTENDS MatchTables

\* By an administrator, or when he approves a landlord's request.
Publish(r, e, retain) ==
    /\ Accepts(r, "publish")
    /\ status[e] \in {"draft", "expire"}
    /\ e \notin let
    /\ Begin(r, [NewCall("publish", None, e) EXCEPT !.flag = retain])

OfOtherEstates(pairs, e) == {p \in pairs : p[2] # e}

\* Without retainOldMatches the rows go, but the visits stay.
StorePublish(r, e) ==
    /\ Serving(r, "publish", None, e)
    /\ IF req[r].flag THEN UNCHANGED <<match, likes, dislikes>>
       ELSE /\ match' = [p \in Pairs |-> IF p[2] = e THEN NoRow ELSE match[p]]
            /\ likes' = OfOtherEstates(likes, e)
            /\ dislikes' = OfOtherEstates(dislikes, e)
    /\ status' = [status EXCEPT ![e] = "active"]
    /\ End(r)
    /\ UNCHANGED <<visit, slots, let, finalVars>>

Unpublish(r, e) ==
    /\ Accepts(r, "unpublish")
    /\ status[e] = "active"
    /\ \E isLet \in BOOLEAN :
          /\ isLet <=> e \in let
          /\ Begin(r, [NewCall("unpublish", None, e) EXCEPT !.flag = isLet])

\* The hook of the model Estate makes a draft of what is let.
StoreUnpublish(r, e) ==
    /\ Serving(r, "unpublish", None, e)
    /\ status' = [status EXCEPT ![e] = IF req[r].flag THEN "draft" ELSE "expire"]
    /\ End(r)
    /\ UNCHANGED <<match, pipelineVars, let, finalVars>>

Extend(e) ==
    /\ Served("extend")
    /\ status[e] \in {"expire", "active"}
    /\ status' = [status EXCEPT ![e] = "active"]
    /\ UNCHANGED <<match, pipelineVars, let, finalVars>>

OffMarketPublish(e) ==
    /\ Served("offMarket")
    /\ status[e] # "active"
    /\ status' = [status EXCEPT ![e] = "offline"]
    /\ UNCHANGED <<match, pipelineVars, let, finalVars>>

\* Everything that is not FINISH is forgotten.
Deactivate(e) ==
    /\ Served("deactivate")
    /\ status' = [status EXCEPT ![e] = "draft"]
    /\ match' = [p \in Pairs |->
                    IF p[2] = e /\ match[p].status # "finish" THEN NoRow ELSE match[p]]
    /\ visit' = [p \in Pairs |-> IF p[2] = e THEN None ELSE visit[p]]
    /\ likes' = OfOtherEstates(likes, e)
    /\ dislikes' = OfOtherEstates(dislikes, e)
    /\ UNCHANGED <<slots, let, finalVars>>

MarketNext ==
    \E e \in Estates :
        \/ Extend(e) \/ OffMarketPublish(e) \/ Deactivate(e)
        \/ \E r \in Requests :
              \/ \E retain \in BOOLEAN : Publish(r, e, retain)
              \/ StorePublish(r, e)
              \/ Unpublish(r, e) \/ StoreUnpublish(r, e)
=============================================================================
