----------------------------- MODULE MCFlowGraph -----------------------------
(***************************************************************************)
(* A small pair of flows for FlowRuntime: a menu with an edge, a branch    *)
(* subflow, a branch target and a dead branch; nodes whose result names    *)
(* the next node, whose edge leads nowhere or to a webhook; a login; and a *)
(* subflow that ends, calls itself or runs out of edges.                   *)
(***************************************************************************)
EXTENDS FlowRuntime

Edge(src, cond, to) == [src |-> src, cond |-> cond, branch |-> "default",
                        to |-> to]

MCFlowIds == {"root", "sub"}

MCFlowNodes ==
  [root |-> [s |-> "start", m |-> "menu", p |-> "play_audio",
             t |-> "transfer", n |-> "voicemail", w |-> "webhook",
             q |-> "queue_login", e |-> "menu"],
   sub |-> [s |-> "start", g |-> "get_digits", x |-> "play_audio",
            h |-> "hangup", m |-> "menu"]]

MCFlowEdges ==
  [root |-> {Edge("s", "null", "m"), Edge("m", "1", "p"),
             Edge("m", "complete", "q"), Edge("p", "null", "t"),
             Edge("t", "no_answer", "nowhere"), Edge("n", "done", "w"),
             Edge("q", "failed", "e"), Edge("e", "1", "g")},
   sub |-> {Edge("s", "null", "g"), Edge("g", "1", "m"),
            Edge("g", "timeout", "h"), Edge("m", "1", "x")}]

MCSubflowOf ==
  [b \in {<<"root", "m">>, <<"root", "e">>, <<"sub", "m">>} |->
     IF b[1] = "root" THEN "sub" ELSE "none"]

MenuResults ==
  {<<"root", "m">>, <<"root", "e">>, <<"sub", "m">>} \X {"1", "2"}

MCBranchFlow ==
  [b \in {<<r[1][1], r[1][2], r[2]>> : r \in MenuResults} |->
     IF b \in {<<"root", "m", "2">>, <<"sub", "m", "2">>} THEN "sub" ELSE "none"]

MCBranchTarget ==
  [b \in {<<r[1][1], r[1][2], r[2]>> : r \in MenuResults} |->
     IF b = <<"root", "e", "2">> THEN "h" ELSE "none"]
=============================================================================
