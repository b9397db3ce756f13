----------------------------- MODULE MCDialects -----------------------------
EXTENDS Dialects

MCUserContents ==
    {<<>>, <<Text("t1")>>, <<Text("")>>, <<Block("image", 0, "i1")>>,
     <<Block("other", 0, ""), Text("t2")>>, <<Text("t1"), Block("image", 0, "i1")>>}

Nothing == [key \in Controls |-> "absent"]

\* Every two thinking controls together, the two limits, and every other control.
ThinkingValues(key) ==
    CASE key = "thinking" -> {"disabled", "enabled"}
      [] key = "enable_thinking" -> {"true", "false"}
      [] key = "reasoning" -> {"enabled", "disabled", "effort"}
      [] OTHER -> {"off", "minimal", "low", "max", "odd"}

MCSettings ==
    {Nothing}
    \cup {[Nothing EXCEPT ![k] = v, ![l] = w] :
            <<k, v, l, w>> \in UNION {{<<k, v, l, w>> : v \in ThinkingValues(k),
                                                      w \in ThinkingValues(l)}
                                     : <<k, l>> \in ThinkingKeys \X ThinkingKeys}}
    \cup {[Nothing EXCEPT !["max_tokens"] = v, !["max_completion_tokens"] = w] :
            v, w \in {"absent", "0", "100", "200"}}
    \cup {[Nothing EXCEPT ![k] = "set"] : k \in SamplingKeys}
=============================================================================
