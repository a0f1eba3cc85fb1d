------------------------------- MODULE MCGate -------------------------------
(* Gate on a small instance: three apps, one of them a plain connector, four *)
(* tools, two calls.  The person can allow sends with a cap of one, allow     *)
(* everything up to two, or ask about reads and give a cap that is out of     *)
(* range.                                                                     *)
EXTENDS Gate, TLC

MCApps == {"gmail", "slack", "crm"}
MCTools == {"mail", "draft", "post", "bill"}
MCAppOf == [mail |-> "gmail", draft |-> "gmail", post |-> "slack", bill |-> "crm"]
MCAutoKind == [mail |-> "send", draft |-> "change", post |-> "read", bill |-> "change"]
MCBatches == {{"mail"}, {"mail", "draft"}, {"draft", "post"}, {"bill"}}
MCSettings ==
    {[read |-> "run", change |-> "allow", send |-> "allow", cap |-> 2],
     [read |-> "ask", change |-> "ask", send |-> "allow", cap |-> 0]}

CONSTANTS c1, c2, k1, k2
CallSymmetry == Permutations({c1, c2}) \cup Permutations({k1, k2})
=============================================================================
