----------------------------- MODULE MCProducers ----------------------------
(***************************************************************************)
(* Instance of Producers: two lines of the agent, and three rows of        *)
(* Shield: two alerts and an event of netprobe without a hash.             *)
(***************************************************************************)
EXTENDS Producers

CONSTANTS a1, a2, r1, r2, r3

MCAgentEvents == {[key |-> <<a>>, at |-> 0, data |-> a] : a \in {a1, a2}}
MCRows == {r1, r2, r3}
MCEvents == MCAgentEvents \cup
            [key : MCRows \X (0 .. MaxRuns), at : {0}, data : MCRows]
MCTableOf == [r \in MCRows |-> IF r = r3 THEN "netprobe_events" ELSE "alerts"]
=============================================================================
