----------------------------- MODULE MC_MPMsgMgr -----------------------------
(* MPMsgMgr for two clients of one dispatcher that send to another, which   *)
(* has a thread less than there can be messages.                            *)
EXTENDS MPMsgMgr

CONSTANTS v1, v2, c1, c2, w1, w2, m1

MCVPs     == {v1, v2}
MCClients == {c1, c2}
MCWorkers == {w1, w2}
MCHolders == {m1}
MCTargets == {v2}
MCHome    == [x \in MCClients \cup MCHolders \cup MCWorkers |->
                IF x \in MCWorkers THEN v2 ELSE v1]
=============================================================================
