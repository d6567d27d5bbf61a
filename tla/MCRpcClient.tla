----------------------------- MODULE MCRpcClient -----------------------------
EXTENDS RpcClient

CONSTANTS c1, c2

MCCall == {c1, c2}
Waiting  == [c \in MCCall |-> IF c = c1 THEN "sync" ELSE "timed"]
Unwaited == [c \in MCCall |-> IF c = c1 THEN "async" ELSE "oneway"]
MCKinds == {Waiting, Unwaited}
=============================================================================
