------------------------------ MODULE MCRedisQ2 ------------------------------
EXTENDS RedisQ2

CONSTANTS m1, m2, m3, l1, l2, u1, d

MCMessages == {m1, m2, m3}
MCTasks == {m1}
MCNoTasks == {}
MCMalformed == {m2}
MCTwoLoops == {l1, l2}
MCCalls == {u1, d}

==============================================================================
