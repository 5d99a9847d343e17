------------------------------ MODULE MCRuntime ------------------------------
EXTENDS Runtime

CONSTANTS server, worker, pool, watcher, signal1, signal2, logger

\* A server is runnable and disposable, a worker gives its heartbeat a function,
\* a pool is only disposable.
MCTasks == {server, worker, pool}
MCRunnables == {server, worker}
MCDisposables == {server, pool}
MCJobCount == (server :> 1) @@ (worker :> 2)
MCTwoSignals == {signal1, signal2}

MCServer == {server}
MCServerJobs == server :> 1
MCOneSignal == {signal1}

==============================================================================
