------------------------------- MODULE Limiters -------------------------------
(***************************************************************************)
(* The two limiters that count what starts in a window of time: a          *)
(* RateLimitedQueue of @bunt/queue and a FixedWindowLimiter of @bunt/task.  *)
(* They share nothing.                                                     *)
(***************************************************************************)
CONSTANTS
    RateCallers, RateConcurrency, RateLimit,
    WindowCallers, WindowLength, WindowLimit, LowestFrame

VARIABLES
    slots, pending, caller, jobs, batch, timer, rateAlive, started,
    frames, timeouts, starts

rateVars == <<slots, pending, caller, jobs, batch, timer, rateAlive, started>>
windowVars == <<frames, timeouts, starts>>

Rate == INSTANCE RateLimited
    WITH Callers <- RateCallers, Concurrency <- RateConcurrency, Limit <- RateLimit,
         alive <- rateAlive
Window == INSTANCE FixedWindow
    WITH Callers <- WindowCallers, Window <- WindowLength, Limit <- WindowLimit,
         Lower <- LowestFrame, timer <- timeouts

ASSUME LimitersAssumption == Rate!RateAssumption /\ Window!WindowAssumption

------------------------------------------------------------------------------
\* A RateLimitedQueue lets no more functions through between two refreshes than its limit.
\* A FixedWindowLimiter lets more tasks start in a window than its limit, but fewer than
\* twice as many and two of each caller; in a window shorter by a frame, one of each caller
\* too many at most.
StartsAreBounded ==
    /\ Rate!TypeOK /\ Window!TypeOK
    /\ Rate!RateIsKept /\ Window!StartsAreLimited

================================================================================
