---------------------------- MODULE QuotaBreaker ---------------------------
(***************************************************************************)
(* The circuit breaker of Quota around Redis: CheckAndIncr of concurrent   *)
(* requests, Sentinel's breaker with one rule (ErrorCount), and the        *)
(* listener through which Quota keeps a state and a time of its own.  The  *)
(* goroutine that changes the breaker's state calls the listener right     *)
(* after its compare-and-swap, without a lock: callbacks of successive     *)
(* changes interleave.  Times are counted in ticks of five seconds.        *)
(***************************************************************************)
EXTENDS Arith

CONSTANTS
  Threads,       \* goroutines that handle requests
  MinRequests,   \* MinRequestAmount: 100 in the code
  Threshold,     \* errors among them that open the breaker: 50
  RetryTicks,    \* RetryTimeoutMs: two ticks
  PromptOpening  \* whether the callback of an opening is done when its retry timeout is

ASSUME BreakerAssumption ==
  /\ Threshold \in 1..MinRequests /\ MinRequests \in Nat
  /\ RetryTicks \in Nat \ {0}
  /\ PromptOpening \in BOOLEAN

VARIABLES
  redisUp,       \* whether runLua succeeds
  breaker,       \* Sentinel's state
  retry,         \* what is left of the retry timeout
  total, errors, \* the statistics of the current second, up to the limits
  state,         \* Quota's copy of the state
  elapsed,       \* the time since openTime, up to FullAfter
  req            \* where each request is

breakerVars == <<redisUp, breaker, retry, total, errors, state, elapsed, req>>

sentinel == <<breaker, retry, total, errors>>
quota    == <<state, elapsed>>

FullAfter == 4   \* ticks: 20 s

Idle == [pc |-> "idle", err |-> FALSE]

BreakerInit ==
  /\ redisUp \in BOOLEAN
  /\ breaker = "closed" /\ retry = 0 /\ total = 0 /\ errors = 0
  /\ state = "closed" /\ elapsed = FullAfter   \* openTime is 0
  /\ req = [t \in Threads |-> Idle]

Goto(t, pc) == req' = [req EXCEPT ![t].pc = pc]

-----------------------------------------------------------------------------
(* Bodies a bug could have given the definitions below. *)

RatioWithoutEnd(ticks) == CASE ticks < 1 -> 10 [] ticks < 2 -> 20 [] OTHER -> 50

NoRetryTimeout == TRUE

RetryUnbounded == retry - 1

-----------------------------------------------------------------------------
(* sentinel.Entry. *)

RetryTimeoutArrived ==
  retry = 0 /\ (PromptOpening => \A t \in Threads : req[t].pc # "onOpen")

\* Sentinel lets a request pass a closed breaker, and one an open breaker whose
\* timeout has arrived: that one makes it half open.  All others are answered
\* circuit_breaker_open.
Entry(t) ==
  /\ req[t].pc = "idle"
  /\ \/ breaker = "closed" /\ Goto(t, "ratio") /\ UNCHANGED breaker
     \/ /\ breaker = "open" /\ RetryTimeoutArrived
        /\ breaker' = "halfopen"
        /\ Goto(t, "onHalfOpen")
  /\ UNCHANGED <<redisUp, retry, total, errors, quota>>

-----------------------------------------------------------------------------
(* CheckAndIncr between Entry and Exit. *)

\* getAllowedRatio in percent, once the state was read as half open.
Ratio(ticks) == CASE ticks < 1 -> 10 [] ticks < 2 -> 20 [] ticks < FullAfter -> 50
                  [] OTHER -> 100

ReadState(t) ==
  /\ req[t].pc = "ratio"
  /\ \/ state = "closed"   /\ Goto(t, "redis")
     \/ state = "open"     /\ Goto(t, "exit")      \* warmup_throttled
     \/ state = "halfopen" /\ Goto(t, "time")
  /\ UNCHANGED <<redisUp, sentinel, quota>>

\* rand decides between the two.
ReadTime(t) ==
  /\ req[t].pc = "time"
  /\ \/ Goto(t, "redis")
     \/ Ratio(elapsed) < 100 /\ Goto(t, "exit")    \* warmup_throttled
  /\ UNCHANGED <<redisUp, sentinel, quota>>

\* runLua (see QuotaCounters); TraceError notes an error.
Redis(t) ==
  /\ req[t].pc = "redis"
  /\ req' = [req EXCEPT ![t] = [pc |-> "exit", err |-> ~redisUp]]
  /\ UNCHANGED <<redisUp, sentinel, quota>>

-----------------------------------------------------------------------------
(* entry.Exit: Sentinel counts the request and may change the state. *)

\* Whatever request ends first, be it the probe, an older one, or one that was
\* throttled and never saw Redis, decides a half open breaker.
Exit(t) ==
  LET err == req[t].err
      n   == LesserOf(MinRequests, total + 1)
      e   == LesserOf(Threshold, errors + (IF err THEN 1 ELSE 0)) IN
  /\ req[t].pc = "exit"
  /\ total' = n /\ errors' = e
  /\ \/ /\ \/ breaker = "open"
           \/ breaker = "closed" /\ (n < MinRequests \/ e < Threshold)
        /\ req' = [req EXCEPT ![t] = Idle]
        /\ UNCHANGED <<breaker, retry>>
     \/ /\ breaker = "halfopen" /\ ~err
        /\ breaker' = "closed"
        /\ Goto(t, "onClosed")
        /\ UNCHANGED retry
     \/ /\ \/ breaker = "halfopen" /\ err
           \/ breaker = "closed" /\ n = MinRequests /\ e = Threshold
        /\ breaker' = "open" /\ retry' = RetryTicks
        /\ Goto(t, "onOpen")
  /\ UNCHANGED <<redisUp, quota>>

-----------------------------------------------------------------------------
(* quotaStateListener. *)

\* OnTransformToHalfOpen and OnTransformToOpen: the state, then the time.
StoreState(t) ==
  /\ \/ req[t].pc = "onHalfOpen" /\ state' = "halfopen" /\ Goto(t, "timeHalfOpen")
     \/ req[t].pc = "onOpen" /\ state' = "open" /\ Goto(t, "timeOpen")
  /\ UNCHANGED <<redisUp, sentinel, elapsed>>

StoreTime(t) ==
  /\ \/ req[t].pc = "timeHalfOpen" /\ Goto(t, "ratio")   \* the probe goes on
     \/ req[t].pc = "timeOpen" /\ req' = [req EXCEPT ![t] = Idle]
  /\ elapsed' = 0
  /\ UNCHANGED <<redisUp, sentinel, state>>

\* OnTransformToClosed, after which Sentinel resets its statistics.
OnClosed(t) ==
  /\ req[t].pc = "onClosed"
  /\ state' = "closed"
  /\ total' = 0 /\ errors' = 0
  /\ req' = [req EXCEPT ![t] = Idle]
  /\ UNCHANGED <<redisUp, breaker, retry, elapsed>>

-----------------------------------------------------------------------------
(* The environment. *)

Fluctuate ==
  /\ redisUp' = ~redisUp
  /\ UNCHANGED <<sentinel, quota, req>>

\* StatIntervalMs is over.
NewWindow ==
  /\ total > 0
  /\ total' = 0 /\ errors' = 0
  /\ UNCHANGED <<redisUp, breaker, retry, quota, req>>

RetryLeft == GreaterOf(0, retry - 1)

\* Five seconds pass.
FiveSeconds ==
  /\ retry > 0 \/ elapsed < FullAfter
  /\ retry' = RetryLeft
  /\ elapsed' = LesserOf(FullAfter, elapsed + 1)
  /\ total' = 0 /\ errors' = 0
  /\ UNCHANGED <<redisUp, breaker, state, req>>

\* A request that has passed Entry goes on.
Continue(t) ==
  ReadState(t) \/ ReadTime(t) \/ Redis(t) \/ Exit(t)
    \/ StoreState(t) \/ StoreTime(t) \/ OnClosed(t)

BreakerNext ==
  \/ \E t \in Threads : Entry(t) \/ Continue(t)
  \/ Fluctuate \/ NewWindow \/ FiveSeconds

BreakerSpec == BreakerInit /\ [][BreakerNext]_breakerVars

\* Goroutines run (runLua has a timeout of 100 ms), time passes, and requests keep
\* coming.  Redis need not come back.
Fairness ==
  /\ \A t \in Threads : WF_breakerVars(Continue(t))
  /\ WF_breakerVars(\E t \in Threads : Entry(t))
  /\ WF_breakerVars(FiveSeconds)

FairBreakerSpec == BreakerSpec /\ Fairness

-----------------------------------------------------------------------------
(* Properties. *)

\* Every variable has the values its field in the code can have.
BreakerTypeOK ==
  /\ redisUp \in BOOLEAN
  /\ breaker \in {"closed", "open", "halfopen"} /\ state \in {"closed", "open", "halfopen"}
  /\ retry \in 0..RetryTicks /\ elapsed \in 0..FullAfter
  /\ total \in 0..MinRequests /\ errors \in 0..Threshold /\ errors <= total
  /\ req \in [Threads -> [pc : {"idle", "ratio", "time", "redis", "exit", "onHalfOpen",
                                "onOpen", "timeHalfOpen", "timeOpen", "onClosed"},
                          err : BOOLEAN]]

InCallback(t) ==
  req[t].pc \in {"onHalfOpen", "onOpen", "timeHalfOpen", "timeOpen", "onClosed"}

\* However the callbacks interleave, they do not leave Quota shut behind a closed
\* breaker: nothing would open it again, since a request that is throttled never
\* fails and so never changes the breaker.
NeverShutForGood ==
  breaker = "closed" /\ (\A t \in Threads : ~InCallback(t)) => state # "open"

\* Once Redis works for good, every request is sent to it in the end: the breaker
\* closes, and what the callbacks left behind does not throttle for ever.
Recovers ==
  <>[]redisUp => <>[](/\ breaker = "closed"
                      /\ state = "closed" \/ (state = "halfopen" /\ Ratio(elapsed) = 100))
=============================================================================
