------------------------------- MODULE Lifecycle -------------------------------
(*******************************************************************************)
(* cmd/anteroom/main.go run(): a process loads its configuration, binds both   *)
(* its listeners before it serves on either, and serves until a listener fails *)
(* or somebody asks it to stop; then it drains both servers on one grace.      *)
(* Whoever runs it starts it again.  Connections come and go by themselves.    *)
(*******************************************************************************)
EXTENDS Integers

CONSTANTS
  Off,         \* no configuration: not loaded, or refused
  MaxOpen,     \* bound: connections open at a server
  MaxStarts    \* bound: processes started

Server == {"admin", "gate"}

VARIABLES
  cfg,      \* the configuration the process runs with
  stage,    \* where run() stands
  serving,  \* servers whose Serve goroutine is in its accept loop
  open,     \* connections each server has to finish
  errs,     \* errors in errCh, which holds two
  signal,   \* a signal in the channel that Notify feeds
  grace,    \* what is left of the drain's context
  exit,     \* how the process ended
  starts

process == <<cfg, stage, serving, open, errs, signal, grace, exit>>
lifeVars == <<process, starts>>

LifeTypeOK ==
  /\ stage \in {"off", "loaded", "bound", "serving", "watching", "drain admin", "drain gate"}
  /\ serving \subseteq Server
  /\ open \in [Server -> 0 .. MaxOpen]
  /\ errs \in 0 .. 2 /\ signal \in BOOLEAN
  /\ exit \in {"none", "ok", "error", "killed"}
  /\ starts \in 0 .. MaxStarts

LifeInit ==
  /\ cfg = Off /\ stage = "off" /\ serving = {} /\ open = [s \in Server |-> 0]
  /\ errs = 0 /\ signal = FALSE /\ grace = 0
  /\ exit = "none" /\ starts = 0

\* The process ends, and every connection and goroutine with it.
Ends(how) ==
  /\ cfg' = Off /\ stage' = "off" /\ serving' = {} /\ open' = [s \in Server |-> 0]
  /\ errs' = 0 /\ signal' = FALSE /\ grace' = 0
  /\ exit' = how
Exit(how) == Ends(how) /\ UNCHANGED starts

\* config.Load and gate.New, which opens the payment file, or the refusal of either.
Start(c) ==
  /\ stage = "off" /\ starts < MaxStarts
  /\ starts' = starts + 1
  /\ \/ /\ c # Off /\ cfg' = c /\ stage' = "loaded" /\ exit' = "none"
        /\ UNCHANGED <<serving, open, errs, signal, grace>>
     \/ Ends("error")

\* net.Listen for the gate, then for the admin server; its address may be taken.
Bind ==
  /\ stage = "loaded"
  /\ \/ stage' = "bound" /\ UNCHANGED <<cfg, serving, open, errs, signal, grace, exit, starts>>
     \/ Exit("error")

\* The two Serve goroutines, and then Notify.
Serve ==
  /\ stage = "bound"
  /\ stage' = "serving"
  /\ serving' = IF cfg.admin = Off THEN {"gate"} ELSE Server
  /\ UNCHANGED <<cfg, open, errs, signal, grace, exit, starts>>

Watch ==
  /\ stage = "serving" /\ stage' = "watching"
  /\ UNCHANGED <<cfg, serving, open, errs, signal, grace, exit, starts>>

\* An accept loop fails: its goroutine says so and is gone.
ServeFails(s) ==
  /\ s \in serving
  /\ serving' = serving \ {s} /\ errs' = errs + 1
  /\ UNCHANGED <<cfg, stage, open, signal, grace, exit, starts>>

Connect(s) ==
  /\ s \in serving /\ open[s] < MaxOpen
  /\ open' = [open EXCEPT ![s] = @ + 1]
  /\ UNCHANGED <<cfg, stage, serving, errs, signal, grace, exit, starts>>

Finish(s) ==
  /\ open[s] > 0
  /\ open' = [open EXCEPT ![s] = @ - 1]
  /\ UNCHANGED <<cfg, stage, serving, errs, signal, grace, exit, starts>>

\* SIGTERM: before Notify it kills; after, one is kept and no more are heard.
Signal ==
  /\ stage # "off"
  /\ IF stage \in {"loaded", "bound", "serving"} THEN Exit("killed")
     ELSE signal' = TRUE /\ UNCHANGED <<cfg, stage, serving, open, errs, grace, exit, starts>>

\* The select, whose choice is free when both channels are ready.
Fail == stage = "watching" /\ errs > 0 /\ Exit("error")

Stop ==
  /\ stage = "watching" /\ signal
  /\ signal' = FALSE /\ grace' = cfg.grace
  /\ stage' = IF cfg.admin = Off THEN "drain gate" ELSE "drain admin"
  /\ serving' = serving \ IF cfg.admin = Off THEN {"gate"} ELSE {"admin"}
  /\ UNCHANGED <<cfg, open, errs, exit, starts>>

\* A slip: Shutdown waits for as long as it takes.
DrainedAtLast(s) == open[s] = 0

\* Shutdown has nothing left to wait for, or its context is done and Close cuts the rest.
Drained(s) == open[s] = 0 \/ grace = 0

\* The admin server first; the gate accepts connections meanwhile.
AdminDown ==
  /\ stage = "drain admin" /\ Drained("admin")
  /\ open' = [open EXCEPT !["admin"] = 0]
  /\ stage' = "drain gate" /\ serving' = serving \ {"gate"}
  /\ UNCHANGED <<cfg, errs, signal, grace, exit, starts>>

GateDown == stage = "drain gate" /\ Drained("gate") /\ Exit("ok")

Elapse ==
  /\ stage \in {"drain admin", "drain gate"} /\ grace > 0
  /\ grace' = grace - 1
  /\ UNCHANGED <<cfg, stage, serving, open, errs, signal, exit, starts>>

\* What the process and the clock do by themselves.
Runs == Bind \/ Serve \/ Watch \/ Fail \/ Stop \/ AdminDown \/ GateDown \/ Elapse

LifeStep == Runs \/ Signal \/ \E s \in Server : ServeFails(s) \/ Connect(s) \/ Finish(s)

-----------------------------------------------------------------------------
\* Asked to stop, it stops: a drain ends, whatever the connections do, and that is no
\* failure; a signal it has heard is not lost on it (run's comments on the drain and on
\* its exit code).
StopsWhenAsked ==
  /\ signal ~> stage = "off"
  /\ stage \in {"drain admin", "drain gate"} ~> exit = "ok"
================================================================================
