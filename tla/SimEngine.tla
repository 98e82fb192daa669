------------------------------- MODULE SimEngine ------------------------------
(***************************************************************************)
(* The simulation engine (simulations/pkg/engine/engine.go) and the run    *)
(* loop of the simulators (simulations/modules/base/simulator.go).         *)
(*                                                                         *)
(* Start launches a goroutine that ticks until the context it sees is      *)
(* cancelled.  The loop reads s.ctx anew, without a lock, whenever it goes *)
(* back to wait, so that a start may hand a new context to the loop of the *)
(* run before.  The engine holds one mutex per request; a tick does not    *)
(* need it.                                                                *)
(***************************************************************************)
EXTENDS Naturals, Sequences, FiniteSets

CONSTANTS
    MaxSims,     \* bound: simulators created
    MaxLoops,    \* bound: loops started
    MaxRequests  \* bound: requests to the engine

EngineAssumption == {MaxSims, MaxLoops, MaxRequests} \subseteq Nat

VARIABLES
    sims,        \* the simulators, by creation
    active,      \* e.active; 0 for nil
    status,      \* e.status
    loops,       \* the goroutines in runLoop, by creation
    \* observers
    requests,
    astray       \* requests that came at a bad moment

observers == <<requests, astray>>
vars == <<sims, active, status, loops, observers>>

\* ctx numbers the contexts of a simulator; Stop cancels the present one.
NewSim == [ctx |-> 0, running |-> FALSE, paused |-> FALSE]

\* A loop waits on a context or for a tick, runs one, or is on its way there.
Place == {"under way", "waiting", "ticking", "gone"}

Init ==
    /\ sims = <<>>
    /\ active = 0
    /\ status = "idle"
    /\ loops = <<>>
    /\ requests = 0
    /\ astray = {}

-----------------------------------------------------------------------------
LoopsOf(s) == {l \in DOMAIN loops : loops[l].sim = s /\ loops[l].at # "gone"}

\* What keeps ticking until somebody stops it.
Live(s) ==
    {l \in LoopsOf(s) : sims[s].running
        /\ (loops[l].at = "waiting" => loops[l].ctx = sims[s].ctx)}

\* Mutant: Stop does not cancel.
Unstopped(sim) == sim

\* BaseSimulator.Stop.
Stopped(sim) == [sim EXCEPT !.running = FALSE]

Request == requests < MaxRequests /\ requests' = requests + 1

Astray(why, when) == astray' = IF when THEN astray \cup {why} ELSE astray

(* Engine.Init: a new simulator takes over; the old one is not stopped.    *)
InitModule ==
    /\ Request
    /\ Len(sims) < MaxSims
    /\ sims' = Append(sims, NewSim)
    /\ active' = Len(sims) + 1
    /\ status' = "idle"
    /\ Astray("init", active # 0 /\ sims[active].running)
    /\ UNCHANGED loops

(* Engine.Start; a simulator that runs is left alone, paused or not.       *)
Start ==
    /\ Request
    /\ active # 0
    /\ status' = "running"
    /\ IF sims[active].running
       THEN Astray("start", sims[active].paused) /\ UNCHANGED <<sims, loops>>
       ELSE /\ Len(loops) < MaxLoops
            /\ sims' = [sims EXCEPT ![active] =
                   [ctx |-> @.ctx + 1, running |-> TRUE, paused |-> FALSE]]
            /\ loops' = Append(loops, [sim |-> active, at |-> "under way", ctx |-> 0])
            /\ Astray("restart", LoopsOf(active) # {})
    /\ UNCHANGED active

Stop ==
    /\ Request
    /\ active # 0
    /\ sims' = [sims EXCEPT ![active] = Stopped(@)]
    /\ status' = "stopped"
    /\ UNCHANGED <<active, loops, astray>>

Pause ==
    /\ Request
    /\ active # 0
    /\ sims' = [sims EXCEPT ![active].paused = TRUE]
    /\ status' = "paused"
    /\ UNCHANGED <<active, loops, astray>>

(* Engine.Resume, of a simulator that was never started, too.              *)
Resume ==
    /\ Request
    /\ active # 0
    /\ sims' = [sims EXCEPT ![active].paused = FALSE]
    /\ status' = "running"
    /\ Astray("resume", ~sims[active].running)
    /\ UNCHANGED <<active, loops>>

(* Engine.Reset: the loop goes on.                                         *)
Reset ==
    /\ Request
    /\ active # 0
    /\ status' = "idle"
    /\ UNCHANGED <<sims, active, loops, astray>>

(* Engine.Switch: the old simulator is stopped before the new one is known *)
(* to exist.                                                               *)
Switch ==
    /\ Request
    /\ LET old == IF active = 0 THEN sims ELSE [sims EXCEPT ![active] = Stopped(@)]
       IN  \/ /\ Len(sims) < MaxSims
              /\ sims' = Append(old, NewSim)
              /\ active' = Len(sims) + 1
              /\ status' = "idle"
              /\ UNCHANGED astray
           \/ /\ sims' = old
              /\ Astray("switch", TRUE)
              /\ UNCHANGED <<active, status>>
    /\ UNCHANGED loops

-----------------------------------------------------------------------------
\* runLoop, at the top of the loop: s.ctx.Done() is evaluated.
AwaitTick(l) ==
    /\ loops[l].at = "under way"
    /\ loops' = [loops EXCEPT ![l].at = "waiting", ![l].ctx = sims[loops[l].sim].ctx]
    /\ UNCHANGED <<sims, active, status, observers>>

\* The ticker may win over a context that is cancelled.
Tick(l) ==
    /\ loops[l].at = "waiting"
    /\ loops' = [loops EXCEPT ![l].at =
           IF sims[loops[l].sim].paused THEN "under way" ELSE "ticking"]
    /\ UNCHANGED <<sims, active, status, observers>>

TickDone(l) ==
    /\ loops[l].at = "ticking"
    /\ loops' = [loops EXCEPT ![l].at = "under way"]
    /\ UNCHANGED <<sims, active, status, observers>>

LoopEnds(l) ==
    /\ loops[l].at = "waiting"
    /\ LET sim == sims[loops[l].sim]
       IN  loops[l].ctx # sim.ctx \/ ~sim.running
    /\ loops' = [loops EXCEPT ![l].at = "gone"]
    /\ UNCHANGED <<sims, active, status, observers>>

Next ==
    \/ InitModule
    \/ Start
    \/ Stop
    \/ Pause
    \/ Resume
    \/ Reset
    \/ Switch
    \/ \E l \in DOMAIN loops :
        \/ AwaitTick(l)
        \/ Tick(l)
        \/ TickDone(l)
        \/ LoopEnds(l)

Spec == Init /\ [][Next]_vars

-----------------------------------------------------------------------------
(* Type correctness.                                                       *)
TypeOK ==
    /\ sims \in Seq([ctx : Nat, running : BOOLEAN, paused : BOOLEAN])
    /\ active \in 0 .. Len(sims)
    /\ status \in {"idle", "running", "paused", "stopped"}
    /\ loops \in Seq([sim : DOMAIN sims, at : Place, ctx : Nat])
    /\ requests \in 0 .. MaxRequests
    /\ astray \subseteq {"init", "start", "restart", "resume", "switch"}

(* A simulator that runs is driven by one loop, and one that was replaced  *)
(* by none, unless it was started again before the loop of its last run    *)
(* had ended, or was replaced by an initialisation while it ran; and an    *)
(* engine that calls itself running has a loop that ticks.                 *)
LoopsAccounted ==
    /\ "restart" \notin astray =>
           \A s \in DOMAIN sims : sims[s].running => Cardinality(Live(s)) = 1
    /\ "init" \notin astray => \A s \in DOMAIN sims \ {active} : Live(s) = {}
    /\ astray = {} /\ status = "running" =>
           Live(active) # {} /\ ~sims[active].paused
=============================================================================
