----------------------------- MODULE Reconciler -----------------------------
(***************************************************************************)
(* The session agent's reconcile loop (tools/latency-spike/server/src/     *)
(* agent.rs, driven by src/bin/agent.rs): every TICK_SECS it polls its two *)
(* children and the virtual display and moves one step of creator, device, *)
(* display mode, server.  A tick takes its readings one after another and  *)
(* Windows does not stand still meanwhile, so each stage of a tick is an   *)
(* action.                                                                 *)
(*                                                                         *)
(* The rest is what Windows, the display driver and the children do as far *)
(* as the agent's code relies on it.  A creator brings up one device,      *)
(* whose identity is new each time and which goes some time after its      *)
(* creator died; the driver publishes a pool and rebuilds it under the     *)
(* next generation; a server follows the rebuilds of the device it is      *)
(* attached to and captures nothing once that device is gone.              *)
(***************************************************************************)
EXTENDS Integers

CONSTANTS
  Modes,                 \* display modes a client may ask for
  DESIRED_MODE,          \* the mode wanted before the first request
  DefaultMode,           \* the mode a new device comes up in
  Absent,                \* no value
  MAX_BACKOFF_TICKS,
  HEALTHY_RESET_TICKS,
  POOL_FAULT_TICKS,
  CYCLE_DEADLINE_TICKS,
  DriverTicks,           \* ticks that may begin before a running creator's driver publishes
  Generations,           \* bound: pool generations, reused in a circle
  Identities,            \* bound: device identities, reused when nobody knows them
  MaxFaults              \* bound: requests and disturbances

ASSUME ReconcilerAssumption ==
  /\ DESIRED_MODE \in Modes /\ DefaultMode \notin Modes
  /\ MAX_BACKOFF_TICKS \in Nat \ {0}
  /\ HEALTHY_RESET_TICKS \in Nat \ {0}
  /\ POOL_FAULT_TICKS \in Nat \ {0}
  /\ CYCLE_DEADLINE_TICKS \in Nat \ {0}
  /\ DriverTicks \in Nat
  /\ Generations \in Nat \ {0, 1} /\ Identities \in Nat \ {0, 1, 2}
  /\ MaxFaults \in Nat
  /\ Absent \notin Int

VARIABLES
  pc,                  \* the stage of the tick the reconcile thread is at
  asked,               \* Shared: requests of the control thread not yet taken
  creator, server,     \* Reconciler.creator, .server
  desired,
  last_device_id,      \* Absent or the identity last observed
  mode_ok,
  restart_server_requested,
  pool,                \* this tick's reading: a generation, 0 for none, Absent unreadable
  server_generation,
  pool_fault_ticks,
  cycling,             \* Absent or Cycling.waited
  creatorProc,         \* the creator process as a poll would find it
  srv,                 \* the server process: [proc, attach, born]
  dev,                 \* the device: [id, up, owned]; owned while its creator lives
  disp,                \* its display: [mode, placed, scaled]
  gen,                 \* the published generation, 0 for no pool
  lastGen,             \* the driver's generation counter
  late,                \* ticks begun while a creator ran and no pool was published
  faults               \* requests and disturbances so far

agentVars == <<creator, server, desired, last_device_id, mode_ok,
               restart_server_requested, pool, server_generation,
               pool_fault_ticks, cycling>>
worldVars == <<creatorProc, srv, dev, disp, gen, lastGen>>
allVars == <<pc, asked, agentVars, worldVars, late, faults>>

Min2(a, b) == IF a < b THEN a ELSE b

-----------------------------------------------------------------------------
(* Supervision of one child.  Telemetry (restarts, last_exit) is left out. *)

NewSupervised ==
  [running |-> FALSE, ever |-> FALSE, cooldown |-> 0, next |-> 1, healthy |-> 0]

(* A death, or a spawn that failed, costs the current backoff.             *)
BackedOff(s) ==
  [s EXCEPT !.running = FALSE, !.healthy = 0, !.cooldown = s.next,
            !.next = Min2(2 * s.next, MAX_BACKOFF_TICKS)]

Spawns(s, poll) == poll = "none" /\ s.cooldown = 0

(* Supervised::tick, given what the poll found and whether a spawn works.  *)
Ticked(s, poll, spawnOk) ==
  CASE poll = "running" ->
         LET h == Min2(s.healthy + 1, HEALTHY_RESET_TICKS)
         IN  [s EXCEPT !.running = TRUE, !.healthy = h,
                       !.next = IF h = HEALTHY_RESET_TICKS THEN 1 ELSE @]
    [] poll = "exited" -> BackedOff(s)
    [] poll = "none" /\ s.cooldown > 0 ->
         [s EXCEPT !.running = FALSE, !.healthy = 0, !.cooldown = @ - 1]
    [] Spawns(s, poll) ->
         IF spawnOk THEN [s EXCEPT !.running = TRUE, !.ever = TRUE, !.healthy = 0]
                    ELSE [BackedOff(s) EXCEPT !.ever = TRUE]

NoServer == [proc |-> "none", attach |-> "waiting", born |-> Absent]

(* A poll reaps: the exited child is forgotten.                            *)
Reaped(proc) == IF proc = "exited" THEN "none" ELSE proc

-----------------------------------------------------------------------------
AgentInit ==
  /\ pc = "sleep"
  /\ asked = [restart |-> FALSE, cycle |-> FALSE, display |-> Absent]
  /\ creator = NewSupervised /\ server = NewSupervised
  /\ desired = DESIRED_MODE
  /\ last_device_id = Absent /\ mode_ok = FALSE
  /\ restart_server_requested = FALSE
  /\ pool = Absent /\ server_generation = Absent /\ pool_fault_ticks = 0
  /\ cycling = Absent
  /\ creatorProc = "none" /\ srv = NoServer
  /\ dev = [id |-> 1, up |-> FALSE, owned |-> FALSE]
  /\ disp = [mode |-> DefaultMode, placed |-> FALSE, scaled |-> FALSE]
  /\ gen = 0 /\ lastGen = 0 /\ late = 0 /\ faults = 0

(* A disturbance or a request, of which a run has finitely many.           *)
Fault == faults < MaxFaults /\ faults' = faults + 1

-----------------------------------------------------------------------------
(* The control thread.  A later display request replaces one not yet taken. *)

ControlRequest ==
  /\ Fault
  /\ \/ asked' = [asked EXCEPT !.restart = TRUE]
     \/ asked' = [asked EXCEPT !.cycle = TRUE]
     \/ \E m \in Modes, rescale \in BOOLEAN :
          asked' = [asked EXCEPT !.display = [mode |-> m, rescale |-> rescale]]
  /\ UNCHANGED <<pc, agentVars, worldVars, late>>

-----------------------------------------------------------------------------
(* The reconcile thread.                                                   *)

Waiting == creatorProc = "running" /\ gen = 0

(* The driver has had its time: it publishes before the next tick begins.  *)
DriverDue == Waiting /\ late >= DriverTicks

(* The requests are handed to the reconciler under the lock.  Then the     *)
(* thread follows the input desktop; while it cannot, it skips the pass.   *)
BeginTick ==
  /\ pc = "sleep" /\ ~DriverDue
  /\ late' = IF Waiting THEN late + 1 ELSE 0
  /\ asked' = [restart |-> FALSE, cycle |-> FALSE, display |-> Absent]
  /\ cycling' = IF asked.cycle /\ cycling = Absent THEN 0 ELSE cycling
  /\ LET d == asked.display
         new == d # Absent /\ (d.mode # desired \/ d.rescale)
     IN  /\ desired' = IF new THEN d.mode ELSE desired
         /\ mode_ok' = (mode_ok /\ ~new)
         /\ restart_server_requested' =
              (restart_server_requested \/ asked.restart \/ new)
         /\ disp' = [disp EXCEPT !.scaled = @ /\ ~(new /\ d.rescale)]
  /\ \/ pc' = (IF cycling' = Absent THEN "creator" ELSE "cycle") /\ UNCHANGED faults
     \/ pc' = "sleep" /\ Fault
  /\ UNCHANGED <<creator, server, last_device_id, pool, server_generation,
                 pool_fault_ticks, creatorProc, srv, dev, gen, lastGen>>

(* What killing the creator does to the world at once: the device is left  *)
(* without an owner and goes later.                                        *)
CreatorKilled ==
  /\ creatorProc' = "none"
  /\ dev' = [dev EXCEPT !.owned = FALSE]

(* One pass, never a loop: after the deadline bring-up goes on regardless. *)
CycleOver(waited) == waited + 1 >= CYCLE_DEADLINE_TICKS

(* A pass of a device cycle: tear down, and wait for the device to go.     *)
CyclePass ==
  /\ pc = "cycle" /\ pc' = "sleep"
  /\ srv' = NoServer
  /\ CreatorKilled
  /\ pool' = gen
  /\ IF ~dev.up
       THEN /\ cycling' = Absent /\ last_device_id' = Absent
            /\ server_generation' = Absent /\ pool_fault_ticks' = 0
       ELSE /\ UNCHANGED <<last_device_id, server_generation>>
            /\ IF CycleOver(cycling)
                 THEN cycling' = Absent /\ pool_fault_ticks' = 0
                 ELSE cycling' = cycling + 1 /\ UNCHANGED pool_fault_ticks
  /\ UNCHANGED <<asked, creator, server, desired, mode_ok, restart_server_requested,
                 disp, gen, lastGen, late, faults>>

CreatorStage ==
  /\ pc = "creator" /\ pc' = "display"
  /\ \E spawnOk \in BOOLEAN :
       /\ creator' = Ticked(creator, creatorProc, spawnOk)
       /\ IF Spawns(creator, creatorProc)
            THEN /\ creatorProc' = IF spawnOk THEN "running" ELSE "none"
                 /\ IF spawnOk THEN UNCHANGED faults ELSE Fault
            ELSE /\ spawnOk
                 /\ creatorProc' = Reaped(creatorProc) /\ UNCHANGED faults
  /\ UNCHANGED <<asked, server, desired, last_device_id, mode_ok,
                 restart_server_requested, pool, server_generation, pool_fault_ticks,
                 cycling, srv, dev, disp, gen, lastGen, late>>

\* Mutant: a device that blinked away and back is taken for the same.
BugReplaced(id) == last_device_id # Absent /\ id # Absent /\ last_device_id # id

(* The device's identity against the one last seen.                        *)
Replaced(id) ==
  \/ last_device_id # Absent /\ id # Absent /\ last_device_id # id
  \/ last_device_id = Absent /\ id # Absent /\ server.ever

\* Mutant: a corrected display does not concern a running server.
BugOutdated(corrected) == FALSE

(* A running server has cached the display's origin and geometry.          *)
Outdated(corrected) == corrected /\ server.running

Landed(d) == d.mode = desired /\ d.placed

(* set_display_mode: it succeeds, and the driver may rebuild its pool for  *)
(* a new mode; or it fails, at worst with the mode changed and the display *)
(* not placed.                                                             *)
SetDisplayMode(corrected) ==
  \/ /\ corrected /\ UNCHANGED faults
     /\ disp' = [disp EXCEPT !.mode = desired, !.placed = TRUE]
     /\ gen' \in IF disp.mode = desired THEN {gen} ELSE {gen, 0}
  \/ /\ ~corrected /\ Fault /\ UNCHANGED gen
     /\ disp' \in {disp, [disp EXCEPT !.mode = desired, !.placed = FALSE]}

DisplayStage ==
  /\ pc = "display" /\ pc' = "pool"
  /\ LET id == IF dev.up THEN dev.id ELSE Absent
     IN  /\ last_device_id' = id
         /\ \E corrected \in BOOLEAN :
              /\ IF dev.up /\ ~Landed(disp)
                   THEN SetDisplayMode(corrected)
                   ELSE ~corrected /\ UNCHANGED <<disp, gen, faults>>
              /\ restart_server_requested' =
                   \/ restart_server_requested
                   \/ Replaced(id)
                   \/ Outdated(corrected)
         /\ mode_ok' = (dev.up /\ Landed(disp') /\ disp'.scaled)
  /\ UNCHANGED <<asked, creator, server, desired, pool, server_generation,
                 pool_fault_ticks, cycling, creatorProc, srv, dev, lastGen,
                 late>>

(* pool_remedy: what reading r calls for.                                  *)
Remedy(r) ==
  CASE r = Absent -> "None"
    [] r = 0 -> IF creator.running THEN "RestartCreator" ELSE "None"
    [] r \in 1..Generations ->
         IF server_generation \notin {Absent, r} /\ server.running
           THEN "RestartServer" ELSE "None"

(* The pool is sampled, and a fault that has lasted is acted on.           *)
PoolStage ==
  /\ pc = "pool" /\ pc' = "server"
  /\ \E r \in {gen, Absent} :
       /\ pool' = r
       /\ IF r = Absent THEN Fault ELSE UNCHANGED faults
       /\ LET remedy == Remedy(r)
              ticks == IF remedy = "None" THEN 0 ELSE pool_fault_ticks + 1
              act == ticks >= POOL_FAULT_TICKS
          IN  /\ pool_fault_ticks' = IF act THEN 0 ELSE ticks
              /\ restart_server_requested' =
                   (restart_server_requested \/ (act /\ remedy = "RestartServer"))
              /\ IF act /\ remedy = "RestartCreator"
                   THEN CreatorKilled
                   ELSE UNCHANGED <<creatorProc, dev>>
  /\ UNCHANGED <<asked, creator, server, desired, last_device_id, mode_ok,
                 server_generation, cycling, srv, disp, gen, lastGen, late>>

(* A requested restart kills the server; the poll then finds none and,     *)
(* with the display as wanted, a new one is spawned at once.  Its bitrate  *)
(* is that of the mode the display is in by then.                          *)
ServerStage ==
  /\ pc = "server" /\ pc' = "sleep"
  /\ restart_server_requested' = FALSE
  /\ LET poll == IF restart_server_requested THEN "none" ELSE srv.proc
         left == IF poll = "running" THEN srv ELSE NoServer
     IN  IF ~mode_ok /\ poll = "none"
           THEN /\ srv' = left
                /\ UNCHANGED <<server, server_generation, faults>>
           ELSE \E spawnOk \in BOOLEAN :
                  /\ server' = Ticked(server, poll, spawnOk)
                  /\ IF Spawns(server, poll)
                       THEN /\ spawnOk => dev.up
                            /\ IF spawnOk \/ ~dev.up THEN UNCHANGED faults ELSE Fault
                            /\ srv' = IF spawnOk
                                        THEN [NoServer EXCEPT !.proc = "running",
                                                              !.born = disp.mode]
                                        ELSE left
                            /\ server_generation' =
                                 IF ~spawnOk THEN server_generation
                                 ELSE IF pool \in {0, Absent} THEN Absent ELSE pool
                       ELSE /\ spawnOk /\ srv' = left
                            /\ UNCHANGED <<server_generation, faults>>
  /\ UNCHANGED <<asked, creator, desired, last_device_id, mode_ok, pool,
                 pool_fault_ticks, cycling, creatorProc, dev, disp, gen,
                 lastGen, late>>

-----------------------------------------------------------------------------
(* Windows, the driver and the children.                                   *)

(* What a server is left with when its device goes.                        *)
Orphaned == [srv EXCEPT !.attach = IF @ = "live" THEN "dead" ELSE @]

DeviceGone ==
  /\ dev' = [dev EXCEPT !.up = FALSE, !.owned = FALSE]
  /\ gen' = 0
  /\ srv' = Orphaned

(* The device of a creator that is gone.                                   *)
DeviceLeaves ==
  /\ dev.up /\ ~dev.owned
  /\ DeviceGone
  /\ UNCHANGED <<pc, asked, agentVars, creatorProc, disp, lastGen, late, faults>>

(* The driver restarts under a creator that lives.                         *)
DeviceBlinks ==
  /\ Fault
  /\ dev.up /\ dev.owned
  /\ DeviceGone
  /\ UNCHANGED <<pc, asked, agentVars, creatorProc, disp, lastGen, late>>

(* The name of a device changes when it is created again.                  *)
NewIdentity == CHOOSE id \in 1..Identities : id \notin {dev.id, last_device_id}

(* Its display comes up in its default mode or as Windows remembers it,    *)
(* and its driver may count pools from one again.                          *)
DeviceArrives ==
  /\ creatorProc = "running" /\ ~dev.up
  /\ dev' = [id |-> NewIdentity, up |-> TRUE, owned |-> TRUE]
  /\ disp' \in {[mode |-> DefaultMode, placed |-> FALSE, scaled |-> FALSE],
               [disp EXCEPT !.scaled = FALSE]}
  /\ lastGen' \in {0, lastGen}
  /\ UNCHANGED <<pc, asked, agentVars, creatorProc, srv, gen, late, faults>>

PoolBuilt ==
  /\ dev.up /\ dev.owned /\ gen = 0
  /\ gen' = (lastGen % Generations) + 1 /\ lastGen' = gen'
  /\ UNCHANGED <<pc, asked, agentVars, creatorProc, srv, dev, disp, late, faults>>

(* A new swap chain: the old pool is torn down.                            *)
PoolTornDown ==
  /\ Fault
  /\ gen > 0 /\ gen' = 0
  /\ UNCHANGED <<pc, asked, agentVars, creatorProc, srv, dev, disp, lastGen, late>>

(* Windows moves the display or another program sets its mode.             *)
DisplayDrifts ==
  /\ Fault
  /\ dev.up
  /\ \/ \E m \in (Modes \cup {DefaultMode}) \ {desired, disp.mode} :
          disp' = [disp EXCEPT !.mode = m]
     \/ disp.placed /\ disp' = [disp EXCEPT !.placed = FALSE]
  /\ UNCHANGED <<pc, asked, agentVars, creatorProc, srv, dev, gen, lastGen, late>>

ScaleSettles ==
  /\ dev.up /\ ~disp.scaled
  /\ disp' = [disp EXCEPT !.scaled = TRUE]
  /\ UNCHANGED <<pc, asked, agentVars, creatorProc, srv, dev, gen, lastGen, late, faults>>

ServerAttaches ==
  /\ srv.proc = "running" /\ srv.attach = "waiting" /\ gen > 0
  /\ srv' = [srv EXCEPT !.attach = "live"]
  /\ UNCHANGED <<pc, asked, agentVars, creatorProc, dev, disp, gen, lastGen, late, faults>>

ChildDies ==
  /\ Fault
  /\ \/ /\ creatorProc = "running" /\ creatorProc' = "exited"
        /\ dev' = [dev EXCEPT !.owned = FALSE]
        /\ UNCHANGED srv
     \/ /\ srv.proc = "running" /\ srv' = [NoServer EXCEPT !.proc = "exited"]
        /\ UNCHANGED <<creatorProc, dev>>
  /\ UNCHANGED <<pc, asked, agentVars, disp, gen, lastGen, late>>

-----------------------------------------------------------------------------
Tick == BeginTick \/ CyclePass \/ CreatorStage \/ DisplayStage \/ PoolStage \/ ServerStage

World ==
  \/ DeviceLeaves \/ DeviceBlinks \/ DeviceArrives \/ PoolBuilt \/ PoolTornDown
  \/ DisplayDrifts \/ ScaleSettles \/ ServerAttaches \/ ChildDies

AgentNext == ControlRequest \/ Tick \/ World

AgentSpec == AgentInit /\ [][AgentNext]_allVars

(* The runner ticks for ever; a driver and a server that can proceed do.   *)
AgentFairness ==
  /\ WF_allVars(Tick)
  /\ WF_allVars(DeviceLeaves) /\ WF_allVars(DeviceArrives) /\ WF_allVars(PoolBuilt)
  /\ WF_allVars(ScaleSettles) /\ WF_allVars(ServerAttaches)

FairAgentSpec == AgentSpec /\ AgentFairness

-----------------------------------------------------------------------------
Supervised ==
  [running : BOOLEAN, ever : BOOLEAN, cooldown : 0..MAX_BACKOFF_TICKS,
   next : 1..MAX_BACKOFF_TICKS, healthy : 0..HEALTHY_RESET_TICKS]

AgentTypeOK ==
  /\ pc \in {"sleep", "cycle", "creator", "display", "pool", "server"}
  /\ asked \in [restart : BOOLEAN, cycle : BOOLEAN,
               display : [mode : Modes, rescale : BOOLEAN] \cup {Absent}]
  /\ creator \in Supervised /\ server \in Supervised
  /\ desired \in Modes
  /\ last_device_id \in (1..Identities) \cup {Absent}
  /\ mode_ok \in BOOLEAN /\ restart_server_requested \in BOOLEAN
  /\ pool \in (0..Generations) \cup {Absent}
  /\ server_generation \in (1..Generations) \cup {Absent}
  /\ pool_fault_ticks \in 0..(POOL_FAULT_TICKS - 1)
  /\ cycling \in (0..(CYCLE_DEADLINE_TICKS - 1)) \cup {Absent}
  /\ creatorProc \in {"none", "running", "exited"}
  /\ srv \in [proc : {"none", "running", "exited"}, attach : {"waiting", "live", "dead"},
              born : Modes \cup {DefaultMode, Absent}]
  /\ dev \in [id : 1..Identities, up : BOOLEAN, owned : BOOLEAN]
  /\ disp \in [mode : Modes \cup {DefaultMode}, placed : BOOLEAN, scaled : BOOLEAN]
  /\ gen \in 0..Generations /\ lastGen \in 0..Generations

(* What the agent will act on at the latest when it next looks at the       *)
(* display: a restart it has noted, a device that is away, or another one. *)
DeviceSuspect ==
  restart_server_requested \/ ~dev.up \/ last_device_id # dev.id

(* A server is built for the mode its display was in.  One built for a     *)
(* mode other than the wanted one runs only while something that will      *)
(* replace it is still to be seen: a noted restart, a device that left or  *)
(* was replaced, or a display that has yet to be put right.                *)
ServerFitsRequest ==
  srv.proc = "running" /\ srv.born # desired => DeviceSuspect \/ ~Landed(disp)

(* A server attached to a device that is gone captures nothing, without an *)
(* error, for ever.  However creator, device and server died and came back *)
(* between the readings of a tick, the agent has yet to notice the device. *)
OrphanReplaced ==
  srv.proc = "running" /\ srv.attach = "dead" => DeviceSuspect

(* A child that runs is one the agent takes for running and started: no    *)
(* process escapes supervision, whatever polls, kills and spawns meet.     *)
ChildrenKnown ==
  /\ srv.proc = "running" => server.running /\ server.ever
  /\ creatorProc = "running" => creator.running /\ creator.ever

(* In a well-formed state of the agent, a server fits the mode asked for   *)
(* and the device it captures, or is about to be replaced.                 *)
ReconcilerInv ==
  /\ AgentTypeOK
  /\ ServerFitsRequest
  /\ OrphanReplaced
  /\ ChildrenKnown

(* The whole stack is up, with a server that captures the display wanted.  *)
Green ==
  /\ creatorProc = "running"
  /\ dev.up /\ gen > 0
  /\ disp = [mode |-> desired, placed |-> TRUE, scaled |-> TRUE]
  /\ srv = [proc |-> "running", attach |-> "live", born |-> desired]

(* No fatal states: whatever happened, once nothing more goes wrong the    *)
(* stack comes up and stays up.  It does if the driver publishes before    *)
(* the first tick after its creator started; it does not if it takes some  *)
(* ticks longer, for the agent kills the creator that is bringing it up.   *)
StackComesUp == <>[]Green

=============================================================================
