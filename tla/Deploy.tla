-------------------------------- MODULE Deploy --------------------------------
(***************************************************************************)
(* `mdrdp deploy` (src/deploy.rs) against one host: probe, decide, a flat  *)
(* list of actions over ssh, verify; repeated by the operator until it     *)
(* succeeds.  The connection may break before, during and after every      *)
(* action, a copy may be cut short without saying so, and the host may     *)
(* reboot or lose its agent.  The commands run on the host are those of    *)
(* rhydra-agent (bin/agent.rs) and its service (win/service.rs).           *)
(*                                                                         *)
(* The release deployed is New; Old is an earlier one, and Flat the layout *)
(* of before the service, whose uninstall does not know it.  The creator   *)
(* is copied like the server, the inf like the driver.                     *)
(***************************************************************************)
EXTENDS Naturals, Sequences

CONSTANTS
  Displays,   \* display policies a client may select
  Default,    \* no policy was ever selected
  MaxBreaks,  \* bound: broken connections, cut copies, deaths and reboots, together
  TornAgent,  \* TRUE: a copy of the agent's executable, too, may be cut short
  Hosts       \* what may be installed at the start: "nothing", "old", "flat", "same"

ASSUME DeployAssumption ==
  /\ Default \notin Displays /\ MaxBreaks \in Nat /\ TornAgent \in BOOLEAN
  /\ Hosts \subseteq {"nothing", "old", "flat", "same"}

Old == "old"
New == "new"
Flat == "flat"
Layouts == {Flat, New, Old}
Files == <<"agent", "server", "driver">>
File == {Files[i] : i \in DOMAIN Files}
Policies == Displays \cup {Default}
None == [version |-> "none"]

VARIABLES
  files,    \* files[v][f]: "none", "torn", "stale" (an earlier build), "right"
  made,     \* directories that exist
  service,  \* the registered service: version, display, and whether it runs
  worker,   \* the agent in the console session
  ships,    \* the driver version New carries: 1, Old's, or 2
  staged,   \* driver versions in the driver store
  bound,    \* the version the live display device is bound to
  cable,    \* VB-CABLE: "none", "reboot", "broken" (set up, no endpoints), "active"
  formats,  \* configure-audio's marker
  source,   \* directories whose audio-source says loopback
  plan,     \* what the run under way has still to do
  running,  \* a run is under way
  expected, \* the display policy it read
  success,  \* a run ended well
  wish,     \* history: the policy in force on the host
  lost,     \* history: a run ended between uninstall and install
  breaks

hostVars == <<files, made, service, worker, staged, bound, cable, formats, source>>
runVars == <<plan, running, expected, success>>
history == <<wish, lost, breaks>>
vars == <<hostVars, ships, runVars, history>>

TypeOK ==
  /\ files \in [Layouts -> [File -> {"none", "torn", "stale", "right"}]]
  /\ made \subseteq Layouts /\ source \subseteq made
  /\ service = None \/ service \in [version : Layouts, display : Policies, runs : BOOLEAN]
  /\ worker = None \/ worker \in [version : Layouts, display : Policies, green : BOOLEAN]
  /\ ships \in 1 .. 2 /\ staged \subseteq 1 .. 2 /\ bound \in 0 .. 2
  /\ cable \in {"none", "reboot", "broken", "active"}
  /\ formats \in BOOLEAN /\ running \in BOOLEAN /\ success \in BOOLEAN /\ lost \in BOOLEAN
  /\ expected \in Policies /\ wish \in Policies /\ breaks \in 0 .. MaxBreaks
  /\ running <=> plan # <<>>

Holds(content) == [f \in File |-> content]

(* A host is fresh, or runs an earlier release, or an earlier build of     *)
(* this one; a flat layout lies beside an earlier release.                 *)
Init ==
  /\ \E kind \in Hosts, d \in Policies :
       LET v == IF kind = "same" THEN New ELSE Old
       IN  /\ files = [l \in Layouts |->
                         CASE kind = "nothing" -> Holds("none")
                           [] kind # "nothing" /\ l = v ->
                                Holds(IF v = New THEN "stale" ELSE "right")
                           [] kind = "flat" /\ l = Flat -> Holds("right")
                           [] OTHER -> Holds("none")]
           /\ made = {l \in Layouts : files[l] # Holds("none")}
           /\ wish = IF kind = "nothing" THEN Default ELSE d
           /\ service = IF kind = "nothing" THEN None
                        ELSE [version |-> v, display |-> d, runs |-> TRUE]
           /\ staged = IF kind = "nothing" THEN {} ELSE {1}
           /\ source = IF kind = "nothing" THEN {} ELSE {v}
           /\ cable \in IF kind = "nothing" THEN {"none"} ELSE {"none", "active"}
           /\ formats = (kind # "nothing")
  /\ worker = None /\ bound = 0 /\ ships \in 1 .. 2
  /\ plan = <<>> /\ running = FALSE /\ expected = Default /\ success = FALSE
  /\ lost = FALSE /\ breaks = 0

Runs(v) == files[v]["agent"] \in {"stale", "right"}

-----------------------------------------------------------------------------
(* The evidence of probe.ps1 and the decision.                             *)

\* The executables of C:\mdrdp, and the one the probe lists first.
AgentExes == {v \in Layouts : files[v]["agent"] # "none"}
FirstExe == IF Flat \in AgentExes THEN Flat ELSE IF New \in AgentExes THEN New ELSE Old

\* Mutant: only an agent that answers is asked.
BugEffectiveDisplay == IF worker # None THEN worker.display ELSE Default

EffectiveDisplay ==
  IF worker # None /\ worker.display # Default THEN worker.display
  ELSE IF service # None THEN service.display ELSE Default

AudioHealthy == formats /\ worker # None /\ New \in source

DriverCurrent == IF bound # 0 THEN bound = ships ELSE ships \in staged

\* Mutant: sizes are not compared.
BugExactStack ==
  /\ New \in made /\ DriverCurrent
  /\ worker # None /\ worker.version = New /\ worker.green

ExactStack ==
  /\ New \in made /\ DriverCurrent
  /\ \A f \in File : files[New][f] = "right"
  /\ worker # None /\ worker.version = New /\ worker.green

Act(what) == <<[do |-> what]>>

\* Mutant: the first executable found stands in for the installed service.
BugExecutable == FirstExe

Executable == IF service # None THEN service.version ELSE FirstExe

Quiesce ==
  IF service = None /\ AgentExes = {} THEN <<>>
  ELSE <<[do |-> "uninstall", version |-> Executable]>> \o Act("quiesced")

\* Mutant: always copy first.
BugQuiesceFirst == FALSE

QuiesceFirst == New \in made

Verify == Act("verify") \o Act("driver status") \o Act("record")

Cable == IF cable = "none" THEN Act("cable") ELSE <<>>

Copies == [i \in DOMAIN Files |-> [do |-> "copy", file |-> Files[i]]]

Full ==
  LET when(yes, acts) == IF yes THEN acts ELSE <<>>
  IN  Cable \o when(QuiesceFirst, Quiesce) \o Act("mkdir") \o Copies \o Act("sizes")
      \o when(~QuiesceFirst, Quiesce) \o when(~DriverCurrent, Act("driver"))
      \o <<[do |-> "install", display |-> EffectiveDisplay]>> \o Act("audio") \o Verify

Decision ==
  IF ~ExactStack THEN Full
  ELSE IF cable = "active" /\ AudioHealthy THEN Verify
  ELSE Cable \o Act("audio") \o Verify

Refuses(force) ==
  \/ cable \in {"reboot", "broken"}
  \/ ~ExactStack /\ worker # None /\ worker.green /\ ~force

Start(force) ==
  /\ ~running /\ ~success /\ ~Refuses(force)
  /\ running' = TRUE /\ plan' = Decision /\ expected' = EffectiveDisplay
  /\ UNCHANGED <<hostVars, ships, success, history>>

-----------------------------------------------------------------------------
(* The actions.                                                            *)

Now(what) == running /\ Head(plan).do = what
Proceed == /\ plan' = Tail(plan) /\ running' = (Tail(plan) # <<>>)
           /\ UNCHANGED <<ships, expected, success, history>>

\* vbcable-install.ps1: endpoints appear, or only after a reboot, or not at all.
InstallCable ==
  /\ Now("cable") /\ cable' = "active" /\ Proceed
  /\ UNCHANGED <<files, made, service, worker, staged, bound, formats, source>>

Quiet == worker' = None /\ bound' = 0

\* rhydra-agent uninstall, by the executable of layout v.
Uninstalled(v) ==
  IF v = Flat THEN UNCHANGED <<service, worker, bound>>
  ELSE service' = None /\ Quiet

Uninstall ==
  /\ Now("uninstall") /\ Runs(Head(plan).version)
  /\ Uninstalled(Head(plan).version) /\ Proceed
  /\ UNCHANGED <<files, made, staged, cable, formats, source>>

\* quiesce.ps1
VerifyQuiescence ==
  /\ Now("quiesced") /\ service = None /\ worker = None /\ Proceed
  /\ UNCHANGED hostVars

MakeDirectory ==
  /\ Now("mkdir") /\ made' = made \cup {New} /\ Proceed
  /\ UNCHANGED <<files, service, worker, staged, bound, cable, formats, source>>

Held == worker # None /\ worker.version = New
Lands(f, content) == files' = [files EXCEPT ![New][f] = content]

Copy ==
  /\ Now("copy") /\ ~Held /\ Lands(Head(plan).file, "right") /\ Proceed
  /\ UNCHANGED <<made, service, worker, staged, bound, cable, formats, source>>

\* check_sizes
CheckSizes ==
  /\ Now("sizes") /\ \A f \in File : files[New][f] = "right"
  /\ Proceed /\ UNCHANGED hostVars

\* driver-install.ps1
InstallDriver ==
  /\ Now("driver") /\ files[New]["driver"] = "right"
  /\ staged' = staged \cup {ships} /\ Proceed
  /\ UNCHANGED <<files, made, service, worker, bound, cable, formats, source>>

\* rhydra-agent install
Installed(d, runs) == service' = [version |-> New, display |-> d, runs |-> runs] /\ Quiet

InstallAgent ==
  /\ Now("install") /\ Runs(New) /\ Installed(Head(plan).display, TRUE) /\ Proceed
  /\ UNCHANGED <<files, made, staged, cable, formats, source>>

\* rhydra-agent configure-audio, which waits for the agent to answer.
ConfigureAudio ==
  /\ Now("audio") /\ worker # None /\ cable = "active"
  /\ formats' = TRUE /\ source' = source \cup {New} /\ Proceed
  /\ UNCHANGED <<files, made, service, worker, staged, bound, cable>>

\* status --wait 30, verify_status
VerifyStatus ==
  /\ Now("verify") /\ worker # None /\ worker.green
  /\ worker.version = New /\ (expected = Default \/ worker.display = expected)
  /\ Proceed /\ UNCHANGED hostVars

\* require_active_driver_wait
VerifyDriver == Now("driver status") /\ bound = ships /\ Proceed /\ UNCHANGED hostVars

Record ==
  /\ Now("record") /\ success' = TRUE /\ plan' = <<>> /\ running' = FALSE
  /\ UNCHANGED <<hostVars, ships, expected, history>>

\* Between runs the policy in force is the agent's, or else the service's.
WishAfter ==
  wish' = CASE service' = None -> wish [] worker' # None -> worker'.display
            [] OTHER -> service'.display

\* A run that ends any other way.
Stops == /\ plan' = <<>> /\ running' = FALSE
         /\ lost' = (lost \/ service' = None)
         /\ WishAfter /\ UNCHANGED <<ships, expected, success>>

\* The agent the service starts, or has started, will be green in time.
Coming == service # None /\ service.runs /\ Runs(service.version)
          /\ files[service.version]["server"] # "torn" /\ staged # {}

\* The step cannot be done, and waiting would not help: the run stops.
Fails ==
  /\ running
  /\ LET a == Head(plan)
     IN CASE a.do = "uninstall" -> ~Runs(a.version)
          [] a.do = "quiesced" -> service # None \/ worker # None
          [] a.do = "copy" -> Held
          [] a.do = "sizes" -> \E f \in File : files[New][f] # "right"
          [] a.do = "install" -> ~Runs(New)
          [] a.do = "driver" -> files[New]["driver"] # "right"
          [] a.do = "audio" -> cable # "active" \/ (worker = None /\ ~Coming)
          [] a.do = "verify" ->
               IF worker # None /\ worker.green
               THEN worker.version # New \/ (expected # Default /\ worker.display # expected)
               ELSE ~Coming
          [] a.do = "driver status" -> IF bound # 0 THEN bound # ships ELSE ~Coming
          [] OTHER -> FALSE
  /\ UNCHANGED <<hostVars, breaks>> /\ Stops

Step ==
  \/ InstallCable \/ Uninstall \/ VerifyQuiescence \/ MakeDirectory \/ Copy \/ CheckSizes
  \/ InstallDriver \/ InstallAgent \/ ConfigureAudio \/ VerifyStatus \/ VerifyDriver
  \/ Record

-----------------------------------------------------------------------------
(* What goes wrong.                                                        *)

Counts == breaks < MaxBreaks /\ breaks' = breaks + 1

\* The connection breaks between two actions, or the action fails cleanly.
Break == running /\ Counts /\ UNCHANGED hostVars /\ Stops

MayTear(f) == f # "agent" \/ TornAgent

\* A copy is cut short, and scp says so or does not.
Cut(noticed) ==
  /\ Now("copy") /\ ~Held /\ MayTear(Head(plan).file) /\ Counts
  /\ Lands(Head(plan).file, "torn")
  /\ UNCHANGED <<made, service, worker, staged, bound, cable, formats, source>>
  /\ IF noticed THEN Stops
     ELSE plan' = Tail(plan) /\ UNCHANGED <<running, ships, expected, success, wish, lost>>

\* Half an uninstall, half an install: the service is stopped, but registered.
HalfUninstall ==
  /\ Now("uninstall") /\ Runs(Head(plan).version) /\ Head(plan).version # Flat
  /\ service # None /\ Counts
  /\ service' = [service EXCEPT !.runs = FALSE] /\ Quiet /\ Stops
  /\ UNCHANGED <<files, made, staged, cable, formats, source>>

HalfInstall ==
  /\ Now("install") /\ Runs(New) /\ Counts
  /\ Installed(Head(plan).display, FALSE) /\ Stops
  /\ UNCHANGED <<files, made, staged, cable, formats, source>>

CableFails ==
  /\ Now("cable") /\ Counts /\ cable' \in {"reboot", "broken"}
  /\ UNCHANGED <<files, made, service, worker, staged, bound, formats, source>>
  /\ Stops

\* The host reboots: by itself, or because deploy asked for it.
Reboot ==
  /\ IF cable = "reboot" /\ ~running THEN UNCHANGED breaks ELSE Counts
  /\ Quiet /\ cable' = IF cable = "reboot" THEN "active" ELSE cable
  /\ service' = IF service = None THEN None ELSE [service EXCEPT !.runs = TRUE]
  /\ plan' = <<>> /\ running' = FALSE /\ lost' = (lost \/ (running /\ service = None))
  /\ WishAfter /\ UNCHANGED <<files, made, staged, formats, source, ships, expected, success>>

WorkerDies ==
  /\ worker # None /\ Counts /\ Quiet /\ UNCHANGED service
  /\ IF running THEN UNCHANGED wish ELSE WishAfter
  /\ UNCHANGED <<files, made, staged, cable, formats, source, ships, runVars, lost>>

-----------------------------------------------------------------------------
(* The host and its client.                                                *)

\* The service's supervise: a worker in the console session.
Launch ==
  /\ service # None /\ service.runs /\ worker = None /\ Runs(service.version)
  /\ worker' = [version |-> service.version, display |-> service.display, green |-> FALSE]
  /\ UNCHANGED <<files, made, service, staged, bound, cable, formats, source, ships, runVars,
                 history>>

\* The agent brings its stack up; the device takes the newest staged driver.
ComesUp ==
  /\ worker # None /\ ~worker.green /\ staged # {}
  /\ files[worker.version]["server"] \in {"stale", "right"}
  /\ worker' = [worker EXCEPT !.green = TRUE]
  /\ bound' = IF 2 \in staged THEN 2 ELSE 1
  /\ UNCHANGED <<files, made, service, staged, cable, formats, source, ships, runVars, history>>

\* A client selects a display policy; clients stay away during a run.
Select(d) ==
  /\ ~running /\ worker # None /\ worker.green
  /\ worker' = [worker EXCEPT !.display = d] /\ wish' = d
  /\ UNCHANGED <<files, made, service, staged, bound, cable, formats, source, ships, runVars,
                 lost, breaks>>

Next ==
  \/ \E force \in BOOLEAN : Start(force)
  \/ Step \/ Fails \/ Break \/ HalfUninstall \/ HalfInstall \/ CableFails
  \/ \E noticed \in BOOLEAN : Cut(noticed)
  \/ Reboot \/ WorkerDies \/ Launch \/ ComesUp \/ \E d \in Displays : Select(d)

(* The operator runs the command again, in the end with --force, and       *)
(* reboots a host that asks for it; ssh returns; the service launches its  *)
(* worker within a second and the agent brings the stack up.               *)
Fairness ==
  /\ WF_vars(Start(TRUE)) /\ WF_vars(Step) /\ WF_vars(Fails)
  /\ WF_vars(cable = "reboot" /\ Reboot) /\ WF_vars(Launch) /\ WF_vars(ComesUp)

Spec == Init /\ [][Next]_vars /\ Fairness

-----------------------------------------------------------------------------
(* No file is copied over an image the running agent holds open, whatever  *)
(* runs broke off before and wherever the host came back up.               *)
NeverOverRunning == running /\ Head(plan).do = "copy" => ~Held

(* The deployment's safety: a well-formed state, and no open image under a *)
(* copy.                                                                   *)
DeployInv ==
  /\ TypeOK
  /\ NeverOverRunning

HostRuns ==
  /\ worker # None => worker.version = New
  /\ service.version = New /\ \A f \in File : files[New][f] = "right"
  /\ bound \in {0, ships} /\ ships \in staged /\ New \in source /\ formats

(* A run that reports success, by whichever of the three branches and      *)
(* after whatever earlier runs left behind, has the whole release in       *)
(* place: files, service, driver and audio.                                *)
SuccessIsReal == [][success' /\ ~success => HostRuns]_vars

(* The service is registered with the display policy in force on the host, *)
(* also over an agent that is down or after a run that broke off, provided *)
(* no run ended while no service was registered.                           *)
DisplayKept ==
  [][service' # None /\ service' # service =>
       lost \/ service'.display = wish \/ service = [service' EXCEPT !.runs = ~@]]_vars

(* Whatever broke, running the command again ends well: "push the rhydra   *)
(* host stack over SSH, idempotently" (deploy.rs:1).  The audio set-up may *)
(* end for good, which deploy reports.                                     *)
Converges == <>(success \/ cable = "broken")
===============================================================================
