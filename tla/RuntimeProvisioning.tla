-------------------------- MODULE RuntimeProvisioning --------------------------
(***************************************************************************)
(* The runtime that scores a round: the deployment record, the Modal app   *)
(* and the local SGLang container behind it (deployment.py,                *)
(* modal_deployer.py, local_runtime.py), the check of a round's manifest   *)
(* against the record (manifest.py), and who decides to deploy: the        *)
(* participate pass and warm-runtime, which provision Modal by themselves, *)
(* and the operator's deploy-modal, start-sglang and score commands.  None *)
(* of these takes a lock while it looks at the record or deploys.          *)
(*                                                                         *)
(* A manifest pins a value for every runtime field and may have defects:   *)
(* fields that fail whatever the record says.  A record is what the gate   *)
(* reads of deployment_record.json.                                        *)
(***************************************************************************)
EXTENDS Integers, Sequences

CONSTANTS
    Proc,         \* the commands that may run at a time
    Loops,        \* those that are participate passes and warm-ups,
    Operators,    \* those that are the operator's
    Manifests,    \* the execution manifests a round may come with
    Values,       \* of the pinned runtime fields
    None,         \* no record, no runtime, no score
    HostGPU,      \* the GPU class detect_gpu finds
    Credentials,  \* whether the Modal account credentials are set
    MaxRounds,    \* bound: rounds
    MaxEdits,     \* bound: records the operator writes
    MaxFaults     \* bound: failed deployments and generations, kills, exits

RuntimeFields == {"served_name", "revision", "image", "tensor_parallelism", "gpu",
                  "launch_args", "workspace"}

\* extract_runtime_spec refuses a manifest with one of these.
SpecRequirements ==
    {"model.provider", "model.repo_id", "model.served_name", "model.revision",
     "runtime.kind", "runtime.hosting", "runtime.image", "runtime.gpu",
     "runtime.tensor_parallelism", "runtime.launch_args", "runtime.launch_command",
     "runtime.environment"}

\* check_compatibility fails on one of these: _check_round, _check_model,
\* _check_runtime,
RoundRequirements == {"round.network", "round.inference_performed", "round.round_number"}
ModelRequirements == {"model.provider", "model.revision", "model.repo_id", "model.served_name"}
RuntimeRequirements == {"runtime.kind", "runtime.image", "runtime.launch_args"}
\* _check_request,
RequestRequirements ==
    {"request.type", "request.method", "request.model", "request.temperature",
     "request.response_format", "request.max_tokens", "request.extra_body"}
\* _check_code (a formula section may be absent, not unsupported),
CodeRequirements ==
    {"code.repository", "code.commit", "code.parser", "code.selector",
     "code.score_formula", "code.diversity_formula"}
\* and _check_canonicalization.
CanonicalRequirements ==
    {"canonicalization.hash_algorithm", "canonicalization.text_encoding",
     "canonicalization.sort_keys", "canonicalization.separators"}

GateRequirements == RoundRequirements \cup ModelRequirements \cup RuntimeRequirements
                    \cup RequestRequirements \cup CodeRequirements \cup CanonicalRequirements

Pins == [RuntimeFields -> Values]
Kinds == {"normal", "override", "dry_run", "unknown"}
Modes == {"modal", "local"}
Records == [mode : Modes, pin : Pins]
Verdicts == {"none", "skipped", "failed", "scored"}

ManifestTypes ==
    [pin : Pins, kind : Kinds,
     defects : SUBSET (SpecRequirements \cup GateRequirements \cup {"schema_version"})]

ASSUME RuntimeAssumption ==
    /\ Loops \subseteq Proc
    /\ Operators \subseteq Proc
    /\ Manifests \subseteq ManifestTypes
    /\ None \notin Records \cup Pins
    /\ Credentials \in BOOLEAN
    /\ MaxRounds \in Nat
    /\ MaxEdits \in Nat
    /\ MaxFaults \in Nat

VARIABLES
    rounds,      \* the manifests of the rounds so far, the latest last
    record,      \* deployment_record.json
    modalApp,    \* the runtime the Modal app serves
    container,   \* the runtime the local container serves
    unrecorded,  \* modes whose runtime changed without the record following
    untouched,   \* commands since whose deployment, or look at the record,
                 \* no other has deployed
    verdict,     \* of each round: what record_score has stored
    scoredOn,    \* the runtime that produced the score
    last,        \* the automatic deployment that was recorded last: its round
                 \* and the number of the operator's records at that time
    edits,       \* records the operator's commands have written
    proc,        \* the commands
    faults

worldVars == <<record, modalApp, container, unrecorded>>
outcomeVars == <<verdict, scoredOn>>
vars == <<rounds, worldVars, untouched, outcomeVars, last, edits, proc, faults>>

PCs == {"idle", "resolve", "deploy", "launch", "write", "infer", "probe"}

Commands == [pc : PCs,
             cmd : {"participate", "warm", "score", "deploy", "start"},
             round : Nat,
             rec : Records \cup {None},
             edits : Nat]

Idle == [pc |-> "idle", cmd |-> "participate", round |-> 0, rec |-> None, edits |-> 0]

TypeOK == /\ rounds \in Seq(Manifests)
          /\ record \in Records \cup {None}
          /\ modalApp \in Pins \cup {None}
          /\ container \in Pins \cup {None}
          /\ unrecorded \in SUBSET Modes
          /\ untouched \in SUBSET Proc
          /\ verdict \in Seq(Verdicts) /\ Len(verdict) = Len(rounds)
          /\ scoredOn \in Seq(Pins \cup {None}) /\ Len(scoredOn) = Len(rounds)
          /\ last \in [round : Nat, edits : Nat]
          /\ edits \in Nat
          /\ proc \in [Proc -> Commands]
          /\ faults \in Nat

Init == /\ rounds = <<>>
        /\ record = None
        /\ modalApp = None
        /\ container = None
        /\ unrecorded = {}
        /\ untouched = {}
        /\ verdict = <<>>
        /\ scoredOn = <<>>
        /\ last = [round |-> 0, edits |-> 0]
        /\ edits = 0
        /\ proc = [p \in Proc |-> Idle]
        /\ faults = 0

-----------------------------------------------------------------------------
(* The gate.                                                               *)

\* The record build_deployment_record makes of a manifest's runtime.
Fresh(m, mode) == [mode |-> mode, pin |-> m.pin]

\* extract_runtime_spec.
Deployable(m) == m.defects \cap SpecRequirements = {}

\* Mutant: the model revision and the image are not compared.
ComparedButRevision == RuntimeFields \ {"revision", "image"}

\* The fields the gate compares; launch arguments without their order.
Compared == RuntimeFields

Differing(m, r) == {f \in Compared : m.pin[f] # r.pin[f]}

\* check_compatibility.
Check(m, r) ==
    IF "schema_version" \in m.defects THEN "failed"
    ELSE IF m.kind \in {"override", "dry_run"} THEN "skipped"
    ELSE IF m.kind # "normal" THEN "failed"
    ELSE IF m.defects \cap GateRequirements # {} \/ Differing(m, r) # {} THEN "failed"
    ELSE "passed"

Passes(m, r) == r # None /\ Check(m, r) = "passed"

\* Mutant: whether a new deployment would pass is not asked.
FreshPassesUnchecked(m) == Deployable(m)

\* _fresh_modal_compatibility: what a deployment made now would get.
FreshPasses(m) == Deployable(m) /\ Check(m, Fresh(m, "modal")) = "passed"

-----------------------------------------------------------------------------

At(p, pc) == proc[p].pc = pc
Goto(p, pc) == proc' = [proc EXCEPT ![p].pc = pc]
End(p) == proc' = [proc EXCEPT ![p] = Idle]
Fault == faults < MaxFaults /\ faults' = faults + 1

TheManifest(p) == rounds[proc[p].round]
ModeOf(p) == IF proc[p].cmd = "start" THEN "local" ELSE "modal"

\* modal_runtime_provisioner: only the loop's commands have one.
Provisions(p) == Credentials /\ proc[p].cmd \in {"participate", "warm"}

(* The commands.                                                           *)

Announce ==
    /\ Len(rounds) < MaxRounds
    /\ \E m \in Manifests :
          /\ rounds' = Append(rounds, m)
          /\ verdict' = Append(verdict, "none")
          /\ scoredOn' = Append(scoredOn, None)
    /\ UNCHANGED <<worldVars, untouched, last, edits, proc, faults>>

Begin(p, cmd, n, pc) ==
    /\ At(p, "idle")
    /\ n \in 1 .. Len(rounds)
    /\ proc' = [proc EXCEPT ![p] = [pc |-> pc, cmd |-> cmd, round |-> n, rec |-> None,
                                    edits |-> edits]]
    /\ UNCHANGED <<rounds, worldVars, untouched, outcomeVars, last, edits, faults>>

\* A pass of the loop, for the latest round unless it is scored.
BeginPass(p) ==
    /\ p \in Loops
    /\ Len(rounds) > 0 /\ verdict[Len(rounds)] # "scored"
    /\ Begin(p, "participate", Len(rounds), "resolve")

BeginWarm(p) ==
    /\ p \in Loops
    /\ Credentials
    /\ Begin(p, "warm", Len(rounds), "resolve")

\* score, for any round, without a provisioner.
BeginScore(p) ==
    /\ p \in Operators
    /\ \E n \in 1 .. Len(rounds) : verdict[n] # "scored" /\ Begin(p, "score", n, "resolve")

\* deploy-modal and start-sglang, from any round's manifest.
BeginDeploy(p) ==
    /\ p \in Operators
    /\ edits < MaxEdits
    /\ \E n \in 1 .. Len(rounds) : Deployable(rounds[n]) /\ Begin(p, "deploy", n, "deploy")

BeginStart(p) ==
    /\ p \in Operators
    /\ edits < MaxEdits
    /\ \E n \in 1 .. Len(rounds) :
          /\ Deployable(rounds[n])
          /\ rounds[n].pin["gpu"] = HostGPU
          /\ Begin(p, "start", n, "launch")

(* _resolve_runtime.                                                       *)

\* A score needs the record; a warm-up is over for a local one.
Use(p, r) ==
    IF proc[p].cmd = "warm" /\ r.mode = "local" THEN End(p)
    ELSE proc' = [proc EXCEPT ![p].pc = IF proc[p].cmd = "warm" THEN "probe" ELSE "infer",
                              ![p].rec = r]

\* record_score of a failed check of r; a warm-up probes what is recorded.
Conclude(p, r, outcome) ==
    IF proc[p].cmd = "warm"
    THEN UNCHANGED outcomeVars /\ IF r = None THEN End(p) ELSE Use(p, r)
    ELSE /\ End(p)
         /\ verdict' = [verdict EXCEPT ![proc[p].round] = outcome]
         /\ UNCHANGED scoredOn

\* Mutant: a record is never replaced.
ReplaceableWhenMissing(p) == record = None

\* Mutant: also a local record.
ReplaceableAlways(p) == TRUE

Replaceable(p) == record = None \/ record.mode = "modal"

\* The record p has read is the latest word on what its endpoint serves, unless
\* another command has deployed and not written its record yet.
LooksAt(p) == IF \E q \in Proc : At(q, "write") THEN untouched \ {p}
              ELSE untouched \cup {p}

\* The record is read once and decides.
Resolve(p) ==
    /\ At(p, "resolve")
    /\ LET m == TheManifest(p) IN
       IF Passes(m, record)
       THEN Use(p, record) /\ UNCHANGED outcomeVars
       ELSE IF Provisions(p) /\ Replaceable(p) /\ FreshPasses(m)
       THEN Goto(p, "deploy") /\ UNCHANGED outcomeVars
       ELSE IF record # None
       THEN Conclude(p, record, Check(m, record))
       ELSE IF Provisions(p) /\ Deployable(m)
       THEN Conclude(p, None, Check(m, Fresh(m, "modal")))
       ELSE End(p) /\ UNCHANGED outcomeVars                  \* DeploymentError
    /\ untouched' = LooksAt(p)
    /\ UNCHANGED <<rounds, worldVars, last, edits, faults>>

(* The deployments: the runtime first, its record afterwards.              *)

\* `modal deploy` replaces the app in place.  It may fail before or after
\* it has: a timeout, or no endpoint URL.
Deploy(p) ==
    /\ At(p, "deploy")
    /\ \/ /\ modalApp' = TheManifest(p).pin
          /\ Goto(p, "write")
          /\ untouched' = {p}
          /\ UNCHANGED <<unrecorded, faults>>
       \/ /\ Fault
          /\ End(p)
          /\ \/ UNCHANGED <<modalApp, unrecorded, untouched>>
             \/ /\ modalApp' = TheManifest(p).pin
                /\ unrecorded' = unrecorded \cup {"modal"}
                /\ untouched' = {}
    /\ UNCHANGED <<rounds, record, container, outcomeVars, last, edits>>

\* `docker run` fails while another container has the port, here the one port
\* that all launches use; the new one may not become healthy in time.
Launch(p) ==
    /\ At(p, "launch")
    /\ \/ /\ container = None
          /\ container' = TheManifest(p).pin
          /\ Goto(p, "write")
          /\ untouched' = {p}
          /\ UNCHANGED <<unrecorded, faults>>
       \/ container # None /\ End(p) /\ UNCHANGED <<container, unrecorded, untouched, faults>>
       \/ /\ Fault
          /\ container = None
          /\ container' = TheManifest(p).pin
          /\ unrecorded' = unrecorded \cup {"local"}
          /\ untouched' = {}
          /\ End(p)
    /\ UNCHANGED <<rounds, record, modalApp, outcomeVars, last, edits>>

\* _write_deployment_record.  A pass checks the record it has written and
\* goes on with it.
WriteRecord(p) ==
    /\ At(p, "write")
    /\ LET m == TheManifest(p)
           new == Fresh(m, ModeOf(p))
       IN
       \/ /\ record' = new
          /\ unrecorded' = IF p \in untouched THEN unrecorded \ {ModeOf(p)}
                            ELSE unrecorded \cup {ModeOf(p)}
          /\ IF Provisions(p)
             THEN /\ last' = [round |-> proc[p].round, edits |-> edits]
                  /\ UNCHANGED edits
                  /\ IF Passes(m, new)
                     THEN Use(p, new) /\ UNCHANGED outcomeVars
                     ELSE Conclude(p, new, Check(m, new))
             ELSE /\ edits' = edits + 1
                  /\ UNCHANGED <<last, outcomeVars>>
                  /\ End(p)
          /\ UNCHANGED faults
       \/ /\ Fault
          /\ unrecorded' = unrecorded \cup {ModeOf(p)}
          /\ End(p)
          /\ UNCHANGED <<record, outcomeVars, last, edits>>
    /\ UNCHANGED <<rounds, modalApp, container, untouched>>

(* After the decision.                                                     *)

\* The runtime behind a record of either mode.
Serving(mode) == IF mode = "modal" THEN modalApp ELSE container

\* The generation, on whatever answers at the record's endpoint.
Infer(p) ==
    /\ At(p, "infer")
    /\ \/ /\ Serving(proc[p].rec.mode) # None
          /\ verdict' = [verdict EXCEPT ![proc[p].round] = "scored"]
          /\ scoredOn' = [scoredOn EXCEPT ![proc[p].round] = Serving(proc[p].rec.mode)]
          /\ UNCHANGED faults
       \/ /\ Fault \/ (Serving(proc[p].rec.mode) = None /\ UNCHANGED faults)
          /\ verdict' = [verdict EXCEPT ![proc[p].round] = "failed"]
          /\ UNCHANGED scoredOn
    /\ End(p)
    /\ UNCHANGED <<rounds, worldVars, untouched, last, edits>>

\* The warm-up polls the endpoint until it answers or its time is over.
Probe(p) ==
    /\ At(p, "probe")
    /\ End(p)
    /\ UNCHANGED <<rounds, worldVars, untouched, outcomeVars, last, edits, faults>>

(* The environment.                                                        *)

\* The `modal deploy` of a killed command may still do its work.
Kill(p) ==
    /\ ~At(p, "idle")
    /\ Fault
    /\ End(p)
    /\ \/ ~At(p, "write") /\ UNCHANGED <<modalApp, unrecorded, untouched>>
       \/ /\ At(p, "write")
          /\ unrecorded' = unrecorded \cup {ModeOf(p)}
          /\ UNCHANGED <<modalApp, untouched>>
       \/ /\ At(p, "deploy")
          /\ modalApp' = TheManifest(p).pin
          /\ unrecorded' = unrecorded \cup {"modal"}
          /\ untouched' = {}
    /\ UNCHANGED <<rounds, record, container, outcomeVars, last, edits>>

ContainerExits ==
    /\ container # None
    /\ Fault
    /\ container' = None
    /\ UNCHANGED <<rounds, record, modalApp, unrecorded, untouched, outcomeVars, last, edits, proc>>

Step(p) == \/ Resolve(p) \/ Deploy(p) \/ Launch(p) \/ WriteRecord(p) \/ Infer(p) \/ Probe(p)

Next == \/ \E p \in Proc : \/ BeginPass(p) \/ BeginWarm(p)
                           \/ BeginScore(p) \/ BeginDeploy(p) \/ BeginStart(p)
                           \/ Step(p) \/ Kill(p)
        \/ Announce \/ ContainerExits

Spec == Init /\ [][Next]_vars

\* A command that runs goes on.  The loop starts one pass after another; a
\* warm-up comes once per start of the container, so it does not keep a pass
\* from starting for ever.
FairSpec == Spec /\ \A p \in Proc : WF_vars(Step(p)) /\ SF_vars(BeginPass(p))

-----------------------------------------------------------------------------
(* Properties.                                                             *)

\* The loop does not deploy again for a round that it has recorded a deployment
\* for, unless an operator's command has written a record since: no deploy loop
\* (Loops = {the loop}).  A deployment that fails, or whose record fails, is
\* repeated by the next pass, as often as it fails.
NoDeployLoop ==
    \A p \in Proc : Provisions(p) /\ proc[p].pc \in {"deploy", "write"} =>
        last.round < proc[p].round \/ last.edits < edits

\* The loop overwrites a local record only if the operator has written it
\* while the pass was running: a local record that is seen is left alone.
SeenLocalRecordIsKept ==
    [][\A p \in Proc : /\ At(p, "write") /\ Provisions(p)
                       /\ record # None /\ record' # record
                       => record.mode = "modal" \/ proc[p].edits < edits]_vars

\* A round is scored on the runtime its manifest pins, unless another command
\* has deployed since the pass looked at the record, or a deployment of that
\* mode that failed, was killed or was overtaken has left the record behind.
HonestComparison ==
    [][\A p \in untouched :
          At(p, "infer") /\ proc'[p] # proc[p] /\ scoredOn' # scoredOn
          => \/ scoredOn'[proc[p].round] = TheManifest(p).pin
             \/ proc[p].rec.mode \in unrecorded]_vars

\* A round a new Modal deployment can score is scored in the end, beside what
\* the operator does, unless that leaves a local record.
LocalRecord == record # None /\ record.mode = "local"
EventuallyScored ==
    <>[](rounds # <<>> => \/ verdict[Len(rounds)] = "scored"
                          \/ ~FreshPasses(rounds[Len(rounds)])
                          \/ LocalRecord)

-----------------------------------------------------------------------------
(* Why they hold.                                                          *)

\* A command has a round; only the loop's commands provision, and only what
\* will pass; a generation is asked for with a record that does.
CommandOK(p, c) ==
    c.pc # "idle" =>
        /\ c.round \in 1 .. Len(rounds)
        /\ c.edits <= edits
        /\ c.cmd \in {"participate", "warm"} => p \in Loops
        /\ c.pc \in {"deploy", "write"} /\ c.cmd \in {"participate", "warm"}
              => FreshPasses(rounds[c.round])
        /\ c.pc = "infer" => Passes(rounds[c.round], c.rec)
        /\ c.pc = "deploy" => c.cmd # "start"
        /\ c.pc = "launch" => c.cmd = "start"

CommandsOK == \A p \in Proc : CommandOK(p, proc[p])

\* The record is the loop's last one as long as the operator writes none.
LastOK == /\ last.edits <= edits
          /\ last.round <= Len(rounds)
          /\ last.round > 0 /\ last.edits = edits =>
                /\ FreshPasses(rounds[last.round])
                /\ record = Fresh(rounds[last.round], "modal")

\* A pass on its way to a deployment has seen no local record.
SeenLocal == \A p \in Proc : Provisions(p) /\ proc[p].pc \in {"deploy", "write"} =>
    record = None \/ record.mode = "modal" \/ proc[p].edits < edits

\* The loop's rounds only go forward (Loops = {the loop}).
LoopOrder == \A p \in Proc :
    proc[p].cmd \in {"participate", "warm"} /\ ~At(p, "idle") => last.round <= proc[p].round

\* What the endpoint of a mode serves; a local container may have exited.
Serves(mode, pin) == Serving(mode) = pin \/ (mode = "local" /\ container = None)

\* A deployment that nobody has overtaken serves its pin, so does a record that
\* no deployment has followed, and so does the record in a command's hand.
RecordTells ==
    /\ \A p \in untouched :
          /\ At(p, "write") => Serves(ModeOf(p), TheManifest(p).pin)
          /\ At(p, "infer") => \/ proc[p].rec.mode \in unrecorded
                               \/ Serves(proc[p].rec.mode, proc[p].rec.pin)
    /\ \/ record = None
       \/ record.mode \in unrecorded
       \/ \E p \in Proc : At(p, "write") /\ ModeOf(p) = record.mode
       \/ Serves(record.mode, record.pin)

\* While one command is between its deployment and its record, untouched, no
\* other has anything it could rely on.
OneUntouched ==
    \A p, q \in untouched : At(p, "write") /\ proc[q].pc \in {"write", "infer"} => p = q

IInv == /\ TypeOK /\ CommandsOK /\ LastOK /\ SeenLocal /\ OneUntouched /\ RecordTells
        /\ LoopOrder /\ NoDeployLoop
=============================================================================
