------------------------- MODULE AttestationService -------------------------
(***************************************************************************)
(* The local GPU attestation service: two listeners (HTTP and Unix socket) *)
(* in front of one verifier.  Every request is handled by a goroutine of   *)
(* its own; a mutex keeps the verifier processes apart.  A readiness probe *)
(* may end the process, and systemd may start it again.                    *)
(*                                                                         *)
(* Outside the service and modelled from its use: the clients, systemd and *)
(* the verifier (GpuAttestation), of which only the exit code, the success *)
(* message and the token in its output matter here.                        *)
(***************************************************************************)
EXTENDS Integers, FiniteSets

CONSTANTS
    Clients,        \* the clients, each with one request in flight at most
    None,           \* no client
    Via,            \* the listener each client uses
    Requests,       \* the requests to consider, a subset of RequestRecord
    Outcomes,       \* how a verifier run may end, a subset of OutcomeRecord
    MaxAttempts,    \* requests a client sends (bound)
    MaxProbes       \* maxRetries of waitForServerReady

VARIABLES
    phase,      \* the service process: "up", or how it exited
    listen,     \* per listener: "starting", "listening" or "failed"
    probes,     \* failed readiness probes, Ready once one succeeded
    pc,         \* per client: where its handler goroutine is
    request,    \* per client: the request being handled
    run,        \* per client: what cmd.Run() left: exit code and output
    holder,     \* who holds attestationMutex
    procs,      \* the clients for which a verifier process is alive
    expired,    \* the connections past their write deadline
    answer,     \* per client: the last response received
    attempts    \* per client: requests sent

vars == <<phase, listen, probes, pc, request, run, holder, procs, expired,
          answer, attempts>>

Listeners == {"http", "socket"}

RequestRecord == [method : {"GET", "POST", "other"},
                  body : {"readable", "broken", "not_json"},
                  nonce : {"absent", "valid", "invalid"}]

(* exit: the exit code, NotStarted when the command could not be run.      *)
(* noise: text on stderr, appended to the output behind the token.         *)
OutcomeRecord == [exit : {0, 1}, banner : BOOLEAN,
                  token : {"nil", "pass", "fail"}, noise : BOOLEAN]

ASSUME ClientsAssumption == IsFiniteSet(Clients) /\ None \notin Clients
ASSUME ViaAssumption == Via \in [Clients -> Listeners]
ASSUME RequestsAssumption == Requests \subseteq RequestRecord
(* Exit code 0 comes with the success message and a passing token: that is *)
(* what theorem ExitZero of GpuAttestationProofs says of the verifier.     *)
ASSUME OutcomesAssumption ==
    /\ Outcomes \subseteq OutcomeRecord
    /\ \A o \in Outcomes : o.exit = 0 => o.banner /\ o.token = "pass"
ASSUME BoundsAssumption == MaxAttempts \in Nat /\ MaxProbes \in Nat \ {0}

Ready      == -1
NoRequest  == [method |-> "none", body |-> "readable", nonce |-> "absent"]
NoRun      == [exit |-> 0, banner |-> FALSE, token |-> "nil", noise |-> FALSE]
NotStarted == [exit |-> -1, banner |-> FALSE, token |-> "nil", noise |-> FALSE]

(* A response without a token. *)
Bare(status) == [status |-> status, token |-> "nil", nonce |-> "absent"]
NoAnswer     == Bare(0)
Lost         == Bare(-1)

InFlight == {c \in Clients : pc[c] # "idle"}

Init ==
    /\ phase = "up"
    /\ listen = [l \in Listeners |-> "starting"]
    /\ probes = 0
    /\ pc = [c \in Clients |-> "idle"]
    /\ request = [c \in Clients |-> NoRequest]
    /\ run = [c \in Clients |-> NoRun]
    /\ holder = None
    /\ procs = {}
    /\ expired = {}
    /\ answer = [c \in Clients |-> NoAnswer]
    /\ attempts = [c \in Clients |-> 0]
-----------------------------------------------------------------------------
(* The handler of one request. *)

(* The server accepts the connection and starts the handler. *)
Receive(c) ==
    /\ phase = "up" /\ listen[Via[c]] = "listening"
    /\ pc[c] = "idle" /\ attempts[c] < MaxAttempts
    /\ \E r \in Requests : request' = [request EXCEPT ![c] = r]
    /\ pc' = [pc EXCEPT ![c] = "handling"]
    /\ answer' = [answer EXCEPT ![c] = NoAnswer]
    /\ attempts' = [attempts EXCEPT ![c] = @ + 1]
    /\ UNCHANGED <<phase, listen, probes, run, holder, procs, expired>>

(* The nonce the handler extracts: a POST body that is not the expected    *)
(* JSON counts as one without a nonce.                                     *)
Nonce(r) ==
    IF r.method = "POST" /\ r.body = "not_json" THEN "absent" ELSE r.nonce

RejectStatus(r) ==
    IF r.method = "other" THEN 405
    ELSE IF r.method = "POST" /\ r.body = "broken" THEN 400
    ELSE IF Nonce(r) = "invalid" THEN 400
    ELSE 0

(* Ends the handler.  Past the write deadline of the connection the        *)
(* response never reaches the client.                                      *)
Respond(c, response) ==
    /\ answer' = [answer EXCEPT ![c] = IF c \in expired THEN Lost ELSE response]
    /\ pc' = [pc EXCEPT ![c] = "idle"]
    /\ request' = [request EXCEPT ![c] = NoRequest]
    /\ run' = [run EXCEPT ![c] = NoRun]
    /\ expired' = expired \ {c}

Validate(c) ==
    /\ pc[c] = "handling"
    /\ LET status == RejectStatus(request[c])
       IN  IF status = 0
             THEN /\ pc' = [pc EXCEPT ![c] = "waiting"]
                  /\ UNCHANGED <<answer, request, run, expired>>
             ELSE Respond(c, Bare(status))
    /\ UNCHANGED <<phase, listen, probes, holder, procs, attempts>>

(* Mutant of Lock: no mutual exclusion. *)
LockAnyway(c) ==
    /\ pc[c] = "waiting"
    /\ holder' = c
    /\ pc' = [pc EXCEPT ![c] = "locked"]
    /\ UNCHANGED <<phase, listen, probes, request, run, procs, expired, answer,
                   attempts>>

Lock(c) ==
    /\ pc[c] = "waiting" /\ holder = None
    /\ holder' = c
    /\ pc' = [pc EXCEPT ![c] = "locked"]
    /\ UNCHANGED <<phase, listen, probes, request, run, procs, expired, answer,
                   attempts>>

(* Mutant of StartVerifier: the error path skips the unlock. *)
StartVerifierOrReply(c) ==
    /\ pc[c] = "locked"
    /\ \/ /\ procs' = procs \cup {c}
          /\ pc' = [pc EXCEPT ![c] = "running"]
          /\ run' = run
       \/ /\ procs' = procs
          /\ pc' = [pc EXCEPT ![c] = "reply"]
          /\ run' = [run EXCEPT ![c] = NotStarted]
    /\ UNCHANGED <<phase, listen, probes, request, holder, expired, answer,
                   attempts>>

(* cmd.Run() starts `sudo python3 -m verifier.cc_admin', or cannot. *)
StartVerifier(c) ==
    /\ pc[c] = "locked"
    /\ \/ /\ procs' = procs \cup {c}
          /\ pc' = [pc EXCEPT ![c] = "running"]
          /\ run' = run
       \/ /\ procs' = procs
          /\ pc' = [pc EXCEPT ![c] = "unlock"]
          /\ run' = [run EXCEPT ![c] = NotStarted]
    /\ UNCHANGED <<phase, listen, probes, request, holder, expired, answer,
                   attempts>>

(* The process ends; nobody waits for one the service left behind. *)
VerifierExits(c) ==
    /\ c \in procs
    /\ procs' = procs \ {c}
    /\ \/ /\ pc[c] = "running"
          /\ \E o \in Outcomes : run' = [run EXCEPT ![c] = o]
          /\ pc' = [pc EXCEPT ![c] = "unlock"]
       \/ pc[c] # "running" /\ run' = run /\ pc' = pc
    /\ UNCHANGED <<phase, listen, probes, request, holder, expired, answer,
                   attempts>>

(* Mutant of Unlock: only a run that went well unlocks. *)
UnlockOnSuccess(c) ==
    /\ pc[c] = "unlock"
    /\ holder' = IF run[c].exit = 0 THEN None ELSE holder
    /\ pc' = [pc EXCEPT ![c] = "reply"]
    /\ UNCHANGED <<phase, listen, probes, request, run, procs, expired, answer,
                   attempts>>

Unlock(c) ==
    /\ pc[c] = "unlock"
    /\ holder' = None
    /\ pc' = [pc EXCEPT ![c] = "reply"]
    /\ UNCHANGED <<phase, listen, probes, request, run, procs, expired, answer,
                   attempts>>

(* The token is whatever JSON follows its headline up to the end. *)
ParsedToken(o) == IF o.noise THEN "nil" ELSE o.token

(* Mutant of Reply: the exit code is ignored. *)
ReplyIgnoringExit(c) ==
    /\ pc[c] = "reply"
    /\ Respond(c, [status |-> IF run[c].banner THEN 200 ELSE 400,
                   token  |-> ParsedToken(run[c]),
                   nonce  |-> Nonce(request[c])])
    /\ UNCHANGED <<phase, listen, probes, holder, procs, attempts>>

Reply(c) ==
    /\ pc[c] = "reply"
    /\ Respond(c, IF run[c].exit # 0
                    THEN Bare(500)
                    ELSE [status |-> IF run[c].banner THEN 200 ELSE 400,
                          token  |-> ParsedToken(run[c]),
                          nonce  |-> Nonce(request[c])])
    /\ UNCHANGED <<phase, listen, probes, holder, procs, attempts>>

(* WriteTimeout: thirty seconds after the request's header was read, or    *)
(* the client hangs up.  Either way the handler goes on.                   *)
Expire(c) ==
    /\ c \in InFlight \ expired
    /\ expired' = expired \cup {c}
    /\ UNCHANGED <<phase, listen, probes, pc, request, run, holder, procs,
                   answer, attempts>>
-----------------------------------------------------------------------------
(* The service process. *)

Listen(l) ==
    /\ phase = "up" /\ listen[l] = "starting"
    /\ listen' = [listen EXCEPT ![l] = "listening"]
    /\ UNCHANGED <<phase, probes, pc, request, run, holder, procs, expired,
                   answer, attempts>>

(* The listener cannot be made, or stops accepting; it is not made again. *)
ServerFails(l) ==
    /\ phase = "up" /\ listen[l] # "failed"
    /\ listen' = [listen EXCEPT ![l] = "failed"]
    /\ UNCHANGED <<phase, probes, pc, request, run, holder, procs, expired,
                   answer, attempts>>

(* A listener that starts is made, or cannot be; nothing keeps one from    *)
(* listening for ever after.                                               *)
Starts(l) == Listen(l) \/ (listen[l] = "starting" /\ ServerFails(l))

(* The process ends and takes its goroutines with it: the connections are  *)
(* reset.  A verifier process that was running lives on for now.           *)
Exit(how) ==
    /\ phase' = how
    /\ pc' = [c \in Clients |-> "idle"]
    /\ request' = [c \in Clients |-> NoRequest]
    /\ run' = [c \in Clients |-> NoRun]
    /\ holder' = None
    /\ expired' = {}
    /\ answer' = [c \in Clients |-> IF c \in InFlight THEN Lost ELSE answer[c]]
    /\ UNCHANGED <<listen, probes, procs, attempts>>

(* What a probe of the port finds: when the port is taken by another       *)
(* program, that program answers, one way or the other.                    *)
ProbeAnswers ==
    CASE listen["http"] = "starting"  -> {FALSE}
      [] listen["http"] = "listening" -> {TRUE}
      [] listen["http"] = "failed"    -> BOOLEAN

(* Mutant of Probe: one round too many. *)
ProbeOnceMore ==
    /\ phase = "up" /\ probes # Ready
    /\ \E alive \in ProbeAnswers :
          IF ~alive /\ probes = MaxProbes
            THEN Exit("failure")
            ELSE /\ probes' = IF alive THEN Ready ELSE probes + 1
                 /\ UNCHANGED <<phase, listen, pc, request, run, holder, procs,
                                expired, answer, attempts>>

(* One round of waitForServerReady: the last failed one ends the process. *)
Probe ==
    /\ phase = "up" /\ probes # Ready
    /\ \E alive \in ProbeAnswers :
          IF ~alive /\ probes + 1 = MaxProbes
            THEN Exit("failure")
            ELSE /\ probes' = IF alive THEN Ready ELSE probes + 1
                 /\ UNCHANGED <<phase, listen, pc, request, run, holder, procs,
                                expired, answer, attempts>>

(* wg.Wait() returns once both server goroutines have, and main with it. *)
MainReturns ==
    /\ phase = "up"
    /\ \A l \in Listeners : listen[l] = "failed"
    /\ Exit("clean")

(* The process is killed, or panics. *)
Killed == phase = "up" /\ Exit("failure")

(* systemd kills what is left in the control group of a dead service. *)
KillGroup ==
    /\ phase # "up" /\ procs # {}
    /\ procs' = {}
    /\ UNCHANGED <<phase, listen, probes, pc, request, run, holder, expired,
                   answer, attempts>>

(* Mutant of Restart: KillMode=process, what is left behind goes on. *)
RestartAtOnce ==
    /\ phase = "failure"
    /\ phase' = "up"
    /\ listen' = [l \in Listeners |-> "starting"]
    /\ probes' = 0
    /\ UNCHANGED <<pc, request, run, holder, procs, expired, answer, attempts>>

(* Mutant of Restart: Restart=on-success. *)
RestartOnSuccess ==
    /\ phase = "clean" /\ procs = {}
    /\ phase' = "up"
    /\ listen' = [l \in Listeners |-> "starting"]
    /\ probes' = 0
    /\ UNCHANGED <<pc, request, run, holder, procs, expired, answer, attempts>>

(* Restart=on-failure: a service that exited with 0 stays down. *)
Restart ==
    /\ phase = "failure" /\ procs = {}
    /\ phase' = "up"
    /\ listen' = [l \in Listeners |-> "starting"]
    /\ probes' = 0
    /\ UNCHANGED <<pc, request, run, holder, procs, expired, answer, attempts>>

Handler(c) ==
    Validate(c) \/ StartVerifier(c) \/ VerifierExits(c) \/ Unlock(c) \/ Reply(c)

Next ==
    \/ \E c \in Clients : Receive(c) \/ Handler(c) \/ Lock(c) \/ Expire(c)
    \/ \E l \in Listeners : Listen(l) \/ ServerFails(l)
    \/ Probe \/ MainReturns \/ Killed \/ KillGroup \/ Restart

(* A goroutine that can move does, a verifier run ends (RunEnds of         *)
(* GpuAttestation), and sync.Mutex hands itself to a starving waiter.      *)
Fairness ==
    /\ \A c \in Clients : WF_vars(Handler(c)) /\ SF_vars(Lock(c))
    /\ \A l \in Listeners : WF_vars(Starts(l))
    /\ WF_vars(Probe) /\ WF_vars(MainReturns)
    /\ WF_vars(KillGroup) /\ WF_vars(Restart)

Spec == Init /\ [][Next]_vars /\ Fairness
-----------------------------------------------------------------------------
Critical == {"locked", "running", "unlock"}

Answers == [status : {0, -1, 200, 400, 405, 500},
            token : {"nil", "pass", "fail"},
            nonce : {"absent", "valid"}]

(* Every variable keeps the kind of value the code gives it. *)
TypeOK ==
    /\ phase \in {"up", "failure", "clean"}
    /\ listen \in [Listeners -> {"starting", "listening", "failed"}]
    /\ probes \in {Ready} \cup 0 .. MaxProbes - 1
    /\ pc \in [Clients -> {"idle", "handling", "waiting", "reply"} \cup Critical]
    /\ request \in [Clients -> RequestRecord \cup {NoRequest}]
    /\ run \in [Clients -> OutcomeRecord \cup {NoRun, NotStarted}]
    /\ holder \in Clients \cup {None}
    /\ procs \subseteq Clients
    /\ expired \subseteq Clients
    /\ answer \in [Clients -> Answers]
    /\ attempts \in [Clients -> 0 .. MaxAttempts]

(* main.go:64: "This ensures only one attestation process runs at a time". *)
(* Also across restarts of the service, whose mutex knows nothing of a     *)
(* process its predecessor started.                                        *)
OneVerifier == \A c, d \in procs : c = d

(* The mutex is held by the one handler between Lock and Unlock, and a     *)
(* verifier of the living service belongs to that handler: no path leaves  *)
(* the mutex locked behind it (main.go:448-450).                           *)
MutexNotLeaked ==
    /\ \A c \in Clients : holder = c <=> pc[c] \in Critical
    /\ phase = "up" => procs = {c \in Clients : pc[c] = "running"}

(* What a client learns from a token is never a failed attestation: the    *)
(* claims of a failed run, which the verifier prints as well, are dropped  *)
(* with its exit code, and a 200 without a token has lost it to noise on   *)
(* stderr (main.go:398-412, 474-490).                                      *)
NoFailingClaims ==
    \A c \in Clients :
        /\ answer[c].token # "fail"
        /\ answer[c].token = "pass" => answer[c].status = 200

(* Every request is over some day: answered, or its connection lost. *)
RequestEnds == \A c \in Clients : pc[c] # "idle" ~> pc[c] = "idle"

(* README.md:85 of the service: it "restarts automatically on failure". *)
FailureRestarts == phase = "failure" ~> phase = "up"

(* A verifier the service has left behind still counts as running. *)
SerialState ==
    [c \in Clients |->
        IF c \in procs THEN "running"
        ELSE IF pc[c] \in {"unlock", "reply"} /\ run[c] # NotStarted
          THEN "finished"
        ELSE IF pc[c] = "idle" THEN "idle" ELSE "asked"]

Serial == INSTANCE SerialAttestation WITH state <- SerialState

(* The service implements its abstract specification: for each request the *)
(* verifier is run once, alone, before the answer, or the request is lost. *)
ImplementsSerial == Serial!Spec
-----------------------------------------------------------------------------
(* README.md:85 of the service: it "restarts automatically on failure".    *)
(* When both servers fail main returns, and the process exits with 0.      *)
ServersRestart ==
    (\A l \in Listeners : listen[l] = "failed")
        ~> (\E l \in Listeners : listen[l] # "failed")
=============================================================================
