----------------------------- MODULE Onboarding -----------------------------
(***************************************************************************)
(* cgpu-h100-auto-onboarding.sh: the script creates the VMs one after the  *)
(* other and takes each through the onboarding steps over ssh.  It never   *)
(* looks at the result of a step: a step that could not connect, failed or *)
(* was cut off by the reboot of the VM is followed by the next one, and    *)
(* only the validation at the end decides whether the VM counts.           *)
(*                                                                         *)
(* Azure, the VMs and the connection to them are outside the script.  The  *)
(* steps that run on a VM are modelled by what they leave behind there.    *)
(***************************************************************************)
EXTENDS Integers, Sequences, FiniteSets

CONSTANTS
    N,              \* total_vm_number
    MaxRetry,       \* MAX_RETRY of try_connect
    EnableService   \* --enable-gpu-verifier-service

VARIABLES
    pc,             \* where the script is
    current,        \* current_vm_count
    step,           \* the step of the plan for the current VM
    retries,        \* of try_connect
    is_success,     \* "Succeeded" or "failed"
    vm_ssh_info,    \* the VM the commands go to, Nobody when it has no address
    log,            \* attestation-output.log: of which VM, with success string
    counted,        \* the VMs counted in successCount
    failed,         \* the VMs that failed, in creation or in validation
    vm              \* the state of each VM

scriptVars == <<current, step, retries, is_success, vm_ssh_info, log, counted,
                failed>>
vars == <<pc, scriptVars, vm>>

ASSUME NAssumption == N \in Nat \ {0}
ASSUME RetryAssumption == MaxRetry \in Nat
ASSUME ServiceAssumption == EnableService \in BOOLEAN

Vms    == 1 .. N
Nobody == 0

Plan == <<"upload", "kernel", "driver", "attestation", "tools">>
          \o (IF EnableService THEN <<"service">> ELSE <<>>) \o <<"validation">>

(* Kernels are told apart by step 1's MINIMUM_KERNEL_VERSION only. *)
Kernels == {"old", "fit"}

(* The Python environments of the verifier: step 2 makes one, the service  *)
(* looks for the other.                                                    *)
StepPython    == ".venv"
ServicePython == "prodtest"

(* kernel: the one that runs; installed: the one the next boot takes.      *)
(* pythons: the verifier's environments; service: it answers requests;     *)
(* attested: a run of the verifier has succeeded on this VM.               *)
VmRecord ==
    [state : {"absent", "foreign", "created"}, package : BOOLEAN,
     kernel : Kernels, installed : Kernels, rebooting : BOOLEAN,
     driver : BOOLEAN, docker : BOOLEAN,
     pythons : SUBSET {StepPython, ServicePython},
     service : BOOLEAN, attested : BOOLEAN]

Fresh(state, k) ==
    [state |-> state, package |-> FALSE, kernel |-> k, installed |-> k,
     rebooting |-> FALSE, driver |-> FALSE, docker |-> FALSE, pythons |-> {},
     service |-> FALSE, attested |-> FALSE]

NoLog == [vm |-> Nobody, passed |-> FALSE]

(* A VM of that name may be in the resource group already. *)
Init ==
    /\ pc = "prepare"
    /\ current = 1 /\ step = 1 /\ retries = 0
    /\ is_success = "Succeeded"
    /\ vm_ssh_info = Nobody
    /\ log = NoLog
    /\ counted = {} /\ failed = {}
    /\ vm \in [Vms -> {Fresh(s, "old") : s \in {"absent", "foreign"}}]

(* Arguments, login and resource group: any failure ends the script. *)
Prepare ==
    /\ pc = "prepare"
    /\ pc' \in {"create", "done"}
    /\ UNCHANGED <<scriptVars, vm>>

(* Mutant of NextVm: the first VM that fails ends the script. *)
NextVmIfSucceeded ==
    /\ current' = current + 1
    /\ pc' = IF current < N /\ is_success' = "Succeeded" THEN "create" ELSE "done"

(* The head of the loop over the VMs. *)
NextVm ==
    /\ current' = current + 1
    /\ pc' = IF current < N THEN "create" ELSE "done"

(* Mutant of NameIsFree: the name is not looked up. *)
AnyName == TRUE

NameIsFree == vm[current].state = "absent"

(* create_vm refuses a name that is taken; az vm create may fail, and may  *)
(* leave a VM behind all the same.                                         *)
CreateVm ==
    /\ pc = "create"
    /\ \/ /\ is_success' = "failed"
          /\ failed' = failed \cup {current}
          /\ NextVm
          /\ \/ vm' = vm
             \/ NameIsFree /\ vm' = [vm EXCEPT ![current] = Fresh("created", "old")]
       \/ /\ NameIsFree
          /\ \E k \in Kernels : vm' = [vm EXCEPT ![current] = Fresh("created", k)]
          /\ is_success' = "Succeeded"
          /\ pc' = "address"
          /\ UNCHANGED <<current, failed>>
    /\ UNCHANGED <<step, retries, vm_ssh_info, log, counted>>

(* Mutant of GetAddress: an address that cannot be read is left as it was. *)
GetAddressIfAny ==
    /\ pc = "address"
    /\ vm_ssh_info' \in {current, vm_ssh_info}
    /\ step' = 1 /\ retries' = 0
    /\ pc' = "connect"
    /\ UNCHANGED <<current, is_success, log, counted, failed, vm>>

(* az vm show: without an address there is nobody behind the user name.    *)
GetAddress ==
    /\ pc = "address"
    /\ vm_ssh_info' \in {current, Nobody}
    /\ step' = 1 /\ retries' = 0
    /\ pc' = "connect"
    /\ UNCHANGED <<current, is_success, log, counted, failed, vm>>

(* Mutant of TryConnect: one round too many. *)
TryConnectOnceMore ==
    /\ pc = "connect"
    /\ \/ retries <= MaxRetry /\ retries' = retries + 1 /\ pc' = pc
       \/ vm_ssh_info # Nobody /\ retries' = 0 /\ pc' = "run"
    /\ UNCHANGED <<current, step, is_success, vm_ssh_info, log, counted, failed,
                   vm>>

(* One round of try_connect.  Whether it ever connected is forgotten.      *)
TryConnect ==
    /\ pc = "connect"
    /\ \/ retries < MaxRetry /\ retries' = retries + 1 /\ pc' = pc
       \/ retries < MaxRetry /\ vm_ssh_info # Nobody /\ retries' = 0 /\ pc' = "run"
       \/ retries = MaxRetry /\ retries' = 0 /\ pc' = "run"
    /\ UNCHANGED <<current, step, is_success, vm_ssh_info, log, counted, failed,
                   vm>>

(* What a step may leave on a VM, and whether it shows a success string.   *)
Silent(S) == {[vm |-> v, passed |-> FALSE] : v \in S}

(* A run of the verifier with the given Python on v: it may succeed when   *)
(* that environment is there and so is the driver.                         *)
Attest(v, python) ==
    Silent({v}) \cup
    (IF v.driver /\ python \in v.pythons
       THEN {[vm |-> [v EXCEPT !.attested = TRUE], passed |-> TRUE]} ELSE {})

(* What a step may make of the VM it runs on, if it gets that far.  Step 2 *)
(* removes the verifier that was there before it installs its own.         *)
Effects(s, v) ==
    CASE s = "upload" -> Silent({[v EXCEPT !.package = TRUE]})
      [] s = "kernel" /\ v.package ->
            Silent({[v EXCEPT !.installed = k, !.rebooting = TRUE]
                       : k \in {v.installed, "fit"}})
      [] s = "driver" /\ v.package /\ v.kernel = "fit" ->
            Silent({[v EXCEPT !.driver = TRUE]})
      [] s = "attestation" /\ v.package ->
            Attest([v EXCEPT !.pythons = {StepPython}], StepPython)
      [] s = "tools" /\ v.package -> Silent({[v EXCEPT !.docker = TRUE]})
      [] s = "service" /\ v.package /\ v.docker /\ v.driver ->
            Attest([v EXCEPT !.service = TRUE], ServicePython)
      [] OTHER -> {}

(* The log is emptied before the attestation step, and both it and the     *)
(* test of the service, which shows the verifier's output, append to it.   *)
(* The output may be lost with the connection.                             *)
Logged(s, passed) ==
    CASE s = "attestation" -> [vm |-> current, passed |-> passed]
      [] s = "service"     -> [log EXCEPT !.passed = @ \/ passed]
      [] OTHER             -> log

RunStep ==
    /\ pc = "run" /\ Plan[step] # "validation"
    /\ \/ vm' = vm /\ log' = Logged(Plan[step], FALSE)
       \/ /\ vm_ssh_info # Nobody
          /\ \E e \in Effects(Plan[step], vm[vm_ssh_info]), delivered \in BOOLEAN :
                /\ vm' = [vm EXCEPT ![vm_ssh_info] = e.vm]
                /\ log' = Logged(Plan[step], delivered /\ e.passed)
    /\ step' = step + 1
    /\ pc' = "connect"
    /\ UNCHANGED <<current, retries, is_success, vm_ssh_info, counted, failed>>

(* Mutant of MayPass: nvidia-smi is not asked. *)
MayPassOnSecureBoot == vm_ssh_info # Nobody

(* Secure boot, CC mode and CC environment must all be answered as         *)
(* expected, the latter two by nvidia-smi.  The attestation log is read    *)
(* too, but changes nothing.                                               *)
MayPass == vm_ssh_info # Nobody /\ vm[vm_ssh_info].driver

Validation ==
    /\ pc = "run" /\ Plan[step] = "validation"
    /\ \/ /\ MayPass
          /\ counted' = counted \cup {current}
          /\ UNCHANGED <<is_success, failed>>
       \/ /\ is_success' = "failed"
          /\ failed' = failed \cup {current}
          /\ UNCHANGED counted
    /\ NextVm
    /\ UNCHANGED <<step, retries, vm_ssh_info, log, vm>>

(* The VM comes back from its reboot, some time after step 0 asked for it. *)
Reboot(k) ==
    /\ vm[k].rebooting
    /\ vm' = [vm EXCEPT ![k].rebooting = FALSE, ![k].kernel = vm[k].installed]
    /\ UNCHANGED <<pc, scriptVars>>

Script ==
    \/ Prepare \/ CreateVm \/ GetAddress \/ TryConnect \/ RunStep \/ Validation

Next == Script \/ \E k \in Vms : Reboot(k)

(* An ssh command ends: ServerAliveInterval and ServerAliveCountMax.  The  *)
(* VMs owe the script nothing.                                             *)
Spec == Init /\ [][Next]_vars /\ WF_vars(Script)
-----------------------------------------------------------------------------
(* Every variable keeps the kind of value the code gives it. *)
TypeOK ==
    /\ pc \in {"prepare", "create", "address", "connect", "run", "done"}
    /\ current \in 1 .. N + 1
    /\ step \in 1 .. Len(Plan)
    /\ retries \in 0 .. MaxRetry
    /\ is_success \in {"Succeeded", "failed"}
    /\ vm_ssh_info \in Vms \cup {Nobody}
    /\ log \in [vm : Vms \cup {Nobody}, passed : BOOLEAN]
    /\ counted \subseteq Vms /\ failed \subseteq Vms
    /\ vm \in [Vms -> VmRecord]

(* A VM that counts was created by this run and has got the whole chain    *)
(* the GPU needs, although no step checks on the one before: the package,  *)
(* then a kernel fit for the driver, then the driver (step-1:24-32).       *)
CountedAreReady ==
    /\ counted \cap failed = {}
    /\ \A k \in counted :
          /\ vm[k].state = "created"
          /\ vm[k].package /\ vm[k].kernel = "fit" /\ vm[k].driver

(* vm_ssh_info and attestation-output.log outlive the VM they were made    *)
(* for: no command may reach another VM than the current one, and no VM    *)
(* may be judged by the attestation of another (lines 306-310, 377).       *)
NothingStale ==
    /\ pc \in {"connect", "run"} => vm_ssh_info \in {current, Nobody}
    /\ pc = "run" /\ Plan[step] = "validation" =>
         /\ log.vm = current
         /\ log.passed => vm[current].attested

(* A VM that was there before is left alone (lines 467-470, 514-517). *)
ForeignVmsUntouched ==
    [][\A k \in Vms : vm[k].state = "foreign" => vm'[k] = vm[k]]_vars

(* The script ends, and by then every VM has been counted or has failed:   *)
(* a VM that cannot be created or reached does not keep it from the rest.  *)
EveryVmIsTried ==
    pc = "create" ~> pc = "done" /\ counted \cup failed = Vms
-----------------------------------------------------------------------------
(* README.md:35: the onboarding "verifies attestation and ensures the CGPU *)
(* mode is enabled".  The failed attestation of a VM is printed, and the   *)
(* VM counts as a success all the same (lines 553-560).                    *)
CountedAreAttested == \A k \in counted : vm[k].attested

(* README.md:3 of the service: it "wraps the local GPU verifier" and       *)
(* serves attestation results.  The service runs prodtest/bin/python3      *)
(* (main.go:436), and step-2-attestation.sh:102-114 has left .venv alone.  *)
ServiceFindsVerifier ==
    \A k \in Vms : vm[k].service => ServicePython \in vm[k].pythons
-----------------------------------------------------------------------------
(* The inductive invariant behind the theorems of OnboardingProofs. *)

(* The script works on one VM of its own at a time, and what it has        *)
(* counted or failed lies behind it.                                       *)
AtOneVm ==
    /\ counted \cup failed \subseteq 1 .. current - 1
    /\ counted \cap failed = {}
    /\ pc \in {"prepare", "create", "address", "connect", "run"} => current \in Vms
    /\ pc \in {"address", "connect", "run"} => vm[current].state = "created"
    /\ pc \in {"connect", "run"} => vm_ssh_info \in {current, Nobody}

(* What is on a VM got there in order, and by this script: a kernel fit    *)
(* for the driver stays, since no step installs an older one.              *)
VmsInOrder ==
    \A k \in Vms :
        /\ vm[k].rebooting \/ vm[k].driver => vm[k].state = "created"
        /\ vm[k].driver => vm[k].package /\ vm[k].kernel = "fit"
        /\ vm[k].kernel = "fit" => vm[k].installed = "fit"

(* From the attestation step on the log is that of the current VM. *)
LogIsOwn ==
    pc \in {"connect", "run"} /\ step > 4 =>
        log.vm = current /\ (log.passed => vm[current].attested)

IInv ==
    /\ TypeOK /\ AtOneVm /\ VmsInOrder /\ LogIsOwn /\ CountedAreReady
    /\ NothingStale
=============================================================================
