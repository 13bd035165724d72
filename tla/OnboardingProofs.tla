-------------------------- MODULE OnboardingProofs --------------------------
(***************************************************************************)
(* What the onboarding script guarantees for any number of VMs, of retries *)
(* and with or without the service: a VM that counts has been made ready   *)
(* in order, nothing of one VM is used for another, and VMs that were      *)
(* there before are left alone.                                            *)
(***************************************************************************)
EXTENDS Onboarding, TLAPS

Steps == {"upload", "kernel", "driver", "attestation", "tools", "service",
          "validation"}

(* One more step at the end of a plan. *)
LEMMA OneMoreStep ==
    ASSUME NEW p \in Seq(Steps), NEW s \in Steps
    PROVE  /\ p \o <<s>> \in Seq(Steps) /\ Len(p \o <<s>>) = Len(p) + 1
           /\ (p \o <<s>>)[Len(p) + 1] = s
           /\ \A n \in 1 .. Len(p) : (p \o <<s>>)[n] = p[n]
OBVIOUS

(* The plan: the attestation is its fourth step, the validation its last. *)
LEMMA PlanSteps ==
    /\ Len(Plan) \in Nat /\ Len(Plan) > 4
    /\ \A s \in 1 .. Len(Plan) :
          /\ Plan[s] \in Steps
          /\ (Plan[s] = "attestation") = (s = 4)
          /\ (Plan[s] = "validation") = (s = Len(Plan))
          /\ Plan[s] = "service" => s > 4
<1>. DEFINE front == <<"upload", "kernel", "driver", "attestation", "tools">>
            middle == front \o <<"service">>
<1>1. /\ front \in Seq(Steps) /\ Len(front) = 5 /\ front[1] = "upload"
      /\ front[2] = "kernel" /\ front[3] = "driver" /\ front[4] = "attestation"
      /\ front[5] = "tools"
  BY DEF Steps
<1>2. "service" \in Steps /\ "validation" \in Steps
  BY DEF Steps
<1>. HIDE DEF front
<1>3. CASE EnableService
  <2>1. Plan = middle \o <<"validation">>
    BY <1>3 DEF Plan, front
  <2>2. /\ middle \in Seq(Steps) /\ Len(middle) = 6 /\ middle[6] = "service"
        /\ \A n \in 1 .. 5 : middle[n] = front[n]
    <3>1. /\ middle \in Seq(Steps) /\ Len(middle) = Len(front) + 1
          /\ middle[Len(front) + 1] = "service"
          /\ \A n \in 1 .. Len(front) : middle[n] = front[n]
      BY <1>1, <1>2, OneMoreStep
    <3>. HIDE DEF middle
    <3>2. QED
      BY <1>1, <3>1
  <2>. HIDE DEF middle
  <2>3. /\ Len(Plan) = 7 /\ Plan[7] = "validation"
        /\ \A n \in 1 .. 6 : Plan[n] = middle[n]
    <3>1. /\ Len(Plan) = Len(middle) + 1 /\ Plan[Len(middle) + 1] = "validation"
          /\ \A n \in 1 .. Len(middle) : Plan[n] = middle[n]
      <4>. DEFINE plan == middle \o <<"validation">>
      <4>1. /\ Len(plan) = Len(middle) + 1 /\ plan[Len(middle) + 1] = "validation"
            /\ \A n \in 1 .. Len(middle) : plan[n] = middle[n]
        BY <1>2, <2>2, OneMoreStep
      <4>. HIDE DEF plan
      <4>2. Plan = plan
        BY <2>1 DEF plan
      <4>3. QED
        BY <4>1, <4>2
    <3>2. QED
      BY <2>2, <3>1
  <2>4. \A n \in 1 .. 7 : n \in {1, 2, 3, 4, 5, 6, 7}
    OBVIOUS
  <2>5. /\ Plan[1] = "upload" /\ Plan[2] = "kernel" /\ Plan[3] = "driver"
        /\ Plan[4] = "attestation" /\ Plan[5] = "tools" /\ Plan[6] = "service"
        /\ Plan[7] = "validation"
    BY <1>1, <2>2, <2>3
  <2>6. QED
    BY <2>3, <2>4, <2>5 DEF Steps
<1>4. CASE ~EnableService
  <2>1. Plan = front \o <<"validation">>
    <3>1. Plan = (front \o <<>>) \o <<"validation">>
      BY <1>4 DEF Plan, front
    <3>2. front \o <<>> = front
      BY <1>1
    <3>3. QED
      BY <3>1, <3>2
  <2>2. /\ Len(Plan) = 6 /\ Plan[6] = "validation"
        /\ \A n \in 1 .. 5 : Plan[n] = front[n]
    <3>1. /\ Len(Plan) = Len(front) + 1 /\ Plan[Len(front) + 1] = "validation"
          /\ \A n \in 1 .. Len(front) : Plan[n] = front[n]
      BY <1>1, <1>2, <2>1, OneMoreStep
    <3>2. QED
      BY <1>1, <3>1
  <2>3. \A n \in 1 .. 6 : n \in {1, 2, 3, 4, 5, 6}
    OBVIOUS
  <2>4. /\ Plan[1] = "upload" /\ Plan[2] = "kernel" /\ Plan[3] = "driver"
        /\ Plan[4] = "attestation" /\ Plan[5] = "tools" /\ Plan[6] = "validation"
    BY <1>1, <2>2
  <2>5. QED
    BY <2>2, <2>3, <2>4 DEF Steps
<1>5. QED
  BY <1>3, <1>4, ServiceAssumption

(* What no step on a VM does to it: change its owner, its running kernel,  *)
(* take away what is there, add the driver without what that needs, or     *)
(* make another Python environment than step 2's.                          *)
Improves(v, w) ==
    /\ w \in VmRecord /\ w.state = v.state /\ w.kernel = v.kernel
    /\ v.package => w.package
    /\ w.installed \in {v.installed, "fit"}
    /\ v.driver => w.driver
    /\ w.driver => v.driver \/ (v.package /\ v.kernel = "fit")
    /\ v.attested => w.attested
    /\ w.pythons \in {v.pythons, {StepPython}}

(* A run of the verifier leaves the VM as it is, but for what it attests. *)
LEMMA AttestImproves ==
    ASSUME NEW v \in VmRecord, NEW w, Improves(v, w), NEW python,
           NEW e \in Attest(w, python)
    PROVE  /\ Improves(v, e.vm) /\ e.passed \in BOOLEAN
           /\ e.passed => e.vm.attested
<1>1. \/ e = [vm |-> w, passed |-> FALSE]
      \/ e = [vm |-> [w EXCEPT !.attested = TRUE], passed |-> TRUE]
  BY DEF Attest, Silent
<1>2. w \in VmRecord
  BY DEF Improves
<1>. DEFINE x == [w EXCEPT !.attested = TRUE]
<1>3. /\ x \in VmRecord /\ x.state = w.state /\ x.package = w.package
      /\ x.kernel = w.kernel /\ x.installed = w.installed
      /\ x.driver = w.driver /\ x.attested = TRUE /\ x.pythons = w.pythons
  BY <1>2 DEF VmRecord
<1>4. Improves(v, x)
  BY <1>3 DEF Improves
<1>5. CASE e = [vm |-> w, passed |-> FALSE]
  <2>1. e.vm = w /\ e.passed = FALSE
    BY <1>5
  <2>2. QED
    BY <2>1
<1>6. CASE e = [vm |-> x, passed |-> TRUE]
  <2>1. e.vm = x /\ e.passed = TRUE
    BY <1>6
  <2>2. QED
    BY <1>3, <1>4, <2>1
<1>7. QED
  BY <1>1, <1>5, <1>6

(* Every step on a VM improves it. *)
LEMMA EffectImproves ==
    ASSUME NEW v \in VmRecord, NEW s \in Steps, NEW e \in Effects(s, v)
    PROVE  /\ Improves(v, e.vm) /\ e.passed \in BOOLEAN
           /\ e.passed => e.vm.attested
<1>1. CASE s = "upload"
  <2>. DEFINE w == [v EXCEPT !.package = TRUE]
  <2>1. Improves(v, w)
    BY DEF Improves, VmRecord
  <2>2. e = [vm |-> w, passed |-> FALSE]
    BY <1>1 DEF Effects, Silent
  <2>3. QED
    BY <2>1, <2>2
<1>2. CASE s = "kernel"
  <2>1. PICK k \in {v.installed, "fit"} :
            e = [vm |-> [v EXCEPT !.installed = k, !.rebooting = TRUE],
                 passed |-> FALSE]
    BY <1>2 DEF Effects, Silent
  <2>. DEFINE w == [v EXCEPT !.installed = k, !.rebooting = TRUE]
  <2>2. Improves(v, w)
    BY DEF Improves, VmRecord, Kernels
  <2>3. QED
    BY <2>1, <2>2
<1>3. CASE s = "driver"
  <2>. DEFINE w == [v EXCEPT !.driver = TRUE]
  <2>1. v.package /\ v.kernel = "fit" /\ e = [vm |-> w, passed |-> FALSE]
    BY <1>3 DEF Effects, Silent
  <2>2. Improves(v, w)
    BY <2>1 DEF Improves, VmRecord
  <2>3. QED
    BY <2>1, <2>2
<1>4. CASE s = "attestation"
  <2>. DEFINE w == [v EXCEPT !.pythons = {StepPython}]
  <2>1. Improves(v, w)
    BY DEF Improves, VmRecord
  <2>2. e \in Attest(w, StepPython)
    BY <1>4 DEF Effects
  <2>3. QED
    BY <2>1, <2>2, AttestImproves
<1>5. CASE s = "tools"
  <2>. DEFINE w == [v EXCEPT !.docker = TRUE]
  <2>1. Improves(v, w)
    BY DEF Improves, VmRecord
  <2>2. e = [vm |-> w, passed |-> FALSE]
    BY <1>5 DEF Effects, Silent
  <2>3. QED
    BY <2>1, <2>2
<1>6. CASE s = "service"
  <2>. DEFINE w == [v EXCEPT !.service = TRUE]
  <2>1. Improves(v, w)
    BY DEF Improves, VmRecord
  <2>2. e \in Attest(w, ServicePython)
    BY <1>6 DEF Effects
  <2>3. QED
    BY <2>1, <2>2, AttestImproves
<1>7. CASE s = "validation"
  BY <1>7 DEF Effects
<1>8. QED
  BY <1>1, <1>2, <1>3, <1>4, <1>5, <1>6, <1>7 DEF Steps

(* A new VM has nothing on it. *)
LEMMA FreshVm ==
    ASSUME NEW state \in {"absent", "foreign", "created"}, NEW k \in Kernels
    PROVE  /\ Fresh(state, k) \in VmRecord /\ Fresh(state, k).state = state
           /\ Fresh(state, k).kernel = k /\ Fresh(state, k).installed = k
           /\ ~Fresh(state, k).rebooting /\ ~Fresh(state, k).driver
BY DEF Fresh, VmRecord

(* The initial states satisfy the invariant. *)
LEMMA InitIInv == Init => IInv
<1>. SUFFICES ASSUME Init PROVE IInv
  OBVIOUS
<1>1. 1 \in Vms /\ N \in Nat
  BY NAssumption DEF Vms
<1>2. \A k \in Vms : \E s \in {"absent", "foreign"} : vm[k] = Fresh(s, "old")
  BY DEF Init
<1>3. "old" \in Kernels /\ "old" # "fit"
  BY DEF Kernels
<1>4. TypeOK
  <2>1. vm \in [Vms -> VmRecord]
    BY <1>3, FreshVm DEF Init
  <2>2. 1 \in 1 .. Len(Plan)
    BY PlanSteps
  <2>3. 0 \in 0 .. MaxRetry
    BY RetryAssumption
  <2>4. log \in [vm : Vms \cup {Nobody}, passed : BOOLEAN]
    BY DEF Init, NoLog
  <2>5. QED
    BY <1>1, <2>1, <2>2, <2>3, <2>4 DEF Init, TypeOK
<1>5. VmsInOrder
  <2>. SUFFICES ASSUME NEW k \in Vms
                PROVE  ~vm[k].rebooting /\ ~vm[k].driver /\ vm[k].kernel = "old"
    BY <1>3 DEF VmsInOrder
  <2>1. PICK s \in {"absent", "foreign"} : vm[k] = Fresh(s, "old")
    BY <1>2
  <2>2. QED
    BY <1>3, <2>1, FreshVm
<1>6. AtOneVm /\ LogIsOwn /\ CountedAreReady /\ NothingStale
  BY <1>1 DEF Init, AtOneVm, LogIsOwn, CountedAreReady, NothingStale
<1>7. QED
  BY <1>4, <1>5, <1>6 DEF IInv

(* What has been counted stays ready, for only VMs ahead are worked on. *)
LEMMA CountedKept ==
    ASSUME IInv, vm' \in [Vms -> VmRecord], counted' \subseteq counted \cup {current},
           counted' \cap failed' = {},
           \A k \in counted :
               /\ vm'[k].state = vm[k].state
               /\ vm[k].package => vm'[k].package
               /\ vm[k].driver => vm'[k].driver
               /\ vm'[k].kernel \in {vm[k].kernel, vm[k].installed},
           current \in counted' =>
               /\ vm'[current].state = "created" /\ vm'[current].package
               /\ vm'[current].kernel = "fit" /\ vm'[current].driver
    PROVE  CountedAreReady'
<1>1. ASSUME NEW k \in counted
      PROVE  /\ vm'[k].state = "created" /\ vm'[k].package
             /\ vm'[k].kernel = "fit" /\ vm'[k].driver
  <2>1. /\ k \in Vms /\ vm[k].state = "created" /\ vm[k].package
        /\ vm[k].kernel = "fit" /\ vm[k].driver
    BY DEF IInv, TypeOK, CountedAreReady
  <2>2. vm[k].installed = "fit"
    BY <2>1 DEF IInv, VmsInOrder
  <2>3. QED
    BY <2>1, <2>2
<1>2. QED
  BY <1>1 DEF CountedAreReady

(* The loop goes on behind the current VM. *)
LEMMA NextVmStep ==
    ASSUME IInv, NextVm, current \in Vms,
           counted' \cup failed' \subseteq counted \cup failed \cup {current},
           counted' \cap failed' = {}
    PROVE  /\ current' \in 1 .. N + 1 /\ pc' \in {"create", "done"}
           /\ AtOneVm' /\ LogIsOwn' /\ NothingStale'
<1>1. N \in Nat /\ current \in 1 .. N /\ current' = current + 1
  BY NAssumption DEF Vms, NextVm
<1>2. pc' = IF current < N THEN "create" ELSE "done"
  BY DEF NextVm
<1>3. current' \in 1 .. N + 1 /\ (pc' = "create" => current' \in Vms)
  BY <1>1, <1>2 DEF Vms
<1>4. counted' \cup failed' \subseteq 1 .. current' - 1
  <2>1. counted \cup failed \subseteq 1 .. current - 1
    BY DEF IInv, AtOneVm
  <2>2. 1 .. current - 1 \subseteq 1 .. current /\ current \in 1 .. current
    BY <1>1
  <2>3. current' - 1 = current
    BY <1>1
  <2>4. QED
    BY <2>1, <2>2, <2>3
<1>5. AtOneVm'
  BY <1>2, <1>3, <1>4 DEF AtOneVm
<1>6. QED
  BY <1>2, <1>3, <1>5 DEF LogIsOwn, NothingStale

LEMMA PrepareStep == ASSUME IInv, Prepare PROVE IInv'
<1>1. /\ pc = "prepare" /\ pc' \in {"create", "done"}
      /\ UNCHANGED <<current, step, retries, is_success, vm_ssh_info, log,
                     counted, failed, vm>>
  BY DEF Prepare, scriptVars
<1>2. QED
  BY <1>1 DEF IInv, TypeOK, AtOneVm, VmsInOrder, LogIsOwn, CountedAreReady,
       NothingStale

(* A VM is made only where there was none, so none that counts is lost.    *)
LEMMA CreateVmStep == ASSUME IInv, CreateVm PROVE IInv'
<1>1. /\ pc = "create" /\ current \in Vms /\ vm \in [Vms -> VmRecord]
      /\ counted \cup failed \subseteq 1 .. current - 1
      /\ counted \cap failed = {}
      /\ UNCHANGED <<step, retries, vm_ssh_info, log, counted>>
  BY DEF CreateVm, IInv, TypeOK, AtOneVm
<1>2. current \in 1 .. N /\ N \in Nat /\ current \notin counted \cup failed
  BY <1>1, NAssumption DEF Vms
<1>3. PICK k \in Kernels :
          \/ vm' = vm
          \/ NameIsFree /\ vm' = [vm EXCEPT ![current] = Fresh("created", k)]
  BY DEF CreateVm, Kernels
<1>4. /\ Fresh("created", k) \in VmRecord /\ Fresh("created", k).state = "created"
      /\ Fresh("created", k).kernel = k /\ Fresh("created", k).installed = k
      /\ ~Fresh("created", k).rebooting /\ ~Fresh("created", k).driver
  BY FreshVm
<1>5. vm' \in [Vms -> VmRecord] /\ \A c \in Vms \ {current} : vm'[c] = vm[c]
  BY <1>1, <1>3, <1>4
<1>6. VmsInOrder'
  BY <1>1, <1>3, <1>4, <1>5 DEF IInv, VmsInOrder
<1>7. CASE /\ is_success' = "failed" /\ failed' = failed \cup {current} /\ NextVm
  <2>1. counted' \cap failed' = {}
    BY <1>1, <1>2, <1>7
  <2>2. /\ current' \in 1 .. N + 1 /\ pc' \in {"create", "done"}
        /\ AtOneVm' /\ LogIsOwn' /\ NothingStale'
    BY <1>1, <1>7, <2>1, NextVmStep
  <2>3. TypeOK'
    BY <1>1, <1>5, <1>7, <2>2 DEF IInv, TypeOK
  <2>4. CountedAreReady'
    <3>1. \A c \in counted : c \in Vms \ {current}
      BY <1>2 DEF IInv, TypeOK
    <3>2. QED
      BY <1>1, <1>2, <1>5, <2>1, <3>1, CountedKept
  <2>5. QED
    BY <1>6, <2>2, <2>3, <2>4 DEF IInv
<1>8. CASE /\ NameIsFree
           /\ \E n \in Kernels : vm' = [vm EXCEPT ![current] = Fresh("created", n)]
           /\ is_success' = "Succeeded" /\ pc' = "address"
           /\ UNCHANGED <<current, failed>>
  <2>1. vm'[current].state = "created"
    BY <1>1, <1>8, FreshVm
  <2>2. TypeOK'
    BY <1>1, <1>5, <1>8 DEF IInv, TypeOK
  <2>3. AtOneVm' /\ LogIsOwn' /\ NothingStale'
    BY <1>1, <1>8, <2>1 DEF AtOneVm, LogIsOwn, NothingStale
  <2>4. CountedAreReady'
    <3>1. \A c \in counted : c \in Vms \ {current}
      BY <1>2 DEF IInv, TypeOK
    <3>2. QED
      BY <1>1, <1>2, <1>5, <1>8, <3>1, CountedKept
  <2>5. QED
    BY <1>6, <2>2, <2>3, <2>4 DEF IInv
<1>9. QED
  BY <1>7, <1>8 DEF CreateVm

LEMMA GetAddressStep == ASSUME IInv, GetAddress PROVE IInv'
<1>1. /\ pc = "address" /\ pc' = "connect" /\ step' = 1 /\ retries' = 0
      /\ vm_ssh_info' \in {current, Nobody} /\ current \in Vms
      /\ UNCHANGED <<current, is_success, log, counted, failed, vm>>
  BY DEF GetAddress, IInv, AtOneVm
<1>2. 1 \in 1 .. Len(Plan) /\ 0 \in 0 .. MaxRetry /\ ~(1 > 4)
  BY PlanSteps, RetryAssumption
<1>3. TypeOK'
  BY <1>1, <1>2 DEF IInv, TypeOK
<1>4. AtOneVm' /\ VmsInOrder' /\ LogIsOwn' /\ CountedAreReady' /\ NothingStale'
  BY <1>1, <1>2 DEF IInv, AtOneVm, VmsInOrder, LogIsOwn, CountedAreReady,
       NothingStale
<1>5. QED
  BY <1>3, <1>4 DEF IInv

LEMMA TryConnectStep == ASSUME IInv, TryConnect PROVE IInv'
<1>1. /\ pc = "connect" /\ pc' \in {"connect", "run"}
      /\ UNCHANGED <<current, step, is_success, vm_ssh_info, log, counted,
                     failed, vm>>
  BY DEF TryConnect
<1>2. retries' \in 0 .. MaxRetry
  BY RetryAssumption DEF TryConnect, IInv, TypeOK
<1>3. TypeOK'
  BY <1>1, <1>2 DEF IInv, TypeOK
<1>4. AtOneVm' /\ VmsInOrder' /\ LogIsOwn' /\ CountedAreReady'
  BY <1>1 DEF IInv, AtOneVm, VmsInOrder, LogIsOwn, CountedAreReady
<1>5. step \in 1 .. Len(Plan) /\ (Plan[step] = "validation" => step > 4)
  BY PlanSteps DEF IInv, TypeOK
<1>6. NothingStale'
  BY <1>1, <1>5 DEF IInv, AtOneVm, LogIsOwn, NothingStale
<1>7. QED
  BY <1>3, <1>4, <1>6 DEF IInv

(* A step improves the current VM and no other, and the attestation step   *)
(* makes the log that VM's. *)
LEMMA RunStepStep == ASSUME IInv, RunStep PROVE IInv'
<1>. DEFINE s == Plan[step]
<1>1. /\ pc = "run" /\ s # "validation" /\ step' = step + 1 /\ pc' = "connect"
      /\ UNCHANGED <<current, retries, is_success, vm_ssh_info, counted, failed>>
      /\ current \in Vms /\ vm[current].state = "created"
      /\ vm_ssh_info \in {current, Nobody}
      /\ vm \in [Vms -> VmRecord] /\ vm[current] \in VmRecord
  BY DEF RunStep, IInv, AtOneVm, TypeOK
<1>2. /\ step \in 1 .. Len(Plan) /\ step' \in 1 .. Len(Plan)
      /\ s \in Steps /\ (s = "attestation") = (step = 4)
      /\ s = "service" => step > 4
  BY <1>1, PlanSteps DEF IInv, TypeOK
<1>3. PICK passed \in BOOLEAN :
          /\ log' = Logged(s, passed)
          /\ \A c \in Vms \ {current} : vm'[c] = vm[c]
          /\ vm' \in [Vms -> VmRecord]
          /\ vm'[current] = vm[current] \/ Improves(vm[current], vm'[current])
          /\ passed => vm'[current].attested
  <2>1. CASE vm' = vm /\ log' = Logged(s, FALSE)
    BY <1>1, <2>1
  <2>2. CASE /\ vm_ssh_info # Nobody
             /\ \E e \in Effects(s, vm[vm_ssh_info]), delivered \in BOOLEAN :
                   /\ vm' = [vm EXCEPT ![vm_ssh_info] = e.vm]
                   /\ log' = Logged(s, delivered /\ e.passed)
    <3>1. vm_ssh_info = current
      BY <1>1, <2>2
    <3>2. PICK e \in Effects(s, vm[current]), delivered \in BOOLEAN :
              /\ vm' = [vm EXCEPT ![current] = e.vm]
              /\ log' = Logged(s, delivered /\ e.passed)
      BY <2>2, <3>1
    <3>3. /\ Improves(vm[current], e.vm) /\ e.passed \in BOOLEAN
          /\ e.passed => e.vm.attested
      BY <1>1, <1>2, EffectImproves
    <3>4. e.vm \in VmRecord
      BY <3>3 DEF Improves
    <3>5. /\ vm'[current] = e.vm /\ vm' \in [Vms -> VmRecord]
          /\ \A c \in Vms \ {current} : vm'[c] = vm[c]
      BY <1>1, <3>2, <3>4
    <3>6. (delivered /\ e.passed) \in BOOLEAN
      OBVIOUS
    <3>7. QED
      BY <3>2, <3>3, <3>5, <3>6
  <2>3. QED
    BY <2>1, <2>2 DEF RunStep
<1>4. /\ vm'[current].state = "created"
      /\ vm[current].attested => vm'[current].attested
      /\ vm'[current].driver => vm'[current].package /\ vm'[current].kernel = "fit"
      /\ vm'[current].kernel = "fit" => vm'[current].installed = "fit"
  BY <1>1, <1>3 DEF Improves, IInv, VmsInOrder
<1>5. TypeOK'
  <2>1. log' \in [vm : Vms \cup {Nobody}, passed : BOOLEAN]
    <3>1. log \in [vm : Vms \cup {Nobody}, passed : BOOLEAN]
      BY DEF IInv, TypeOK
    <3>2. [log EXCEPT !.passed = @ \/ passed] \in [vm : Vms \cup {Nobody}, passed : BOOLEAN]
      BY <3>1
    <3>3. [vm |-> current, passed |-> passed] \in [vm : Vms \cup {Nobody}, passed : BOOLEAN]
      BY <1>1
    <3>4. QED
      BY <1>3, <3>1, <3>2, <3>3 DEF Logged
  <2>2. QED
    BY <1>1, <1>2, <1>3, <2>1 DEF IInv, TypeOK
<1>6. AtOneVm'
  BY <1>1, <1>4 DEF IInv, AtOneVm
<1>7. VmsInOrder'
  BY <1>1, <1>3, <1>4 DEF IInv, VmsInOrder
<1>8. LogIsOwn'
  <2>. SUFFICES ASSUME step' > 4
                PROVE  log'.vm = current /\ (log'.passed => vm'[current].attested)
    BY <1>1 DEF LogIsOwn
  <2>1. CASE s = "attestation"
    BY <1>3, <2>1 DEF Logged
  <2>2. CASE s # "attestation"
    <3>1. step > 4
      BY <1>1, <1>2, <2>2
    <3>2. log.vm = current /\ (log.passed => vm[current].attested)
      BY <1>1, <3>1 DEF IInv, LogIsOwn
    <3>3. CASE s = "service"
      <4>1. log' = [log EXCEPT !.passed = @ \/ passed]
        BY <1>3, <3>3 DEF Logged
      <4>2. log'.vm = log.vm /\ (log'.passed => log.passed \/ passed)
        BY <4>1 DEF IInv, TypeOK
      <4>3. QED
        BY <1>3, <1>4, <3>2, <4>2
    <3>4. CASE s # "service"
      <4>1. log' = log
        BY <1>3, <2>2, <3>4 DEF Logged
      <4>2. QED
        BY <1>4, <3>2, <4>1
    <3>5. QED
      BY <3>3, <3>4
  <2>3. QED
    BY <2>1, <2>2
<1>9. CountedAreReady'
  <2>1. current \notin counted /\ counted \subseteq Vms
    BY <1>1, NAssumption DEF IInv, AtOneVm, TypeOK, Vms
  <2>2. counted' \cap failed' = {}
    BY <1>1 DEF IInv, AtOneVm
  <2>3. QED
    BY <1>1, <1>3, <2>1, <2>2, CountedKept
<1>10. NothingStale'
  BY <1>1 DEF NothingStale
<1>11. QED
  BY <1>5, <1>6, <1>7, <1>8, <1>9, <1>10 DEF IInv

(* The validation counts the current VM only when it has its driver, and   *)
(* with it all that comes before the driver. *)
LEMMA ValidationStep == ASSUME IInv, Validation PROVE IInv'
<1>1. /\ pc = "run" /\ NextVm /\ current \in Vms
      /\ vm[current].state = "created" /\ vm_ssh_info \in {current, Nobody}
      /\ UNCHANGED <<step, retries, vm_ssh_info, log, vm>>
      /\ current \notin counted \cup failed /\ counted \cap failed = {}
  BY NAssumption DEF Validation, IInv, AtOneVm, Vms
<1>2. /\ is_success' \in {is_success, "failed"}
      /\ \/ /\ MayPass /\ counted' = counted \cup {current} /\ failed' = failed
         \/ failed' = failed \cup {current} /\ counted' = counted
  BY DEF Validation
<1>3. counted' \cap failed' = {}
  BY <1>1, <1>2
<1>4. /\ current' \in 1 .. N + 1 /\ pc' \in {"create", "done"}
      /\ AtOneVm' /\ LogIsOwn' /\ NothingStale'
  BY <1>1, <1>2, <1>3, NextVmStep
<1>5. TypeOK'
  BY <1>1, <1>2, <1>4 DEF IInv, TypeOK
<1>6. VmsInOrder'
  BY <1>1 DEF IInv, VmsInOrder
<1>7. CountedAreReady'
  <2>1. current \in counted' => /\ vm[current].package /\ vm[current].driver
                                /\ vm[current].kernel = "fit"
    <3>1. current \in counted' => MayPass
      BY <1>1, <1>2
    <3>2. MayPass => vm[current].driver
      BY <1>1 DEF MayPass
    <3>3. QED
      BY <1>1, <3>1, <3>2 DEF IInv, VmsInOrder
  <2>2. vm' \in [Vms -> VmRecord] /\ counted' \subseteq counted \cup {current}
    BY <1>1, <1>2 DEF IInv, TypeOK
  <2>3. QED
    BY <1>1, <1>3, <2>1, <2>2, CountedKept
<1>8. QED
  BY <1>4, <1>5, <1>6, <1>7 DEF IInv

(* A reboot, whenever it comes, keeps a kernel fit for the driver. *)
LEMMA RebootStep == ASSUME IInv, NEW k \in Vms, Reboot(k) PROVE IInv'
<1>. DEFINE w == [vm[k] EXCEPT !.rebooting = FALSE, !.kernel = vm[k].installed]
<1>1. /\ vm' = [vm EXCEPT ![k] = w]
      /\ UNCHANGED <<pc, current, step, retries, is_success, vm_ssh_info, log,
                     counted, failed>>
      /\ vm \in [Vms -> VmRecord] /\ vm[k] \in VmRecord
  BY DEF Reboot, scriptVars, IInv, TypeOK
<1>2. /\ w \in VmRecord /\ w.state = vm[k].state /\ w.package = vm[k].package
      /\ w.kernel = vm[k].installed /\ w.installed = vm[k].installed
      /\ w.driver = vm[k].driver /\ w.attested = vm[k].attested
      /\ ~w.rebooting
  BY <1>1 DEF VmRecord
<1>. HIDE DEF w
<1>3. /\ vm' \in [Vms -> VmRecord] /\ vm'[k] = w
      /\ \A c \in Vms \ {k} : vm'[c] = vm[c]
  BY <1>1, <1>2
<1>4. TypeOK'
  BY <1>1, <1>3 DEF IInv, TypeOK
<1>5. \A c \in Vms : /\ vm'[c].state = vm[c].state /\ vm'[c].package = vm[c].package
                     /\ vm'[c].driver = vm[c].driver
                     /\ vm'[c].installed = vm[c].installed
                     /\ vm'[c].attested = vm[c].attested
                     /\ vm'[c].kernel \in {vm[c].kernel, vm[c].installed}
                     /\ vm'[c].rebooting => vm[c].rebooting
  BY <1>2, <1>3
<1>6. VmsInOrder'
  BY <1>5 DEF IInv, VmsInOrder
<1>7. AtOneVm' /\ LogIsOwn'
  BY <1>1, <1>5 DEF IInv, AtOneVm, LogIsOwn
<1>8. CountedAreReady'
  <2>1. counted' = counted /\ counted \subseteq Vms /\ current \notin counted
    BY <1>1, NAssumption DEF IInv, TypeOK, AtOneVm, Vms
  <2>2. counted' \cap failed' = {}
    BY <1>1 DEF IInv, AtOneVm
  <2>3. QED
    BY <1>3, <1>5, <2>1, <2>2, CountedKept
<1>9. NothingStale'
  <2>1. step \in 1 .. Len(Plan) /\ (Plan[step] = "validation" => step > 4)
    BY PlanSteps DEF IInv, TypeOK
  <2>2. QED
    BY <1>1, <1>7, <2>1 DEF IInv, AtOneVm, LogIsOwn, NothingStale
<1>10. QED
  BY <1>4, <1>6, <1>7, <1>8, <1>9 DEF IInv

(* The invariant is inductive. *)
THEOREM Inductive == Spec => []IInv
<1>1. IInv /\ [Next]_vars => IInv'
  <2>1. ASSUME IInv, Next PROVE IInv'
    BY <2>1, PrepareStep, CreateVmStep, GetAddressStep, TryConnectStep,
       RunStepStep, ValidationStep, RebootStep DEF Next, Script
  <2>2. ASSUME IInv, UNCHANGED vars PROVE IInv'
    BY <2>2 DEF vars, scriptVars, IInv, TypeOK, AtOneVm, VmsInOrder, LogIsOwn,
         CountedAreReady, NothingStale
  <2>3. QED
    BY <2>1, <2>2
<1>2. QED
  BY <1>1, InitIInv, PTL DEF Spec

(* Every variable keeps its type, for any number of VMs and retries. *)
THEOREM TypeCorrect == Spec => []TypeOK
BY Inductive, PTL DEF IInv

(* A VM that counts was made by this run and has the package, a kernel fit *)
(* for the driver and the driver, though no step looked at the one before. *)
THEOREM CountedReady == Spec => []CountedAreReady
BY Inductive, PTL DEF IInv

(* No command reaches another VM than the current one, and no VM is judged *)
(* by the log of another.                                                  *)
THEOREM NoStaleness == Spec => []NothingStale
BY Inductive, PTL DEF IInv

(* A VM that was there before is left alone, by steps and by reboots. *)
THEOREM ForeignUntouched == Spec => ForeignVmsUntouched
<1>1. IInv /\ [Next]_vars =>
        [\A k \in Vms : vm[k].state = "foreign" => vm'[k] = vm[k]]_vars
  <2>. SUFFICES ASSUME IInv, Next, NEW k \in Vms, vm[k].state = "foreign"
                PROVE  vm'[k] = vm[k]
    OBVIOUS
  <2>1. vm \in [Vms -> VmRecord] /\ current \in 1 .. N + 1
    BY DEF IInv, TypeOK
  <2>2. CASE Prepare \/ GetAddress \/ TryConnect \/ Validation
    BY <2>2 DEF Prepare, GetAddress, TryConnect, Validation
  <2>3. CASE CreateVm
    <3>1. vm' = vm \/ \E n \in Kernels :
              NameIsFree /\ vm' = [vm EXCEPT ![current] = Fresh("created", n)]
      BY <2>3 DEF CreateVm, Kernels
    <3>2. QED
      BY <2>1, <3>1 DEF NameIsFree
  <2>4. CASE RunStep
    <3>1. vm_ssh_info \in {current, Nobody} /\ vm[current].state = "created"
      BY <2>4 DEF RunStep, IInv, AtOneVm
    <3>2. vm' = vm \/ \E w : vm' = [vm EXCEPT ![current] = w]
      BY <2>4, <3>1 DEF RunStep
    <3>3. QED
      BY <2>1, <3>1, <3>2
  <2>5. ASSUME NEW n \in Vms, Reboot(n) PROVE vm'[k] = vm[k]
    <3>1. n # k
      BY <2>5 DEF Reboot, IInv, VmsInOrder
    <3>2. QED
      BY <2>1, <2>5, <3>1 DEF Reboot
  <2>6. QED
    BY <2>2, <2>3, <2>4, <2>5 DEF Next, Script
<1>2. QED
  BY <1>1, Inductive, PTL DEF Spec, ForeignVmsUntouched

(* What run onboarding_service finds is no accident of an instance: no     *)
(* step makes the environment that the service looks for, so that on no VM *)
(* does the service that the onboarding enables have a verifier to run.    *)
THEOREM ServiceWithoutVerifier ==
    Spec => [](\A k \in Vms : ServicePython \notin vm[k].pythons)
<1>. DEFINE Missing == \A k \in Vms : ServicePython \notin vm[k].pythons
<1>1. Init => Missing
  BY DEF Init, Fresh
<1>2. ASSUME IInv, Missing, [Next]_vars PROVE Missing'
  <2>1. vm \in [Vms -> VmRecord] /\ vm_ssh_info \in Vms \cup {Nobody}
    BY <1>2 DEF IInv, TypeOK
  <2>2. CASE Prepare \/ GetAddress \/ TryConnect \/ Validation \/ UNCHANGED vars
    BY <1>2, <2>2 DEF Prepare, GetAddress, TryConnect, Validation, vars, scriptVars
  <2>3. CASE CreateVm
    <3>1. vm' = vm \/ \E n \in Kernels : vm' = [vm EXCEPT ![current] = Fresh("created", n)]
      BY <2>3 DEF CreateVm, Kernels
    <3>2. \A n : Fresh("created", n).pythons = {}
      BY DEF Fresh
    <3>3. QED
      BY <1>2, <2>1, <3>1, <3>2
  <2>4. CASE RunStep
    <3>1. CASE vm' = vm
      BY <1>2, <3>1
    <3>2. ASSUME vm_ssh_info # Nobody,
                 NEW e \in Effects(Plan[step], vm[vm_ssh_info]),
                 vm' = [vm EXCEPT ![vm_ssh_info] = e.vm]
          PROVE  Missing'
      <4>. DEFINE v == vm[vm_ssh_info]
      <4>1. v \in VmRecord /\ ServicePython \notin v.pythons
        BY <1>2, <2>1, <3>2
      <4>2. Plan[step] \in Steps
        BY <1>2, PlanSteps DEF IInv, TypeOK
      <4>. HIDE DEF v
      <4>3. e.vm.pythons \in {v.pythons, {StepPython}}
        <5>1. e \in Effects(Plan[step], v)
          BY <3>2 DEF v
        <5>2. Improves(v, e.vm)
          BY <4>1, <4>2, <5>1, EffectImproves
        <5>3. QED
          BY <5>2 DEF Improves
      <4>4. ServicePython \notin e.vm.pythons
        BY <4>1, <4>3 DEF ServicePython, StepPython
      <4>5. QED
        BY <1>2, <2>1, <3>2, <4>4
    <3>3. QED
      BY <2>4, <3>1, <3>2 DEF RunStep
  <2>5. ASSUME NEW k \in Vms, Reboot(k) PROVE Missing'
    BY <1>2, <2>1, <2>5 DEF Reboot, VmRecord
  <2>6. QED
    BY <1>2, <2>2, <2>3, <2>4, <2>5 DEF Next, Script
<1>3. QED
  BY <1>1, <1>2, Inductive, PTL DEF Spec
=============================================================================
