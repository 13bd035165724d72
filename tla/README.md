# A TLA+ model of the confidential GPU onboarding

This directory holds TLA+ modules that model the control flow of
`az-cgpu-onboarding`: the local GPU verifier (Python), the HTTP service around
it (Go) and the onboarding scripts (bash). TLC checks them on small instances,
and TLAPS proves every safety property and refinement that TLC checks to hold, for
any number of GPUs, clients or VMs, any reports and RIMs, any certificates.
Paths below are relative to the repository root.

## The system

| Component | State it keeps | Operations | Interacts with |
|---|---|---|---|
| **Verifier run** `src/local_gpu_verifier/src/verifier/cc_admin.py` | `settings` of the GPU at hand, `overall_status`, claims, `driver_rim`/`vbios_rim`; the driver keeps the GPU ready state | collect evidence, attest GPU by GPU, set the ready state, print the token, exit 0 or 1 | NVML, RIM service, OCSP service |
| **Timed calls** `utils/__init__.py` | per call: a thread, a queue, an event | start, deliver, give up | the four NVML wrappers, both fetches |
| **Revocation check** `cc_admin_utils.py:216-432` | index into the chain, warnings | ask, fall back, verify the response | configured OCSP service, NVIDIA's |
| **RIM fetch** `cc_admin_utils.py:498-599` | the RIM wanted | ask, fall back, fail | configured RIM service, NVIDIA's |
| **Certificate chains** `nvml/gpu_cert_chains.py`, `cc_admin_utils.py:76-170`, `rim/__init__.py:189-247` | the chain, the store of trusted certificates | extract, replace the root, verify; verify OCSP signers | NVML, the RIM, the revocation check |
| **Attestation report** `attestation/` | measurement blocks, opaque data | parse by claimed lengths, hold against nonce, versions and signature | NVML |
| **Measurements** `verifier.py`, `rim/` | golden measurement lists | list, merge, compare | the attestation report |
| **Attestation service** `local_gpu_verifier_http_service/…/main.go` | `attestationMutex`, two servers, one goroutine per request | accept, validate, run the verifier, answer; readiness probe | clients, the verifier process, systemd |
| **Onboarding script** `cgpu-h100-auto-onboarding.sh` | globals `is_success`, `vm_ssh_info`, `successCount`; `attestation-output.log` | create a VM, run the steps over ssh, validate | Azure, the VMs |
| **Steps on the VM** `step-*.sh`, `utilities-*.sh` | packages, kernel, driver, verifier, service | install, reboot | apt, the VM |
| **CMK scripts**, **PowerShell variants**, **dev tools** | – | deploy keys; the same on Windows; packaging | Azure |

What is hard in it, and hardly reached by a test (the repository has none):

* **Early exits of `attest()`**. A failing check raises, a failing fetch calls
  `sys.exit()`, and a `return` in the `finally` clause swallows both. What a run
  says then depends on what the GPUs before left in `overall_status` and
  `settings`.
* **Threads that are given up and go on.** Every network and driver call runs in
  a thread; after the timeout the caller goes on while the thread may still set
  the ready state, retry or deliver.
* **Two services for everything.** The fallback has its own nonce rule, and
  RIMs fall back only when the services differ.
* **Lengths that need not agree.** A report names the length of its record, of
  each block, of the value in it and of its opaque data; Python's slices are
  silently short, and indices start from 1 in reports and from 0 in RIMs.
* **A store that trusts what it has verified.** Chains bring a root of their own,
  which must never become the anchor, and one function serves chains of the GPU,
  the RIMs and the OCSP signers under different rules.
* **One verifier, many requests.** Two listeners, a mutex, write deadlines that
  end the connection and not the handler, exits that leave processes behind.
* **Scripts that look at no result.** Steps that failed or were cut off by a
  reboot are followed by the next; globals and a log outlive their VM.

`PROJECT.json` lists the hazards at their lines, with the properties that
cover them.

## Modules

| Module | Models |
|---|---|
| `GpuAttestation` | one run of the verifier |
| `TimedCalls` | `function_wrapper_with_timeout` around a fetch with retries; extended by the next two |
| `RevocationCheck` | `ocsp_certificate_chain_validation` |
| `RimFetch` | the fetches of a GPU's two RIM files |
| `OrderedFetch` | abstract: items got in order, each from one service or the other |
| `CertificateChain` | the certificate chains and the signers of OCSP responses |
| `AttestationReport` | reading a report; extended by the next one |
| `Measurements` | the golden measurements and their comparison with the report |
| `AttestationService` | the service: listeners, handlers, mutex, probe, exit, restart |
| `SerialAttestation` | abstract: one verifier at a time, run before the answer |
| `Onboarding` | the onboarding script and what its steps leave on the VMs |
| `MC…` | the instances TLC checks |
| `…Proofs` | the theorems |

How they fit together. `GpuAttestation` takes the outcome of a RIM fetch or a
revocation check as one step; `RimFetch` and `RevocationCheck` open these steps
and are shown to implement `OrderedFetch`, in which a fetch is a step without
threads or late answers. `CertificateChain` and `Measurements` open the steps
`ValidateCertChain` and `ParseReport`, `VerifyAttestationReport`,
`CompareMeasurements` in the same way: their verdict is the outcome
`GpuAttestation` takes as `defect[g]`. What `RevocationCheck` calls a trusted or
rejected signer is what `CertificateChain` finds of it. `AttestationService` takes a verifier run as one
process with an exit code, a success message and a token; that exit code 0
comes with the message and a passing token, its `OutcomesAssumption`, is what
the theorem `ExitZero` says of `GpuAttestation`. `Onboarding` takes a run of
the verifier, directly or through the service, as a step that may succeed when
driver and Python environment are there.

### `GpuAttestation`

`pc` follows the main thread: `nonce`, `init_nvml`, `collect`, `configure`, then
per GPU `settings … record`, and `except`, `finally`, `setReady`, `token`,
`done`. What a GPU's evidence is worth is `defect[g]`, the first check that
GPU would fail; each action only asks for its own check. `settings` records
whose object it is (`gpu`) and which flags are marked, so that the claims can be
compared with the GPU they speak for. `rims` keeps the two locals apart, because
a VBIOS RIM read from a file is assigned to `driver_rim` (line 581). A set-ready
call that times out leaves `pending` behind, and `LateSetReady` is its thread.
Of the command line `opts` keeps what changes the run: `configOk` is a claims
version and URLs that are not refused, `rimRoot` is `--rim_root_cert`, which fails
in the same place for want of the method line 415 calls.
`ready` may be TRUE from the start: an earlier run, or the `ExecStartPost` of
`nvidia-persistenced.override.conf`, may have set it.

### `TimedCalls`, `RevocationCheck`, `RimFetch`

`calls` is the sequence of all calls ever made, each with its worker, its retries,
its queue and what became of the caller. A timeout may strike whenever the
queue is empty. Workers have no fairness: `urlopen` has no timeout. A response
is a record of what the code looks at; `Obstacles` lists the checks in the
code's order with the verdict or exception each ends in, and `GoodEnough`, in
the property, says without an order what a response must be.

### `CertificateChain`

`source` is what was presented: the PEM blocks NVML returned, or the
`X509Certificate` elements of a RIM. `Extract` refuses what cannot be read (a RIM's
last certificate is not even loaded), drops the last one and appends the local
root, `Rooted`. `CheckFwid` and `Count` apply to the GPU only. `VerifyNext` is one
turn of the loop in `verify_certificate_chain`; the same loop runs again for each
OCSP signer (`JudgeSigner`), in front of what is left of the chain, in the order
in which `ocsp_certificate_chain_validation` asks. `RejectOtherwise` is whatever
else ends that check, be it a question without a usable response or the response
of the signer just verified; these are `RevocationCheck`'s. OpenSSL is the relation
`Signs`. `NoCertificateError` cannot happen, for every caller appends a root.

### `AttestationReport`, `Measurements`

Bytes are counted and not spelled: a byte string is a value and the number of its
bytes that are there. A report is a record of every length it claims, of the
blocks and fields as they read one after another, and of whether its last 96 bytes
sign the rest; none of the lengths need agree. `at` is the `byte_index` of the
parser's loops, `blocks` and `opaque` are its dictionaries, in which a later item
takes the place of an earlier one. Where the bytes run out, `Slice` is short and
the actions fail where the code would raise. Of the opaque data's types those are
kept that are treated or read differently. `VerifyReport` compares nonce, versions
and signature in one step, since each of them fails alike.

`Measurements` goes on with the two RIMs (`ParseEntry`, `EndRim`), their `Merge`,
and one `CompareIndex` per golden index, in any order: only the set of mismatched
indices is used. The RIM's XML is a sequence of entries. `NvdecDisabled` is FALSE,
because the code compares bytes with the member of an `Enum`.

### `AttestationService`

`pc[c]` is where the handler of client `c` is, `procs` the verifier processes
alive, which survive the service until `KillGroup`. `Expire` is the write
deadline or a client that hangs up: the handler goes on and its answer is `Lost`.
A client that retries while its old handler runs is another member of `Clients`.
The heartbeat report after the first success only logs and is left out.

### `Onboarding`

One action per stage; `RunStep` runs the step `Plan[step]` with any outcome: nothing
done, done, or done with the output lost. `Effects` says what a step needs and
leaves (package, kernel, driver, docker, Python environments, service). `Reboot`
may come at any time after step 0. Azure and the VMs are external.

## What TLC checks

| Run | Instance | Shows |
|---|---|---|
| `gpu_attestation` | 2 GPUs, every defect of each, 7 command lines | `OverallSound`, `ClaimsFaithful`, `ExitZeroMeansReady`, `FailureHasCause`, `ReadyOnlyIfAttested`, `RunEnds` |
| `attestation_service` | 2 clients, one per listener, one request each of 6 kinds, 4 outcomes, 2 probes | `OneVerifier`, `MutexNotLeaked`, `NoFailingClaims`, refinement of `SerialAttestation`, `RequestEnds`, `FailureRestarts` |
| `revocation_check` | chains with 2 questions in each mode, 1 retry, 8 responses | `ValidMeansChecked`, `AskedInOrder`, refinement of `OrderedFetch`, `CheckEnds` |
| `rim_fetch` | both RIMs, 2 retries | `RimsAreTheirOwn`, `ErrorMeansAllTried`, refinement of `OrderedFetch`, `FetchEnds` |
| `certificate_chain` | every chain of up to 4 of 6 certificates and garbage, and some of 5; 2 local roots and a foreign one; any signers | `AcceptedIsAnchored`, `WellMadePasses`, `VerificationEnds` |
| `measurements` | 57 reports of 2 blocks, one length, index, block, field or value changed at a time, with 60 pairs of RIMs | `RecordExact`, `VerdictMeansMatch`, `OneEntryPerIndex`, `MatchMeansVerdict`, `RunEnds` |
| `onboarding` | 2 VMs, 2 connection attempts, service enabled | `CountedAreReady`, `NothingStale`, `ForeignVmsUntouched`, `EveryVmIsTried` |

Each module also has its `TypeOK`. Why the bounds are enough:

* Two GPUs: what one GPU leaves for the next goes through `overall`, `settings`,
  `rims` and `claims` only, so the second GPU sees all there is to inherit; the
  proofs cover the rest. The command lines are the service's and one deviation
  at a time.
* Two clients meet at the mutex in every order, and one of them can be left
  behind by an exit and a restart while the other comes in; `MaxAttempts` 1
  bounds the requests. `MaxProbes` 2 (30 in the code) has a failed probe before
  the last one.
* Two questions give an answer that comes late a later call to disturb. The
  responses are a good one at its boundaries and one deviation at a time,
  with hours chosen around the extension (2) and the grace periods (1 and 3).
  The nonce of the configured service is off, so that it differs from
  the fallback's, the case of an OCSP service other than NVIDIA's. One retry
  is one more than none.
* `MaxChainLength` is 4 (5 in the code), so that a GPU's chain has a certificate
  with two possible issuers in it and one signer is asked about with another
  certificate behind it; RIM chains have up to three signers. Shorter, longer,
  garbled, reordered, doubled and foreign chains are all among the sources.
* Two blocks have an order, a doubled index and a gap; the changed lengths cut every
  field at its start, middle and last byte. Two entries per RIM suffice for a
  doubled, an inactive, a conflicting and a missing index. `NvdecIndex` 1 (35 in
  the code) makes the index that might be skipped one of the two. The proofs
  have no such bounds.
* Two VMs are what stale globals need; a third sees nothing new.

Five further runs state what a document or comment of the repository says and
the code does not do. TLC finds each violated; `PROJECT.json` quotes the line.

| Run | The code |
|---|---|
| `every_gpu_verified` | sets the ready state of two GPUs although the attestation of the second one raised (`cc_admin.py:657`) |
| `local_vbios_rim` | fails every sound GPU when `--vbios_rim` is given (`cc_admin.py:581`) |
| `servers_restart` | exits with 0 when both servers have failed, which systemd does not restart (`main.go:285`) |
| `onboarding_attested` | counts a VM whose attestation failed as a success (`cgpu-h100-auto-onboarding.sh:553`) |
| `onboarding_service` | enables a service that looks for `prodtest`, where step 2 has made `.venv` (`main.go:436`) |

Three more of the kind are known and have no run: `--rim_root_cert`, which the
verifier's README offers (lines 97 and 118), fails every attestation, since
`cc_admin.py:415` calls a method that does not exist (the theorem
`RimRootNeverPasses`); a failed attestation is answered with 500 (`main.go:407`)
where the service's README has 400; and the thread of a timed-out call is not
killed (`utils/__init__.py:234`), as its docstring has it.

The first needs two GPUs; on the one-GPU machines the script creates,
`EveryGpuVerified` is the theorem `SingleGpu`. Its trace is the shortest of
several: a RIM that cannot be fetched (the `sys.exit()` at `:556` and `:624`,
which the `return` in the `finally` clause swallows) skips the GPUs that are left
and sets the ready state in the same way. A GPU whose evidence cannot be
collected (`:244`) is not even on the list, and `EveryGpuVerified` does not ask
for it.

### Fairness

* `GpuAttestation`: weak fairness of the main thread only; every call but the
  IMDS query (`config.py:194`) has a timeout. `RunEnds` says that the main
  thread ends: a worker that hangs is not a daemon thread and would keep the
  Python process alive.
* `RevocationCheck`, `RimFetch`: weak fairness of the caller, none of the workers.
* `CertificateChain`, `Measurements`: weak fairness of the one thread; nothing in
  them waits, but for the questions of the revocation check, which `CheckEnds`
  is about.
* `AttestationService`: goroutines that can move do; strong fairness of `Lock`
  because `sync.Mutex` hands itself to a waiter that starves (1 ms); a
  verifier process ends, which a hung worker or IMDS query would break; systemd
  kills what is left in the control group and restarts after 5 s (one attempt
  lasts at least the 30 s of probes, under the default start limit). A listener
  that starts is made or cannot be. None for clients, deadlines, kills, or the
  failure of a server that listens: without such a failure to rescue it, a mutex
  left locked is a violation of `RequestEnds`.
* `Onboarding`: weak fairness of the script: ssh ends after 10 unanswered
  keepalives of 60 s; `scp`, `az` and the dpkg wait of step 1 are assumed to end.
  None of the VMs.

## What is proved

Every invariant, action property and refinement of the runs that pass is a theorem
for all values of the constants; liveness is not. Each proof rests on an
inductive invariant made of named parts: `IInv`, at the end of the module it is about,
and `SInv` in `AttestationServiceProofs`. TLC finds none of them violated on the instances
of the runs above. Assumptions are those named `…Assumption` in the
modules; TLC evaluates them in the runs.

`GpuAttestationProofs`, for every `N` and every set of command lines:
`TypeCorrect`, `OverallSoundness`, `ClaimsAreFaithful`, `ExitZero`, `ReadyOnly`,
`SingleGpu`, `FailureCause`, `VbiosFileNeverPasses` and `RimRootNeverPasses`.
`IInv` says where in the loop the thread is and how many claims there are (`LocationInv`), that the
settings hold no mark their own GPU does not deserve (`MarksInv`), that claims
made inside the loop are the GPU's own (`ClaimsInv`), that a TRUE `overall` has
sound evidence behind every claim until an exception adds one (`OverallInv`), and
that an abandoned set-ready call belongs to a run that could set it (`ExitInv`).
`OverallSound` alone is not inductive: without `MarksInv` nothing ties the
eighteen flags to the GPU at hand. `FailureCause` is the other direction: a token
fails for a cause, and without the two options the code cannot serve no sound
system is turned away. It needs the marks that are there and not only
those that are not: `Achieved` lists what a sound GPU has been granted at each
point, so that at `record` its status is TRUE; `SoundInv` adds that nothing raises,
that `overall` stays TRUE, and that the loop ends without a claim only when the
evidence is incomplete. `VbiosFileNeverPasses` is the general form of what the run
`local_vbios_rim` finds; `RimRootNeverPasses` says the same of `--rim_root_cert`,
and that no GPU is attested at all.

`RimFetchProofs` and `RevocationCheckProofs`, for any retries, and for chains of any
length, any responses and settings. What they share is in
`TimedCallsProofs`: making a call adds one and leaves the others (`CallStep`), a
worker's round touches only its own call and only while its queue is empty
(`FetchStep`), the caller settles its last call and no other (`SettleStep`).
`OneAnswer` is why nothing replaces what the caller has taken; a call
given up may still be answered, and the invariants hold whatever then comes.

* `OwnRims` and `AllTried`: the last call is for the file at hand (`CurrentCall`), a
  queue only ever holds the file of its own call (`OwnAnswers`), and a call of
  NVIDIA's service has a failed one of the configured service behind it
  (`ServicesAsked`).
* `ValidChecked` and `InOrder`: exactly the certificates before `i` have been accepted
  (`Progress`), each by the answer of a call that was for it, was taken in time and
  is good enough (`AcceptedInv`). That a response which meets none of the `Obstacles`
  is `GoodEnough` is the lemma `NoObstacle`.
* `Implements`, in both: `FetchState` maps the main thread to `OrderedFetch`; every
  step of a worker is a stutter, each step of the caller one step of it or a stutter.

`OnboardingProofs`, for any number of VMs and connection attempts, with or without
the service: `CountedReady`, `NoStaleness`, `ForeignUntouched` and
`ServiceWithoutVerifier`. No step looks at the one before, so the chain from the
driver back to a kernel that is fit and to the package is kept per VM
(`VmsInOrder`); it survives a reboot because a fit kernel is also the one installed.
What has been counted lies behind `current` (`AtOneVm`), and from the fourth step
on the log is that of the current VM (`LogIsOwn`). Every step that may run
on a VM only improves it (`EffectImproves`). `ServiceWithoutVerifier` is the general
form of what the run `onboarding_service` finds.

`AttestationServiceProofs`, for any clients, requests, outcomes and bounds:
`TypeCorrect`, `VerifiersApart`, `MutexReleased`, `ClaimsOfPassingRuns` and
`Implements`. The invariant ties `holder` to the handlers in the critical section
and `procs` to them while the service is up; that a restart waits for
the control group to be empty closes the gap left by an exit. The refinement maps
each action to a step of `SerialAttestation` or to a stutter; an exit
maps to `Abort`.

`MeasurementsProofs`, for any set of reports, whatever lengths and indices they
claim, and any RIMs: `TypeCorrect`, `RecordIsExact`, `VerdictSound`, `OneEntry` and
`MatchAccepted`. The code never checks that indices are distinct, only that each
of 1 to N is there; the invariant counts: after n blocks there are at most n
indices (`BlocksAreOf`), so that N blocks with all of 1 to N have each once. Values
are known only while the blocks stay inside the record (`ValuesAreOf`); once one
reaches past it, `at` can only grow and the record is refused. `Listed` ties a
RIM's table to its entries, `ComparedInv` an empty list of mismatches to the indices
already compared. `MatchAccepted` says that a report whose sizes agree is never
refused: `AgreeInv` keeps `at` equal to the size of what has been read
(`SizesUpTo`), the golden measurements among the active entries and the list of
mismatches empty. That sums of sizes unfold and grow (`SizesUnfold`, `SizesGrow`)
would be an induction; it is shown by the least number for which it would fail
(`LeastElement`), since the library's induction rule cannot be instantiated here.

`CertificateChainProofs`, for any certificates, whoever signed whom, and chains
of any length: `TypeCorrect`, `Anchored` and `WellMadeChainsPass`. The invariant has
the store equal to the part of the list behind `index`, every certificate of it
signed by one behind it (`StoreInv`); when `index` gets to 0 the whole list hangs
together, which `AnchoredInv` keeps for the chain and `SignersInv` for each signer
while the store is used again. That a self-signed certificate in the middle cannot
pass is a consequence.

Only model-checked: liveness, since the prover knows neither fairness nor ENABLED.
These are `RunEnds` (of the verifier and of the measurements), `RequestEnds`,
`FailureRestarts`, `CheckEnds`, `FetchEnds`, `EveryVmIsTried` and `VerificationEnds`.
TLC's five counterexamples are runs of the small instances, two of them with a
general form above.

## Not modelled, and the plan

Not modelled, and why:

* The contents of certificates, signatures, XML and hashes: libraries compute
  them; they are relations and outcomes here.
* The NVML library, Azure, apt: external, each an outcome of the call that uses it.
* `utilities-update-kernel.sh`, `cgpu-deploy-cmk-des.sh`: sequences of commands
  whose state is in apt's hooks, the firmware's boot order or Azure. What they do
  wrong depends on how these behave, so that a model would mostly assume it.
* PowerShell variants (the same procedures), `dev_tools`, `docs`, Docker build, sample
  workload, logging and wording. The warnings that do not change a verdict are
  left out, but for those of the revocation check.
* A verifier that hangs (`main.go:448`): the service has no timeout for it, so that
  no later request would ever be answered; `RequestEnds` assumes that a run ends.

Next:

1. Simplify the proofs: the lemmas about appending to and updating one element of
   a sequence are stated in more than one module in forms close to each other.
2. The safe side of what the violated runs show: which outcomes of the steps on a VM
   leave it counted and not attested.
