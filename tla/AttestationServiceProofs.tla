----------------------- MODULE AttestationServiceProofs -----------------------
(***************************************************************************)
(* What AttestationService guarantees for every number of clients: one     *)
(* verifier at a time, a mutex that is never left locked, no claims of a   *)
(* failed run, and the abstract specification SerialAttestation.           *)
(***************************************************************************)
EXTENDS AttestationService, TLAPS

PCs == {"idle", "handling", "waiting", "reply"} \cup Critical

Runs == OutcomeRecord \cup {NoRun, NotStarted}

(* A service that is down runs no handler. *)
DownInv == phase # "up" => \A c \in Clients : pc[c] = "idle"

(* What cmd.Run() leaves behind is an outcome of the verifier. *)
RunInv == \A c \in Clients : run[c] \in Outcomes \cup {NoRun, NotStarted}

(* A handler about to respond has a run behind it. *)
ReplyInv ==
    \A c \in Clients : pc[c] \in {"unlock", "reply"} => run[c] # NoRun

(* What Validate turns down goes no further. *)
AdmittedInv ==
    \A c \in Clients :
        pc[c] \notin {"idle", "handling"} => RejectStatus(request[c]) = 0

SInv ==
    /\ TypeOK /\ OneVerifier /\ MutexNotLeaked /\ NoFailingClaims
    /\ DownInv /\ RunInv /\ ReplyInv /\ AdmittedInv

(* The fixed responses are responses. *)
LEMMA BareType ==
    ASSUME NEW s \in {0, -1, 200, 400, 405, 500}
    PROVE  Bare(s) \in Answers /\ Bare(s).token = "nil" /\ Bare(s).status = s
BY DEF Bare, Answers

(* A rejected request is answered with one of two statuses. *)
LEMMA RejectType == \A r : RejectStatus(r) \in {0, 400, 405}
BY DEF RejectStatus

(* The initial states satisfy the invariant. *)
LEMMA InitSInv == Init => SInv
<1>. SUFFICES ASSUME Init PROVE SInv
  OBVIOUS
<1>. USE ClientsAssumption
<1>1. TypeOK
  <2>1. \A c \in Clients : answer[c] \in Answers
    BY BareType DEF Init, NoAnswer
  <2>2. answer \in [Clients -> Answers]
    BY <2>1 DEF Init
  <2>3. probes \in {Ready} \cup 0 .. MaxProbes - 1
    BY BoundsAssumption DEF Init
  <2>4. attempts \in [Clients -> 0 .. MaxAttempts]
    BY BoundsAssumption DEF Init
  <2>5. QED
    BY <2>2, <2>3, <2>4 DEF Init, TypeOK, Critical
<1>2. OneVerifier /\ MutexNotLeaked
  BY DEF Init, OneVerifier, MutexNotLeaked, Critical
<1>3. NoFailingClaims
  BY BareType DEF Init, NoFailingClaims, NoAnswer
<1>4. DownInv /\ RunInv /\ ReplyInv /\ AdmittedInv
  BY DEF Init, DownInv, RunInv, ReplyInv, AdmittedInv
<1>5. QED
  BY <1>1, <1>2, <1>3, <1>4 DEF SInv

-----------------------------------------------------------------------------
(* Ending a handler keeps the types, whatever the response. *)
LEMMA RespondType ==
    ASSUME TypeOK, NEW c \in Clients, NEW r \in Answers, Respond(c, r)
    PROVE  /\ answer' \in [Clients -> Answers]
           /\ pc' \in [Clients -> PCs]
           /\ request' \in [Clients -> RequestRecord \cup {NoRequest}]
           /\ run' \in [Clients -> Runs]
           /\ expired' \subseteq Clients
<1>1. Lost \in Answers
  BY BareType DEF Lost
<1>2. QED
  BY <1>1 DEF Respond, TypeOK, PCs, Runs

(* What Reply sends, and what it says about the run behind it. *)
LEMMA ReplyResponse ==
    ASSUME SInv, NEW c \in Clients, Reply(c)
    PROVE  \E r \in Answers :
              /\ Respond(c, r)
              /\ r.token # "fail" /\ (r.token = "pass" => r.status = 200)
<1> DEFINE r == [status |-> IF run[c].banner THEN 200 ELSE 400,
                 token  |-> ParsedToken(run[c]),
                 nonce  |-> Nonce(request[c])]
<1>1. CASE run[c].exit # 0
  BY <1>1, BareType DEF Reply
<1>2. CASE run[c].exit = 0
  <2>1. run[c] \in Outcomes
    BY <1>2 DEF SInv, RunInv, ReplyInv, Reply, NotStarted
  <2>2. run[c].banner = TRUE /\ run[c].token = "pass"
    BY <1>2, <2>1, OutcomesAssumption DEF OutcomeRecord
  <2>3. ParsedToken(run[c]) \in {"nil", "pass"}
    BY <2>2 DEF ParsedToken
  <2>4. Nonce(request[c]) \in {"absent", "valid"}
    <3>. request[c] \in RequestRecord \cup {NoRequest}
      BY DEF SInv, TypeOK
    <3>. RejectStatus(request[c]) = 0
      BY DEF SInv, AdmittedInv, Reply
    <3>. QED
      BY DEF Nonce, RejectStatus, RequestRecord, NoRequest
  <2>5. r \in Answers /\ r.token # "fail" /\ r.status = 200
    BY <2>2, <2>3, <2>4 DEF Answers
  <2>6. Respond(c, r)
    BY <1>2 DEF Reply
  <2>7. QED
    BY <2>5, <2>6
<1>3. QED
  BY <1>1, <1>2

(* One step per operation; each leaves most of the invariant alone. *)
LEMMA NextSInv ==
    ASSUME SInv, [Next]_vars
    PROVE  SInv'
<1>. USE ClientsAssumption
<1> DEFINE Safe == OneVerifier /\ MutexNotLeaked /\ DownInv
<1> DEFINE Data == RunInv /\ ReplyInv /\ AdmittedInv
<1>0. TypeOK /\ Safe /\ Data /\ NoFailingClaims
  BY DEF SInv
<1>. USE DEF OneVerifier, MutexNotLeaked, DownInv, RunInv, ReplyInv,
             AdmittedInv, Critical
<1>1. ASSUME NEW c \in Clients, Receive(c) PROVE SInv'
  <2>1. TypeOK'
    <3>1. answer' \in [Clients -> Answers]
      BY <1>0, <1>1, BareType DEF Receive, TypeOK, NoAnswer
    <3>2. attempts' \in [Clients -> 0 .. MaxAttempts]
      BY <1>0, <1>1, BoundsAssumption DEF Receive, TypeOK
    <3>3. request' \in [Clients -> RequestRecord \cup {NoRequest}]
      BY <1>0, <1>1, RequestsAssumption DEF Receive, TypeOK
    <3>4. QED
      BY <1>0, <1>1, <3>1, <3>2, <3>3 DEF Receive, TypeOK
  <2>2. Safe' /\ Data'
    BY <1>0, <1>1 DEF Receive, TypeOK
  <2>3. NoFailingClaims'
    BY <1>0, <1>1, BareType DEF Receive, TypeOK, NoFailingClaims, NoAnswer
  <2>4. QED
    BY <2>1, <2>2, <2>3 DEF SInv
<1>2. ASSUME NEW c \in Clients, Validate(c) PROVE SInv'
  <2>1. CASE RejectStatus(request[c]) = 0
    BY <1>0, <1>2, <2>1 DEF Validate, SInv, TypeOK, NoFailingClaims
  <2>2. CASE RejectStatus(request[c]) # 0
    <3>1. /\ Respond(c, Bare(RejectStatus(request[c])))
          /\ UNCHANGED <<phase, listen, probes, holder, procs, attempts>>
      BY <1>2, <2>2 DEF Validate
    <3>2. Bare(RejectStatus(request[c])) \in Answers
      BY RejectType, BareType
    <3>3. TypeOK'
      BY <1>0, <3>1, <3>2, RespondType DEF TypeOK, PCs, Runs
    <3>4. Safe' /\ Data'
      BY <1>0, <1>2, <3>1 DEF Validate, Respond, TypeOK
    <3>5. NoFailingClaims'
      BY <1>0, <3>1, RejectType, BareType
         DEF Respond, TypeOK, NoFailingClaims, Lost
    <3>6. QED
      BY <3>3, <3>4, <3>5 DEF SInv
  <2>3. QED
    BY <2>1, <2>2
<1>3. ASSUME NEW c \in Clients, Lock(c) PROVE SInv'
  <2>1. TypeOK'
    BY <1>0, <1>3 DEF Lock, TypeOK, PCs
  <2>2. Safe' /\ Data'
    BY <1>0, <1>3 DEF Lock, TypeOK
  <2>3. NoFailingClaims'
    BY <1>0, <1>3 DEF Lock, NoFailingClaims
  <2>4. QED
    BY <2>1, <2>2, <2>3 DEF SInv
<1>4. ASSUME NEW c \in Clients, StartVerifier(c) PROVE SInv'
  BY <1>0, <1>4 DEF StartVerifier, SInv, TypeOK, NoFailingClaims, NoRun,
     NotStarted
<1>5. ASSUME NEW c \in Clients, VerifierExits(c) PROVE SInv'
  <2>1. CASE pc[c] = "running"
    <3>1. PICK o \in Outcomes : run' = [run EXCEPT ![c] = o]
      BY <1>5, <2>1 DEF VerifierExits
    <3>2. o # NoRun /\ o \in OutcomeRecord
      BY OutcomesAssumption DEF NoRun
    <3>3. QED
      BY <1>0, <1>5, <2>1, <3>1, <3>2
         DEF VerifierExits, SInv, TypeOK, NoFailingClaims
  <2>2. CASE pc[c] # "running"
    BY <1>0, <1>5, <2>2 DEF VerifierExits, SInv, TypeOK, NoFailingClaims
  <2>3. QED
    BY <2>1, <2>2
<1>6. ASSUME NEW c \in Clients, Unlock(c) PROVE SInv'
  BY <1>0, <1>6 DEF Unlock, SInv, TypeOK, NoFailingClaims
<1>7. ASSUME NEW c \in Clients, Reply(c) PROVE SInv'
  <2>1. PICK r \in Answers :
           /\ Respond(c, r)
           /\ r.token # "fail" /\ (r.token = "pass" => r.status = 200)
    BY <1>7, ReplyResponse
  <2>2. /\ UNCHANGED <<phase, listen, probes, holder, procs, attempts>>
        /\ pc[c] = "reply"
    BY <1>7 DEF Reply
  <2>3. TypeOK'
    BY <1>0, <2>1, <2>2, RespondType DEF TypeOK, PCs, Runs
  <2>4. Safe' /\ Data'
    BY <1>0, <2>1, <2>2 DEF Respond, TypeOK
  <2>5. NoFailingClaims'
    BY <1>0, <2>1, BareType DEF Respond, TypeOK, NoFailingClaims, Lost
  <2>6. QED
    BY <2>3, <2>4, <2>5 DEF SInv
<1>8. ASSUME NEW c \in Clients, Expire(c) PROVE SInv'
  BY <1>0, <1>8 DEF Expire, InFlight, SInv, TypeOK, NoFailingClaims
<1>9. ASSUME NEW l \in Listeners, Listen(l) \/ ServerFails(l) PROVE SInv'
  BY <1>0, <1>9 DEF Listen, ServerFails, SInv, TypeOK, NoFailingClaims
<1>10. ASSUME NEW how \in {"failure", "clean"}, Exit(how) PROVE SInv'
  <2>1. Lost \in Answers /\ Lost.token = "nil"
    BY BareType DEF Lost
  <2>2. TypeOK'
    BY <1>0, <1>10, <2>1 DEF Exit, TypeOK
  <2>3. Safe' /\ Data'
    BY <1>0, <1>10 DEF Exit, TypeOK
  <2>4. NoFailingClaims'
    BY <1>0, <1>10, <2>1 DEF Exit, TypeOK, NoFailingClaims
  <2>5. QED
    BY <2>2, <2>3, <2>4 DEF SInv
<1>11. CASE Probe
  <2>1. CASE Exit("failure")
    BY <1>10, <2>1
  <2>2. CASE ~Exit("failure")
    <3>1. PICK alive \in ProbeAnswers :
             /\ ~(~alive /\ probes + 1 = MaxProbes)
             /\ probes' = IF alive THEN Ready ELSE probes + 1
             /\ UNCHANGED <<phase, listen, pc, request, run, holder, procs,
                            expired, answer, attempts>>
      BY <1>11, <2>2 DEF Probe
    <3>2. probes' \in {Ready} \cup 0 .. MaxProbes - 1
      BY <1>0, <1>11, <3>1, BoundsAssumption DEF TypeOK, Probe, Ready
    <3>3. QED
      BY <1>0, <3>1, <3>2 DEF SInv, TypeOK, NoFailingClaims
  <2>3. QED
    BY <2>1, <2>2
<1>12. CASE MainReturns \/ Killed
  BY <1>10, <1>12 DEF MainReturns, Killed
<1>13. CASE KillGroup
  BY <1>0, <1>13 DEF KillGroup, SInv, TypeOK, NoFailingClaims
<1>14. CASE Restart
  <2>1. probes' \in {Ready} \cup 0 .. MaxProbes - 1
    BY <1>14, BoundsAssumption DEF Restart
  <2>2. QED
    BY <1>0, <1>14, <2>1 DEF Restart, SInv, TypeOK, NoFailingClaims
<1>15. CASE UNCHANGED vars
  BY <1>0, <1>15 DEF vars, SInv, TypeOK, NoFailingClaims
<1>16. QED
  BY <1>1, <1>2, <1>3, <1>4, <1>5, <1>6, <1>7, <1>8, <1>9, <1>11, <1>12,
     <1>13, <1>14, <1>15 DEF Next, Handler

(* The invariant holds in every reachable state. *)
THEOREM Inductive == Spec => []SInv
BY InitSInv, NextSInv, PTL DEF Spec

(* Every variable keeps its type, for any number of clients. *)
THEOREM TypeCorrect == Spec => []TypeOK
BY Inductive, PTL DEF SInv

(* Two verifier processes never run at the same time, restarts included. *)
THEOREM VerifiersApart == Spec => []OneVerifier
BY Inductive, PTL DEF SInv

(* The mutex is held exactly while its handler can still unlock it. *)
THEOREM MutexReleased == Spec => []MutexNotLeaked
BY Inductive, PTL DEF SInv

(* No client is ever sent the claims of a failed run. *)
THEOREM ClaimsOfPassingRuns == Spec => []NoFailingClaims
BY Inductive, PTL DEF SInv

-----------------------------------------------------------------------------
(* A step that moves one client moves one client of the abstraction. *)
LEMMA OneMoves ==
    ASSUME NEW c \in Clients, procs' \ {c} = procs \ {c},
           \A d \in Clients \ {c} : pc'[d] = pc[d] /\ run'[d] = run[d]
    PROVE  SerialState' = [SerialState EXCEPT ![c] = SerialState'[c]]
<1>1. \A d \in Clients \ {c} : SerialState'[d] = SerialState[d]
  BY DEF SerialState
<1> DEFINE f == SerialState
           g == SerialState'
<1>2. /\ f = [d \in Clients |-> f[d]] /\ DOMAIN f = Clients
      /\ g = [d \in Clients |-> g[d]]
  BY DEF SerialState
<1>. HIDE DEF f, g
<1>3. \A d \in Clients : g[d] = IF d = c THEN g[c] ELSE f[d]
  BY <1>1 DEF f, g
<1>4. g = [f EXCEPT ![c] = g[c]]
  BY <1>2, <1>3
<1>5. QED
  BY <1>4 DEF f, g

(* One step per operation: what the abstraction makes of it. *)
LEMMA SerialStep ==
    ASSUME SInv, [Next]_vars
    PROVE  [Serial!Next]_SerialState
<1>. USE DEF SInv, TypeOK
<1>1. ASSUME NEW c \in Clients, Receive(c) PROVE Serial!Ask(c)
  <2>1. SerialState' = [SerialState EXCEPT ![c] = SerialState'[c]]
    BY <1>1, OneMoves DEF Receive
  <2>2. SerialState[c] = "idle" /\ SerialState'[c] = "asked"
    BY <1>1 DEF Receive, SerialState, MutexNotLeaked
  <2>3. QED
    BY <2>1, <2>2 DEF Serial!Ask
<1>2. ASSUME NEW c \in Clients, Validate(c)
      PROVE  Serial!Refuse(c) \/ UNCHANGED SerialState
  <2>1. CASE RejectStatus(request[c]) = 0
    BY <1>2, <2>1 DEF Validate, SerialState
  <2>2. CASE RejectStatus(request[c]) # 0
    <3>1. SerialState' = [SerialState EXCEPT ![c] = SerialState'[c]]
      BY <1>2, <2>2, OneMoves DEF Validate, Respond
    <3>2. c \notin procs
      BY <1>2 DEF Validate, MutexNotLeaked, DownInv
    <3>3. SerialState[c] = "asked" /\ SerialState'[c] = "idle"
      BY <1>2, <2>2, <3>2 DEF Validate, Respond, SerialState
    <3>4. QED
      BY <3>1, <3>3 DEF Serial!Refuse
  <2>3. QED
    BY <2>1, <2>2
<1>3. ASSUME NEW c \in Clients, Lock(c) PROVE UNCHANGED SerialState
  BY <1>3 DEF Lock, SerialState
<1>4. ASSUME NEW c \in Clients, StartVerifier(c)
      PROVE  Serial!Begin(c) \/ UNCHANGED SerialState
  <2>1. phase = "up" /\ pc[c] = "locked" /\ c \notin procs
    BY <1>4 DEF StartVerifier, DownInv, MutexNotLeaked
  <2>2. procs = {}
    <3>1. holder = c
      BY <2>1 DEF MutexNotLeaked, Critical
    <3>2. \A d \in procs : holder = d
      BY <2>1 DEF MutexNotLeaked, Critical
    <3>3. QED
      BY <2>1, <3>1, <3>2
  <2>3. CASE procs' = procs \cup {c}
    <3>1. SerialState' = [SerialState EXCEPT ![c] = SerialState'[c]]
      BY <1>4, <2>3, OneMoves DEF StartVerifier
    <3>2. SerialState[c] = "asked" /\ SerialState'[c] = "running"
      BY <2>1, <2>3 DEF SerialState
    <3>3. \A d \in Clients : SerialState[d] # "running"
      BY <2>2 DEF SerialState
    <3>4. QED
      BY <3>1, <3>2, <3>3 DEF Serial!Begin
  <2>4. CASE procs' # procs \cup {c}
    BY <1>4, <2>1, <2>4 DEF StartVerifier, SerialState
  <2>5. QED
    BY <2>3, <2>4
<1>5. ASSUME NEW c \in Clients, VerifierExits(c)
      PROVE  Serial!End(c) \/ \E S \in SUBSET Clients : Serial!Abort(S)
  <2>1. CASE pc[c] = "running"
    <3>1. PICK o \in Outcomes : run' = [run EXCEPT ![c] = o]
      BY <1>5, <2>1 DEF VerifierExits
    <3>2. o # NotStarted
      BY OutcomesAssumption DEF NotStarted, OutcomeRecord
    <3>3. SerialState' = [SerialState EXCEPT ![c] = SerialState'[c]]
      BY <1>5, <2>1, OneMoves DEF VerifierExits
    <3>4. SerialState[c] = "running" /\ SerialState'[c] = "finished"
      BY <1>5, <2>1, <3>1, <3>2 DEF VerifierExits, SerialState
    <3>5. QED
      BY <3>3, <3>4 DEF Serial!End
  <2>2. CASE pc[c] # "running"
    <3>1. pc[c] = "idle"
      BY <1>5, <2>2 DEF VerifierExits, MutexNotLeaked, DownInv
    <3>2. Serial!Abort({c})
      BY <1>5, <2>2, <3>1 DEF VerifierExits, SerialState, Serial!Abort
    <3>3. QED
      BY <3>2
  <2>3. QED
    BY <2>1, <2>2
<1>6. ASSUME NEW c \in Clients, Unlock(c) PROVE UNCHANGED SerialState
  BY <1>6 DEF Unlock, SerialState
<1>7. ASSUME NEW c \in Clients, Reply(c)
      PROVE  Serial!Answer(c) \/ Serial!Refuse(c)
  <2>1. PICK r \in Answers : Respond(c, r)
    BY <1>7, ReplyResponse
  <2>2. SerialState' = [SerialState EXCEPT ![c] = SerialState'[c]]
    BY <1>7, <2>1, OneMoves DEF Reply, Respond
  <2>3. c \notin procs
    BY <1>7 DEF Reply, MutexNotLeaked, DownInv
  <2>4. SerialState[c] \in {"asked", "finished"} /\ SerialState'[c] = "idle"
    BY <1>7, <2>1, <2>3 DEF Reply, Respond, SerialState
  <2>5. QED
    BY <2>2, <2>4 DEF Serial!Answer, Serial!Refuse
<1>8. ASSUME NEW c \in Clients, Expire(c) PROVE UNCHANGED SerialState
  BY <1>8 DEF Expire, SerialState
<1>9. ASSUME NEW l \in Listeners, Listen(l) \/ ServerFails(l)
      PROVE  UNCHANGED SerialState
  BY <1>9 DEF Listen, ServerFails, SerialState
<1>10. ASSUME NEW how, Exit(how) PROVE Serial!Abort(Clients \ procs)
  BY <1>10 DEF Exit, SerialState, Serial!Abort
<1>11. CASE Probe
  <2>1. Exit("failure") \/ UNCHANGED SerialState
    BY <1>11 DEF Probe, SerialState
  <2>2. QED
    BY <1>10, <2>1 DEF Serial!Next
<1>12. CASE MainReturns \/ Killed
  BY <1>10, <1>12 DEF MainReturns, Killed, Serial!Next
<1>13. CASE KillGroup
  <2>1. Serial!Abort(procs)
    BY <1>13 DEF KillGroup, SerialState, Serial!Abort, DownInv
  <2>2. QED
    BY <2>1 DEF Serial!Next
<1>14. CASE Restart
  BY <1>14 DEF Restart, SerialState
<1>15. CASE UNCHANGED vars
  BY <1>15 DEF vars, SerialState
<1>16. ASSUME NEW c \in Clients,
              Receive(c) \/ Handler(c) \/ Lock(c) \/ Expire(c)
       PROVE  [Serial!Next]_SerialState
  BY <1>1, <1>2, <1>3, <1>4, <1>5, <1>6, <1>7, <1>8, <1>16
     DEF Handler, Serial!Next
<1>17. QED
  BY <1>9, <1>11, <1>12, <1>13, <1>14, <1>15, <1>16 DEF Next

(* The service implements SerialAttestation. *)
THEOREM Implements == Spec => ImplementsSerial
<1>1. Init => Serial!Init
  BY DEF Init, Serial!Init, SerialState
<1>2. QED
  BY <1>1, SerialStep, Inductive, PTL DEF Spec, Serial!Spec, ImplementsSerial
=============================================================================
