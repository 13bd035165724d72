------------------------ MODULE RevocationCheckProofs ------------------------
(***************************************************************************)
(* What the revocation check guarantees for chains of any length, any      *)
(* settings and any behaviour of the OCSP services: a chain that passes    *)
(* has a good answer of its own for each of its certificates, the services *)
(* are asked in order, and the timed calls implement the plain sequence of *)
(* fetches.                                                                *)
(***************************************************************************)
EXTENDS RevocationCheck, TimedCallsProofs

CallsOK == calls \in Seq(CallRecord(Nat, ResponseRecord))

(* The bounds of the loop. *)
LEMMA Bounds ==
    ASSUME mode \in Modes
    PROVE  StartIndex \in Nat /\ EndIndex \in Nat
<1>1. ChainLength[mode] \in Nat \ {0}
  BY ChainAssumption
<1>2. QED
  BY <1>1 DEF StartIndex, EndIndex

(* A response is neither nothing nor the None of a fetch that failed. *)
LEMMA ResponseIsAnswer == Empty \notin ResponseRecord /\ Gone \notin ResponseRecord
<1>1. Empty.kind = "empty" /\ Gone.kind = "None"
  BY DEF Empty, Gone
<1>2. \A r \in ResponseRecord : r.kind = "response"
  BY DEF ResponseRecord
<1>3. QED
  BY <1>1, <1>2

(* The initial states satisfy the invariant. *)
LEMMA InitIInv == Init => IInv
<1>. SUFFICES ASSUME Init PROVE IInv
  OBVIOUS
<1>1. calls = <<>> /\ DOMAIN calls = {} /\ DOMAIN accepted = {} /\ warnings = {}
  BY DEF Init, InitCalls
<1>2. StartIndex \in Nat /\ EndIndex \in Nat
  BY Bounds DEF Init
<1>3. TypeOK
  <2>1. calls \in Seq(CallRecord(Nat, ResponseRecord))
    BY <1>1
  <2>2. https \subseteq Services
    BY DEF Init, InitCalls, Services
  <2>3. QED
    BY <1>1, <1>2, <2>1, <2>2 DEF Init, TypeOK
<1>4. OneAnswer /\ AskedInOrder /\ AcceptedInv
  BY <1>1 DEF OneAnswer, AskedInOrder, AcceptedInv
<1>5. CurrentCall /\ Progress /\ ValidMeansChecked
  BY <1>1, <1>2 DEF Init, CurrentCall, Progress, ValidMeansChecked
<1>6. QED
  BY <1>3, <1>4, <1>5 DEF IInv

(* An acceptance rests on an answered call, which does not change. *)
LEMMA AcceptedKept ==
    ASSUME IInv, mode' = mode, accepted' = accepted, warnings' = warnings,
           \A k \in DOMAIN calls :
               /\ k \in DOMAIN calls'
               /\ calls'[k].item = calls[k].item /\ calls'[k].url = calls[k].url
               /\ calls[k].caller = "answered" =>
                      calls'[k].caller = "answered"
               /\ calls[k].queue \in ResponseRecord =>
                      calls'[k].queue = calls[k].queue
    PROVE  AcceptedInv' /\ \A c \in DOMAIN accepted : accepted[c] \in DOMAIN calls'
<1>1. \A c \in DOMAIN accepted : accepted[c] \in DOMAIN calls
  BY DEF IInv, TypeOK
<1>2. ASSUME NEW c \in DOMAIN accepted PROVE Accepted(c)'
  <2>. DEFINE k == accepted[c]
  <2>1. /\ k \in DOMAIN calls /\ calls[k].item = c
        /\ calls[k].caller = "answered" /\ calls[k].queue \in ResponseRecord
        /\ GoodEnough(calls[k].queue, calls[k])
        /\ calls[k].queue.nextUpdate < 0 \/ calls[k].queue.status = "revoked"
             => c \in warnings
    BY <1>1 DEF IInv, AcceptedInv, Accepted
  <2>2. /\ calls'[k].item = c /\ calls'[k].caller = "answered"
        /\ calls'[k].queue = calls[k].queue /\ calls'[k].url = calls[k].url
    BY <2>1
  <2>3. QED
    BY <2>1, <2>2 DEF Accepted, GoodEnough
<1>3. QED
  BY <1>1, <1>2 DEF AcceptedInv

(* What a call already made says of the order is not undone. *)
LEMMA OrderKept ==
    ASSUME IInv, mode' = mode, DOMAIN accepted \subseteq DOMAIN accepted',
           NEW k \in DOMAIN calls,
           \A n \in DOMAIN calls :
               /\ calls'[n].item = calls[n].item /\ calls'[n].url = calls[n].url
               /\ Unanswered(calls[n]) => calls'[n].caller = calls[n].caller
    PROVE  /\ StartIndex' .. calls'[k].item - 1 \subseteq DOMAIN accepted'
           /\ calls'[k].url = "nvidia" =>
                /\ k > 1 /\ calls'[k - 1].item = calls'[k].item
                /\ calls'[k - 1].url = "primary"
                /\ calls'[k - 1].caller \in {"failed", "timedOut"}
<1>1. StartIndex' = StartIndex
  BY DEF StartIndex
<1>2. StartIndex .. calls[k].item - 1 \subseteq DOMAIN accepted
  BY DEF IInv, AskedInOrder
<1>3. ASSUME calls[k].url = "nvidia"
      PROVE  /\ k > 1 /\ k - 1 \in DOMAIN calls
             /\ calls[k - 1].item = calls[k].item
             /\ calls[k - 1].url = "primary" /\ Unanswered(calls[k - 1])
  BY <1>3 DEF IInv, TypeOK, AskedInOrder, Unanswered
<1>4. QED
  BY <1>1, <1>2, <1>3 DEF Unanswered

(* The chain passes when the loop has come to its end. *)
LEMMA ValidStep ==
    ASSUME TypeOK', Progress', AcceptedInv'
    PROVE  ValidMeansChecked'
<1>. SUFFICES ASSUME result' = "valid", NEW c \in Checked'
              PROVE  c \in DOMAIN accepted' /\ Accepted(c)'
  BY DEF ValidMeansChecked, Accepted
<1>1. StartIndex' \in Nat /\ EndIndex' \in Nat /\ i' \in Nat
  <2>1. mode' \in Modes /\ i' \in Nat
    BY DEF TypeOK
  <2>2. ChainLength[mode'] \in Nat \ {0}
    BY <2>1, ChainAssumption
  <2>3. QED
    BY <2>1, <2>2 DEF StartIndex, EndIndex
<1>2. c \in StartIndex' .. i' - 1
  <2>1. c \in StartIndex' .. EndIndex' - 1
    BY DEF Checked
  <2>0. i' >= EndIndex'
    BY DEF Progress
  <2>2. \A s, e, j \in Nat : j >= e => s .. e - 1 \subseteq s .. j - 1
    OBVIOUS
  <2>3. QED
    BY <1>1, <2>1, <2>0, <2>2
<1>3. QED
  BY <1>2 DEF Progress, AcceptedInv

(* A call is made about the certificate at hand, of the configured service *)
(* first and of NVIDIA's only after that has failed.                       *)
LEMMA AskStep ==
    ASSUME IInv, NEW url \in Services, Call(i, url), pc' = "wait",
           UNCHANGED <<mode, i, accepted, warnings, result>>,
           i \in Checked, pc \in {"loop", "fallback"},
           url = "nvidia" => pc = "fallback"
    PROVE  IInv'
<1>. DEFINE new == NewCall(i, url)
<1>1. CallsOK /\ OneAnswer /\ i \in Nat
  BY DEF IInv, TypeOK, CallsOK
<1>2. /\ CallsOK' /\ OneAnswer' /\ Len(calls') = Len(calls) + 1
      /\ \A k \in DOMAIN calls : k \in DOMAIN calls' /\ calls'[k] = calls[k]
      /\ DOMAIN calls' = DOMAIN calls \cup {Len(calls')}
      /\ calls' # <<>> /\ Last' = new /\ calls'[Len(calls')] = new
  BY <1>1, CallStep DEF CallsOK
<1>3. new.item = i /\ new.url = url /\ new.caller = "waiting"
  BY DEF NewCall
<1>4. StartIndex' = StartIndex /\ EndIndex' = EndIndex /\ Checked' = Checked
  BY DEF StartIndex, EndIndex, Checked
<1>5. AcceptedInv' /\ \A c \in DOMAIN accepted : accepted[c] \in DOMAIN calls'
  BY <1>2, AcceptedKept
<1>6. TypeOK'
  BY <1>2, <1>4, <1>5 DEF IInv, TypeOK, CallsOK, Call
<1>7. CurrentCall'
  BY <1>2, <1>3, <1>4 DEF CurrentCall
<1>8. Progress'
  BY <1>4 DEF IInv, Progress
<1>9. AskedInOrder'
  <2>. SUFFICES ASSUME NEW k \in DOMAIN calls'
                PROVE  /\ StartIndex' .. calls'[k].item - 1 \subseteq DOMAIN accepted'
                       /\ calls'[k].url = "nvidia" =>
                            /\ k > 1 /\ calls'[k - 1].item = calls'[k].item
                            /\ calls'[k - 1].url = "primary"
                            /\ calls'[k - 1].caller \in {"failed", "timedOut"}
    BY DEF AskedInOrder
  <2>1. CASE k \in DOMAIN calls
    BY <1>2, <2>1, OrderKept
  <2>2. CASE k = Len(calls')
    <3>1. calls'[k].item = i /\ calls'[k].url = url
      BY <1>2, <1>3, <2>2
    <3>2. StartIndex' .. i - 1 \subseteq DOMAIN accepted'
      BY <1>4 DEF IInv, Progress
    <3>3. ASSUME url = "nvidia"
          PROVE  /\ k > 1 /\ calls'[k - 1].item = i
                 /\ calls'[k - 1].url = "primary"
                 /\ calls'[k - 1].caller \in {"failed", "timedOut"}
      <4>1. /\ calls # <<>> /\ Last.item = i /\ Last.url = "primary"
            /\ Unanswered(Last)
        BY <3>3 DEF IInv, CurrentCall
      <4>2. Len(calls) \in DOMAIN calls /\ k - 1 = Len(calls) /\ k > 1
        BY <1>1, <1>2, <2>2, <4>1 DEF CallsOK
      <4>3. QED
        BY <1>2, <4>1, <4>2 DEF Last, Unanswered
    <3>4. QED
      BY <3>1, <3>2, <3>3
  <2>3. QED
    BY <1>2, <2>1, <2>2
<1>10. QED
  BY <1>2, <1>5, <1>6, <1>7, <1>8, <1>9, ValidStep DEF IInv

(* The loop asks about the next certificate, or the whole chain is valid. *)
LEMMA AskConfiguredStep == ASSUME IInv, AskConfigured PROVE IInv'
<1>. StartIndex \in Nat /\ EndIndex \in Nat /\ i \in Nat
  BY Bounds DEF IInv, TypeOK
<1>1. CASE i < EndIndex
  <2>1. /\ Call(i, "primary") /\ pc = "loop" /\ pc' = "wait"
        /\ UNCHANGED <<mode, i, accepted, warnings, result>>
    BY <1>1 DEF AskConfigured
  <2>2. i \in Checked /\ "primary" \in Services
    BY <1>1, <2>1 DEF IInv, Progress, Checked, Services
  <2>3. QED
    BY <2>1, <2>2, AskStep
<1>2. CASE ~(i < EndIndex)
  <2>1. /\ pc' = "done" /\ result' = "valid"
        /\ UNCHANGED <<https, calls, mode, i, accepted, warnings>>
    BY <1>2 DEF AskConfigured, Return, timedVars
  <2>2. StartIndex' = StartIndex /\ EndIndex' = EndIndex /\ Checked' = Checked
    BY <2>1 DEF StartIndex, EndIndex, Checked
  <2>3. TypeOK' /\ OneAnswer'
    BY <2>1, <2>2 DEF IInv, TypeOK, OneAnswer
  <2>4. CurrentCall' /\ Progress'
    BY <1>2, <2>1, <2>2 DEF IInv, CurrentCall, Progress
  <2>5. AcceptedInv'
    BY <2>1, AcceptedKept
  <2>6. AskedInOrder'
    BY <2>1, <2>2 DEF IInv, AskedInOrder
  <2>7. QED
    BY <2>3, <2>4, <2>5, <2>6, ValidStep DEF IInv
<1>3. QED
  BY <1>1, <1>2

LEMMA AskNvidiaStep == ASSUME IInv, AskNvidia PROVE IInv'
<1>1. i \in Checked /\ "nvidia" \in Services
  BY DEF AskNvidia, IInv, CurrentCall, Services
<1>2. QED
  BY <1>1, AskStep DEF AskNvidia

(* What is said of the calls made survives a settled last call. *)
LEMMA SettledParts ==
    ASSUME IInv, pc = "wait", TakeAnswer \/ CallFails,
           UNCHANGED <<mode, i, accepted, warnings>>
    PROVE  /\ CallsOK' /\ OneAnswer' /\ https' = https
           /\ DOMAIN calls' = DOMAIN calls
           /\ calls' # <<>> /\ Last'.item = Last.item /\ Last'.url = Last.url
           /\ TakeAnswer => /\ Last'.caller = "answered"
                            /\ Last'.queue \in ResponseRecord
           /\ CallFails => Unanswered(Last')
           /\ AcceptedInv' /\ AskedInOrder'
<1>1. CallsOK /\ OneAnswer /\ calls # <<>>
  BY DEF IInv, TypeOK, CallsOK, CurrentCall
<1>2. /\ CallsOK' /\ OneAnswer' /\ SameQuestions
      /\ \A n \in DOMAIN calls : calls'[n].queue = calls[n].queue
      /\ \A n \in DOMAIN calls \ {Len(calls)} : calls'[n] = calls[n]
      /\ TakeAnswer => Last'.caller = "answered" /\ Last'.queue \in ResponseRecord
      /\ CallFails => Unanswered(Last')
  BY <1>1, SettleStep DEF CallsOK
<1>3. DOMAIN calls' = DOMAIN calls
  BY <1>1, <1>2 DEF CallsOK, SameQuestions
<1>4. calls' # <<>> /\ Last'.item = Last.item /\ Last'.url = Last.url
  BY <1>1, <1>2 DEF CallsOK, SameQuestions, Last
<1>5. Last.caller = "waiting" /\ https' = https
  BY DEF TakeAnswer, CallFails
<1>6. \A n \in DOMAIN calls :
          calls[n].caller # "waiting" => calls'[n].caller = calls[n].caller
  BY <1>2, <1>5 DEF Last
<1>7. AcceptedInv'
  BY <1>2, <1>3, <1>6, AcceptedKept DEF SameQuestions
<1>8. AskedInOrder'
  <2>1. \A n \in DOMAIN calls :
            /\ calls'[n].item = calls[n].item /\ calls'[n].url = calls[n].url
            /\ Unanswered(calls[n]) => calls'[n].caller = calls[n].caller
    BY <1>2, <1>6 DEF SameQuestions, Unanswered
  <2>2. QED
    BY <1>3, <2>1, OrderKept DEF AskedInOrder
<1>9. QED
  BY <1>2, <1>3, <1>4, <1>5, <1>7, <1>8

LEMMA AnsweredStep == ASSUME IInv, Answered PROVE IInv'
<1>1. /\ pc = "wait" /\ pc' = "verify" /\ TakeAnswer
      /\ UNCHANGED <<mode, i, accepted, warnings, result>>
  BY DEF Answered
<1>2. /\ CallsOK' /\ OneAnswer' /\ https' = https
      /\ DOMAIN calls' = DOMAIN calls /\ calls' # <<>> /\ Last'.item = Last.item
      /\ Last'.caller = "answered" /\ Last'.queue \in ResponseRecord
      /\ AcceptedInv' /\ AskedInOrder'
  BY <1>1, SettledParts
<1>3. StartIndex' = StartIndex /\ EndIndex' = EndIndex /\ Checked' = Checked
  BY <1>1 DEF StartIndex, EndIndex, Checked
<1>4. TypeOK'
  BY <1>1, <1>2, <1>3 DEF IInv, TypeOK, CallsOK
<1>5. CurrentCall' /\ Progress'
  BY <1>1, <1>2, <1>3 DEF IInv, CurrentCall, Progress
<1>6. QED
  BY <1>2, <1>4, <1>5, ValidStep DEF IInv

LEMMA NotAnsweredStep == ASSUME IInv, NotAnswered PROVE IInv'
<1>1. /\ pc = "wait" /\ CallFails /\ UNCHANGED <<mode, i, accepted, warnings>>
      /\ \/ Last.url = "primary" /\ pc' = "fallback" /\ result' = result
         \/ pc' = "done" /\ result' = "OCSPFetchError"
  BY DEF NotAnswered, Return
<1>2. /\ CallsOK' /\ OneAnswer' /\ https' = https
      /\ DOMAIN calls' = DOMAIN calls /\ calls' # <<>> /\ Last'.item = Last.item
      /\ Last'.url = Last.url /\ Unanswered(Last')
      /\ AcceptedInv' /\ AskedInOrder'
  BY <1>1, SettledParts
<1>3. StartIndex' = StartIndex /\ EndIndex' = EndIndex /\ Checked' = Checked
  BY <1>1 DEF StartIndex, EndIndex, Checked
<1>4. TypeOK'
  BY <1>1, <1>2, <1>3 DEF IInv, TypeOK, CallsOK
<1>5. CurrentCall' /\ Progress'
  BY <1>1, <1>2, <1>3 DEF IInv, CurrentCall, Progress
<1>6. QED
  BY <1>2, <1>4, <1>5, ValidStep DEF IInv

(* A worker, abandoned or not, changes nothing the chain check rests on. *)
LEMMA WorkerStep == ASSUME IInv, NEW k \in 1 .. MaxCalls, Worker(k) PROVE IInv'
<1>1. /\ k \in DOMAIN calls /\ Fetch(k, Responses) /\ https' = https
      /\ UNCHANGED <<mode, pc, i, accepted, warnings, result>>
      /\ CallsOK /\ OneAnswer
  BY DEF Worker, mainVars, Fetch, IInv, TypeOK, CallsOK
<1>2. Responses \in SUBSET ResponseRecord
  BY ResponsesAssumption
<1>3. /\ CallsOK' /\ OneAnswer' /\ SameQuestions
      /\ \A n \in DOMAIN calls : calls'[n].caller = calls[n].caller
      /\ \A n \in DOMAIN calls :
            \/ calls'[n].queue = calls[n].queue
            \/ n = k /\ calls[n].queue = Empty
  <2>1. calls \in Seq(CallRecord(Nat, ResponseRecord))
    BY <1>1 DEF CallsOK
  <2>2. /\ calls' \in Seq(CallRecord(Nat, ResponseRecord)) /\ OneAnswer'
        /\ SameQuestions
        /\ \A n \in DOMAIN calls : calls'[n].caller = calls[n].caller
        /\ \A n \in DOMAIN calls :
              \/ calls'[n].queue = calls[n].queue
              \/ /\ n = k /\ calls[n].queue = Empty
                 /\ calls'[n].queue \in Responses \cup {Gone}
    BY <1>1, <1>2, <2>1, FetchStep
  <2>3. QED
    BY <2>2 DEF CallsOK
<1>4. DOMAIN calls' = DOMAIN calls
  BY <1>1, <1>3 DEF CallsOK, SameQuestions
<1>5. \A n \in DOMAIN calls :
          calls[n].queue \in ResponseRecord => calls'[n].queue = calls[n].queue
  BY <1>3, ResponseIsAnswer
<1>6. StartIndex' = StartIndex /\ EndIndex' = EndIndex /\ Checked' = Checked
  BY <1>1 DEF StartIndex, EndIndex, Checked
<1>7. TypeOK'
  BY <1>1, <1>3, <1>4, <1>6 DEF IInv, TypeOK, CallsOK
<1>8. CurrentCall'
  <2>1. calls # <<>> => /\ calls' # <<>> /\ Last'.item = Last.item
                        /\ Last'.url = Last.url /\ Last'.caller = Last.caller
                        /\ Last.queue \in ResponseRecord => Last'.queue = Last.queue
    BY <1>1, <1>3, <1>5 DEF CallsOK, SameQuestions, Last
  <2>2. QED
    BY <1>1, <1>6, <2>1 DEF IInv, CurrentCall, Unanswered
<1>9. Progress'
  BY <1>1, <1>6 DEF IInv, Progress
<1>10. AcceptedInv'
  BY <1>1, <1>3, <1>4, <1>5, AcceptedKept DEF SameQuestions
<1>11. AskedInOrder'
  <2>1. \A n \in DOMAIN calls :
            calls'[n].item = calls[n].item /\ calls'[n].url = calls[n].url
    BY <1>3 DEF SameQuestions
  <2>2. QED
    BY <1>1, <1>3, <1>4, <2>1, OrderKept DEF AskedInOrder
<1>12. QED
  BY <1>3, <1>7, <1>8, <1>9, <1>10, <1>11, ValidStep DEF IInv

(* A response that meets no obstacle before any other meets none at all,   *)
(* and is good enough.                                                     *)
LEMMA NoObstacle ==
    ASSUME mode \in Modes, NEW r \in ResponseRecord, NEW call,
           First(Obstacles(r, call)) = {}
    PROVE  GoodEnough(r, call)
<1>. DEFINE o == Obstacles(r, call)
<1>1. DOMAIN o = 1 .. 9
  BY DEF Obstacles
<1>2. \A n \in 1 .. 9 : o[n].met => \E p \in 1 .. n - 1 : o[p].met
  BY <1>1 DEF First
<1>3. \A n \in 1 .. 9 : ~o[n].met
  <2>. HIDE DEF o
  <2>1. ~o[1].met
    BY <1>2
  <2>2. ~o[2].met
    BY <1>2, <2>1
  <2>3. ~o[3].met
    BY <1>2, <2>1, <2>2
  <2>4. ~o[4].met
    BY <1>2, <2>1, <2>2, <2>3
  <2>5. ~o[5].met
    BY <1>2, <2>1, <2>2, <2>3, <2>4
  <2>6. ~o[6].met
    BY <1>2, <2>1, <2>2, <2>3, <2>4, <2>5
  <2>7. ~o[7].met
    BY <1>2, <2>1, <2>2, <2>3, <2>4, <2>5, <2>6
  <2>8. ~o[8].met
    BY <1>2, <2>1, <2>2, <2>3, <2>4, <2>5, <2>6, <2>7
  <2>9. ~o[9].met
    BY <1>2, <2>1, <2>2, <2>3, <2>4, <2>5, <2>6, <2>7, <2>8
  <2>10. QED
    BY <2>1, <2>2, <2>3, <2>4, <2>5, <2>6, <2>7, <2>8, <2>9
<1>4. /\ r.successful
      /\ ~(HasNonce(call) /\ r.nonce # "own")
      /\ InTime(r, ValidityExt)
      /\ r.signer # "absent" /\ r.signer # "rejected"
      /\ r.status # "unknown"
      /\ ~(r.status = "revoked" /\ ~Graced(r))
  <2>1. \A n \in {1, 2, 4, 5, 6, 7, 9} : ~o[n].met
    BY <1>3
  <2>2. QED
    BY <2>1 DEF Obstacles
<1>5. /\ r.thisUpdate \in Int /\ r.nextUpdate \in Int /\ r.revokedAt \in Int
      /\ r.signer \in {"trusted", "rejected", "absent"}
      /\ r.status \in {"good", "unknown", "revoked"}
  BY DEF ResponseRecord
<1>6. ValidityExt \in Nat /\ RevocationExt[mode] \in Nat
  BY SettingsAssumption
<1>7. r.thisUpdate <= 0 /\ -ValidityExt <= r.nextUpdate
  BY <1>4, <1>5, <1>6 DEF InTime
<1>8. Graced(r) => \/ r.reason = "certificate_hold" /\ AllowHold
                   \/ r.revokedAt >= -RevocationExt[mode]
  BY <1>5, <1>6 DEF Graced
<1>9. QED
  BY <1>4, <1>5, <1>7, <1>8 DEF GoodEnough, HasNonce

(* What an obstacle makes of the chain. *)
LEMMA ObstacleEnds ==
    ASSUME NEW r, NEW call, NEW n \in First(Obstacles(r, call))
    PROVE  Obstacles(r, call)[n].ends \in {"invalid", "exception"}
<1>1. n \in 1 .. 9
  BY DEF First, Obstacles
<1>2. n \in {1, 2, 3, 4, 5, 6, 7, 8, 9}
  BY <1>1
<1>3. QED
  BY <1>2 DEF Obstacles

(* A response is accepted for the certificate it was asked for, or ends    *)
(* the check of the chain.                                                 *)
LEMMA VerifyStep == ASSUME IInv, Verify PROVE IInv'
<1>. DEFINE r == Last.queue
<1>1. /\ pc = "verify" /\ UNCHANGED <<https, calls, mode>>
      /\ i \in Checked /\ calls # <<>> /\ Last.item = i
      /\ Last.caller = "answered" /\ r \in ResponseRecord
      /\ result = "none"
  BY DEF Verify, timedVars, IInv, CurrentCall, Progress
<1>2. /\ CallsOK /\ i \in Nat /\ StartIndex \in Nat /\ EndIndex \in Nat
      /\ DOMAIN accepted = StartIndex .. i - 1
      /\ warnings \subseteq Checked /\ mode \in Modes
  BY Bounds DEF IInv, TypeOK, CallsOK, Progress
<1>3. StartIndex' = StartIndex /\ EndIndex' = EndIndex /\ Checked' = Checked
  BY <1>1 DEF StartIndex, EndIndex, Checked
<1>4. OneAnswer'
  BY <1>1 DEF IInv, OneAnswer
<1>5. Len(calls) \in DOMAIN calls
  BY <1>1, <1>2 DEF CallsOK
<1>6. CASE /\ First(Obstacles(r, Last)) = {}
           /\ accepted' = [c \in DOMAIN accepted \cup {i} |->
                              IF c = i THEN Len(calls) ELSE accepted[c]]
           /\ warnings' = IF Warned(r) THEN warnings \cup {i} ELSE warnings
           /\ i' = i + 1 /\ pc' = "loop" /\ result' = result
  <2>1. StartIndex <= i /\ i <= EndIndex - 1
    BY <1>1, <1>2 DEF Checked
  <2>2. DOMAIN accepted' = StartIndex .. i
    BY <1>2, <1>6, <2>1
  <2>3. DOMAIN accepted' \subseteq Checked'
    BY <1>2, <1>3, <2>1, <2>2 DEF Checked
  <2>4. \A c \in DOMAIN accepted : accepted'[c] = accepted[c] /\ c # i
    BY <1>2, <1>6
  <2>5. accepted'[i] = Len(calls)
    BY <1>6
  <2>6. \A c \in DOMAIN accepted' : c \in DOMAIN accepted \/ c = i
    BY <1>6
  <2>7. \A c \in DOMAIN accepted' : accepted'[c] \in DOMAIN calls'
    BY <1>1, <1>5, <2>4, <2>5, <2>6 DEF IInv, TypeOK
  <2>8. warnings' \subseteq Checked' /\ warnings \subseteq warnings'
    BY <1>1, <1>2, <1>3, <1>6
  <2>9. TypeOK'
    BY <1>1, <1>2, <1>6, <2>3, <2>7, <2>8 DEF IInv, TypeOK
  <2>10. CurrentCall' /\ Progress'
    BY <1>1, <1>2, <1>3, <1>6, <2>1, <2>2 DEF CurrentCall, Progress
  <2>11. AcceptedInv'
    <3>1. ASSUME NEW c \in DOMAIN accepted PROVE Accepted(c)'
      <4>1. Accepted(c) /\ accepted'[c] = accepted[c]
        BY <2>4 DEF IInv, AcceptedInv
      <4>2. QED
        BY <1>1, <2>8, <4>1 DEF Accepted, GoodEnough
    <3>2. ASSUME NEW c \in DOMAIN accepted', c = i PROVE Accepted(c)'
      <4>1. accepted'[c] = Len(calls) /\ calls' = calls /\ mode' = mode
        BY <1>1, <2>5, <3>2
      <4>2. GoodEnough(r, Last)
        BY <1>1, <1>2, <1>6, NoObstacle
      <4>3. ASSUME r.nextUpdate < 0 \/ r.status = "revoked" PROVE c \in warnings'
        <5>1. r.nextUpdate \in Int
          BY <1>1 DEF ResponseRecord
        <5>2. Warned(r)
          BY <4>3, <5>1 DEF Warned, InTime
        <5>3. QED
          BY <1>6, <3>2, <5>2
      <4>4. GoodEnough(r, Last)' = GoodEnough(r, Last)
        BY <4>1 DEF GoodEnough, Last
      <4>5. calls[Len(calls)] = Last
        BY DEF Last
      <4>6. QED
        BY <1>1, <3>2, <4>1, <4>2, <4>3, <4>4, <4>5 DEF Accepted, GoodEnough
    <3>3. QED
      BY <2>6, <3>1, <3>2 DEF AcceptedInv
  <2>12. AskedInOrder'
    <3>1. DOMAIN accepted \subseteq DOMAIN accepted'
      BY <1>6
    <3>2. QED
      BY <1>1, <3>1, OrderKept DEF AskedInOrder
  <2>13. QED
    BY <1>4, <2>9, <2>10, <2>11, <2>12, ValidStep DEF IInv
<1>7. CASE /\ \E o \in First(Obstacles(r, Last)) : Return(Obstacles(r, Last)[o].ends)
           /\ UNCHANGED <<accepted, warnings, i>>
  <2>1. pc' = "done" /\ result' \in {"invalid", "exception"}
    <3>1. PICK o \in First(Obstacles(r, Last)) : Return(Obstacles(r, Last)[o].ends)
      BY <1>7
    <3>2. QED
      BY <3>1, ObstacleEnds DEF Return
  <2>2. TypeOK'
    BY <1>1, <1>3, <1>7, <2>1 DEF IInv, TypeOK
  <2>3. CurrentCall' /\ Progress'
    BY <1>1, <1>3, <1>7, <2>1 DEF IInv, CurrentCall, Progress
  <2>4. AcceptedInv'
    BY <1>1, <1>7, AcceptedKept
  <2>5. AskedInOrder'
    BY <1>1, <1>7, OrderKept DEF AskedInOrder
  <2>6. QED
    BY <1>4, <2>2, <2>3, <2>4, <2>5, ValidStep DEF IInv
<1>8. QED
  BY <1>6, <1>7 DEF Verify

(* The invariant is inductive. *)
THEOREM Inductive == Spec => []IInv
<1>1. IInv /\ [Next]_vars => IInv'
  <2>1. ASSUME IInv, Next PROVE IInv'
    BY <2>1, AskConfiguredStep, AnsweredStep, NotAnsweredStep, AskNvidiaStep,
       VerifyStep, WorkerStep DEF Next, Main
  <2>2. ASSUME IInv, UNCHANGED vars PROVE IInv'
    <3>. USE <2>2 DEF vars, IInv
    <3>1. TypeOK'
      BY DEF TypeOK, Checked, StartIndex, EndIndex
    <3>2. OneAnswer' /\ CurrentCall'
      BY DEF OneAnswer, CurrentCall, Last, Unanswered, Checked, StartIndex, EndIndex
    <3>3. Progress' /\ AskedInOrder'
      BY DEF Progress, AskedInOrder, Checked, StartIndex, EndIndex
    <3>4. AcceptedInv'
      BY DEF AcceptedInv, Accepted, GoodEnough
    <3>5. ValidMeansChecked'
      BY DEF ValidMeansChecked, GoodEnough, Checked, StartIndex, EndIndex
    <3>6. QED
      BY <3>1, <3>2, <3>3, <3>4, <3>5
  <2>3. QED
    BY <2>1, <2>2
<1>2. QED
  BY <1>1, InitIInv, PTL DEF Spec

(* Every variable keeps its type, for chains of any length. *)
THEOREM TypeCorrect == Spec => []TypeOK
BY Inductive, PTL DEF IInv

(* A chain that passes has, for each of its certificates, a good answer to *)
(* a question about that certificate that was taken in time.               *)
THEOREM ValidChecked == Spec => []ValidMeansChecked
BY Inductive, PTL DEF IInv

(* NVIDIA's service is asked only after the configured one has failed for  *)
(* the same certificate, and a certificate only after those before it.     *)
THEOREM InOrder == Spec => []AskedInOrder
BY Inductive, PTL DEF IInv

(* Every step of the timed calls is a step of the plain sequence or none. *)
LEMMA FetchingStep ==
    ASSUME IInv, [Next]_vars PROVE [Fetching!Next]_(Fetching!vars)
<1>. USE DEF Fetching!vars, Fetching!Kept
<1>. i \in Nat /\ StartIndex \in Nat /\ EndIndex \in Nat
  BY Bounds DEF IInv, TypeOK
<1>0. mode' = mode => EndIndex' = EndIndex
  BY DEF EndIndex
<1>1. ASSUME NEW url \in Services, Call(i, url) PROVE Last'.url = url
  <2>1. calls \in Seq(CallRecord(Nat, ResponseRecord)) /\ OneAnswer
    BY DEF IInv, TypeOK
  <2>2. Last' = NewCall(i, url)
    BY <1>1, <2>1, CallStep
  <2>3. QED
    BY <2>2 DEF NewCall
<1>2. CASE AskConfigured
  <2>1. CASE i < EndIndex
    <3>1. Last'.url = "primary"
      BY <1>1, <1>2, <2>1 DEF AskConfigured, Services
    <3>2. Fetching!Ask
      BY <1>2, <2>1, <3>1 DEF AskConfigured, FetchState, Fetching!Ask
    <3>3. QED
      BY <1>0, <1>2, <3>2 DEF AskConfigured, Fetching!Next
  <2>2. CASE ~(i < EndIndex)
    <3>1. Fetching!End
      BY <1>2, <2>2 DEF AskConfigured, Return, FetchState, Fetching!End
    <3>2. QED
      BY <1>0, <1>2, <3>1 DEF AskConfigured, Fetching!Next
  <2>3. QED
    BY <2>1, <2>2
<1>3. CASE AskNvidia
  <2>1. Last'.url = "nvidia"
    BY <1>1, <1>3 DEF AskNvidia, Services
  <2>2. QED
    BY <1>0, <1>3, <2>1 DEF AskNvidia, FetchState
<1>4. CASE Answered
  <2>1. Last.url \in Services
    BY <1>4, EachCall DEF Answered, IInv, TypeOK, CurrentCall, Last
  <2>2. Fetching!Give
    BY <1>4, <2>1 DEF Answered, FetchState, Fetching!Give, Services
  <2>3. QED
    BY <1>0, <1>4, <2>2 DEF Answered, Fetching!Next
<1>5. CASE NotAnswered
  <2>1. Last.url \in Services
    BY <1>5, EachCall DEF NotAnswered, IInv, TypeOK, CurrentCall, Last
  <2>2. Fetching!FallBack \/ Fetching!Fail
    BY <1>5, <2>1 DEF NotAnswered, Return, FetchState, Fetching!FallBack,
         Fetching!Fail, Services
  <2>3. QED
    BY <1>0, <1>5, <2>2 DEF NotAnswered, Fetching!Next
<1>6. CASE Verify
  <2>1. /\ pc = "verify" /\ mode' = mode
        /\ \/ i' = i + 1 /\ pc' = "loop"
           \/ i' = i /\ pc' = "done" /\ result' \in {"invalid", "exception"}
    BY <1>6, ObstacleEnds DEF Verify, Return
  <2>2. Fetching!Use
    BY <2>1 DEF FetchState, Fetching!Use
  <2>3. QED
    BY <1>0, <2>1, <2>2 DEF Fetching!Next
<1>7. ASSUME NEW k \in 1 .. MaxCalls, Worker(k)
      PROVE  UNCHANGED Fetching!vars
  <2>1. UNCHANGED <<mode, pc, i, result>>
    BY <1>7 DEF Worker, mainVars
  <2>2. pc = "wait" => Last'.url = Last.url
    <3>1. /\ calls \in Seq(CallRecord(Nat, ResponseRecord)) /\ OneAnswer
          /\ k \in DOMAIN calls /\ Fetch(k, Responses)
      BY <1>7 DEF Worker, IInv, TypeOK
    <3>2. SameQuestions
      BY <3>1, ResponsesAssumption, FetchStep
    <3>3. QED
      BY <3>1, <3>2 DEF SameQuestions, Last
  <2>3. pc \in {"loop", "wait", "verify", "fallback", "done"}
    BY DEF IInv, TypeOK
  <2>4. FetchState' = FetchState
    BY <2>1, <2>2, <2>3 DEF FetchState
  <2>5. QED
    BY <1>0, <2>1, <2>4
<1>8. CASE UNCHANGED vars
  BY <1>0, <1>8 DEF vars, FetchState, Last
<1>9. QED
  BY <1>2, <1>3, <1>4, <1>5, <1>6, <1>7, <1>8 DEF Next, Main

(* The chain check with its threads and timeouts implements OrderedFetch:  *)
(* an OCSPFetchError means that both services failed for one certificate.  *)
THEOREM Implements == Spec => ImplementsFetch
<1>1. Init => Fetching!Init
  <2>1. Init => StartIndex \in Nat /\ EndIndex \in Nat
    BY Bounds DEF Init
  <2>2. QED
    BY <2>1 DEF Init, Fetching!Init, FetchState
<1>2. QED
  BY <1>1, FetchingStep, Inductive, PTL DEF Spec, Fetching!Spec, ImplementsFetch
=============================================================================
