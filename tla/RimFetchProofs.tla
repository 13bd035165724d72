--------------------------- MODULE RimFetchProofs ---------------------------
(***************************************************************************)
(* What the fetch of the RIM files guarantees for every number of retries  *)
(* and any behaviour of the services: each RIM is the file that was asked  *)
(* for, an error means that all services were tried, and the timed calls   *)
(* implement the plain sequence of fetches.                                *)
(***************************************************************************)
EXTENDS RimFetch, TimedCallsProofs

(* The answer of a RIM service names one file, and is neither nothing nor  *)
(* the None of a fetch that failed.                                        *)
LEMMA RimIsAnswer ==
    /\ Empty \notin RimRecord /\ Gone \notin RimRecord
    /\ \A f \in Files : [kind |-> "rim", file |-> f] \in RimRecord
    /\ \A r, s \in RimRecord : r.file = s.file => r = s
<1>1. Empty.kind = "empty" /\ Gone.kind = "None"
  BY DEF Empty, Gone
<1>2. \A r \in RimRecord : r.kind = "rim"
  BY DEF RimRecord
<1>3. QED
  BY <1>1, <1>2 DEF RimRecord

(* The initial states satisfy the invariant. *)
LEMMA InitIInv == Init => IInv
<1>. SUFFICES ASSUME Init PROVE IInv
  OBVIOUS
<1>1. calls = <<>> /\ rims = <<>> /\ DOMAIN calls = {} /\ Len(rims) = 0
  BY DEF Init, InitCalls
<1>2. TypeOK
  <2>1. calls \in Seq(CallRecord(Files, RimRecord)) /\ rims \in Seq(RimRecord)
    BY <1>1
  <2>2. https \subseteq Services
    BY DEF Init, InitCalls, Services
  <2>3. QED
    BY <2>1, <2>2 DEF Init, TypeOK
<1>3. OneAnswer /\ ServicesAsked /\ OwnAnswers
  BY <1>1 DEF OneAnswer, ServicesAsked, OwnAnswers
<1>4. CurrentCall /\ Progress /\ RimsAreTheirOwn /\ ErrorMeansAllTried
  BY <1>1 DEF Init, CurrentCall, Progress, RimsAreTheirOwn, ErrorMeansAllTried
<1>5. QED
  BY <1>2, <1>3, <1>4 DEF IInv

(* A call is made: for the file wanted, to a service there is. *)
LEMMA AskStep ==
    ASSUME IInv, AskConfigured \/ AskNvidia
    PROVE  IInv'
<1>1. PICK url \in Services :
          /\ Call(file, url) /\ file \in Files
          /\ url = "nvidia" => pc = "fallback"
          /\ pc' = "wait" /\ UNCHANGED <<same, file, rims, result>>
          /\ pc \in {"idle", "fallback"}
  BY DEF AskConfigured, AskNvidia, Services, IInv, CurrentCall
<1>2. calls \in Seq(CallRecord(Files, RimRecord)) /\ OneAnswer
  BY DEF IInv, TypeOK
<1>. DEFINE new == NewCall(file, url)
<1>3. /\ calls' \in Seq(CallRecord(Files, RimRecord)) /\ OneAnswer'
      /\ \A k \in DOMAIN calls : k \in DOMAIN calls' /\ calls'[k] = calls[k]
      /\ DOMAIN calls' = DOMAIN calls \cup {Len(calls')}
      /\ calls' # <<>> /\ Last' = new /\ calls'[Len(calls')] = new
  BY <1>1, <1>2, CallStep
<1>4. new.item = file /\ new.url = url /\ new.caller = "waiting" /\ new.queue = Empty
  BY DEF NewCall
<1>5. TypeOK'
  BY <1>1, <1>3 DEF IInv, TypeOK, Call
<1>6. CurrentCall'
  BY <1>1, <1>3, <1>4 DEF CurrentCall
<1>7. ServicesAsked'
  <2>. SUFFICES ASSUME NEW k \in DOMAIN calls', calls'[k].url = "nvidia"
                PROVE  /\ ~same
                       /\ \E n \in DOMAIN calls :
                             /\ calls[n].url = "primary"
                             /\ calls[n].item = calls'[k].item
                             /\ Unanswered(calls[n])
    BY <1>1, <1>3 DEF ServicesAsked, Unanswered
  <2>1. CASE k \in DOMAIN calls
    BY <1>3, <2>1 DEF IInv, ServicesAsked
  <2>2. CASE k = Len(calls')
    <3>1. pc = "fallback" /\ calls'[k].item = file
      BY <1>1, <1>3, <1>4, <2>2
    <3>2. /\ ~same /\ Len(calls) \in DOMAIN calls
          /\ calls[Len(calls)].url = "primary" /\ calls[Len(calls)].item = file
          /\ Unanswered(calls[Len(calls)])
      BY <1>2, <3>1 DEF IInv, CurrentCall, Last
    <3>3. QED
      BY <3>1, <3>2
  <2>3. QED
    BY <1>3, <2>1, <2>2
<1>8. OwnAnswers'
  BY <1>3, <1>4, RimIsAnswer DEF IInv, OwnAnswers
<1>9. Progress'
  BY <1>1 DEF IInv, Progress
<1>10. RimsAreTheirOwn' /\ ErrorMeansAllTried'
  BY <1>1, <1>9 DEF IInv, RimsAreTheirOwn, ErrorMeansAllTried, Progress
<1>11. QED
  BY <1>3, <1>5, <1>6, <1>7, <1>8, <1>9, <1>10 DEF IInv

(* What is said of the calls made survives a settled last call. *)
LEMMA SettledParts ==
    ASSUME IInv, calls # <<>>, TakeAnswer \/ CallFails, UNCHANGED same
    PROVE  /\ calls' \in Seq(CallRecord(Files, RimRecord)) /\ OneAnswer'
           /\ calls' # <<>> /\ Last'.item = Last.item /\ Last'.url = Last.url
           /\ TakeAnswer => /\ Last'.caller = "answered"
                            /\ Last'.queue \in RimRecord
           /\ CallFails => Unanswered(Last')
           /\ DOMAIN calls' = DOMAIN calls
           /\ ServicesAsked' /\ OwnAnswers'
<1>1. calls \in Seq(CallRecord(Files, RimRecord)) /\ OneAnswer
  BY DEF IInv, TypeOK
<1>2. /\ calls' \in Seq(CallRecord(Files, RimRecord)) /\ OneAnswer'
      /\ SameQuestions
      /\ \A n \in DOMAIN calls : calls'[n].queue = calls[n].queue
      /\ \A n \in DOMAIN calls \ {Len(calls)} : calls'[n] = calls[n]
      /\ TakeAnswer => Last'.caller = "answered" /\ Last'.queue \in RimRecord
      /\ CallFails => Unanswered(Last')
  BY <1>1, SettleStep
<1>3. DOMAIN calls' = DOMAIN calls
  BY <1>1, <1>2 DEF SameQuestions
<1>4. calls' # <<>> /\ Last'.item = Last.item /\ Last'.url = Last.url
  BY <1>1, <1>2 DEF SameQuestions, Last
<1>5. Last.caller = "waiting"
  BY DEF TakeAnswer, CallFails
<1>6. \A n \in DOMAIN calls : Unanswered(calls[n]) => calls'[n] = calls[n]
  BY <1>2, <1>5 DEF Unanswered, Last
<1>7. ServicesAsked'
  <2>. SUFFICES ASSUME NEW k \in DOMAIN calls, calls'[k].url = "nvidia"
                PROVE  /\ ~same
                       /\ \E n \in DOMAIN calls :
                             /\ calls'[n].url = "primary"
                             /\ calls'[n].item = calls'[k].item
                             /\ Unanswered(calls'[n])
    BY <1>3 DEF ServicesAsked, Unanswered
  <2>1. PICK n \in DOMAIN calls :
            /\ calls[n].url = "primary" /\ calls[n].item = calls[k].item
            /\ Unanswered(calls[n])
    BY <1>2 DEF SameQuestions, IInv, ServicesAsked
  <2>2. ~same
    BY <1>2 DEF SameQuestions, IInv, ServicesAsked
  <2>3. QED
    BY <1>2, <1>6, <2>1, <2>2 DEF SameQuestions
<1>8. OwnAnswers'
  BY <1>2, <1>3 DEF SameQuestions, IInv, OwnAnswers
<1>9. QED
  BY <1>2, <1>3, <1>4, <1>7, <1>8

(* The answer of the last call is taken. *)
LEMMA AnsweredStep == ASSUME IInv, Answered PROVE IInv'
<1>1. /\ pc = "wait" /\ pc' = "have" /\ UNCHANGED <<same, file, rims, result>>
      /\ calls # <<>> /\ file \in Files /\ Last.item = file /\ https' = https
  BY DEF Answered, IInv, CurrentCall, TakeAnswer
<1>2. /\ calls' \in Seq(CallRecord(Files, RimRecord)) /\ OneAnswer'
      /\ calls' # <<>> /\ Last'.item = Last.item
      /\ Last'.caller = "answered" /\ Last'.queue \in RimRecord
      /\ ServicesAsked' /\ OwnAnswers'
  BY <1>1, SettledParts DEF Answered
<1>3. TypeOK'
  BY <1>1, <1>2 DEF IInv, TypeOK
<1>4. CurrentCall'
  BY <1>1, <1>2 DEF CurrentCall
<1>5. Progress' /\ RimsAreTheirOwn' /\ ErrorMeansAllTried'
  BY <1>1 DEF IInv, Progress, RimsAreTheirOwn, ErrorMeansAllTried
<1>6. QED
  BY <1>2, <1>3, <1>4, <1>5 DEF IInv

(* The services whose calls for this file have failed. *)
Failures ==
    {calls[k].url : k \in {n \in DOMAIN calls :
                              /\ calls[n].item = file
                              /\ calls[n].caller \in {"failed", "timedOut"}}}

(* A failed call leads to NVIDIA's service, or ends the fetch when both    *)
(* have failed for this file.                                              *)
LEMMA NotAnsweredStep == ASSUME IInv, NotAnswered PROVE IInv'
<1>1. /\ pc = "wait" /\ UNCHANGED <<same, file, rims>> /\ https' = https
      /\ calls # <<>> /\ file \in Files /\ Last.item = file
      /\ result = "none"
  BY DEF NotAnswered, IInv, CurrentCall, CallFails, Progress
<1>2. /\ calls' \in Seq(CallRecord(Files, RimRecord)) /\ OneAnswer'
      /\ calls' # <<>> /\ Last'.item = Last.item /\ Last'.url = Last.url
      /\ Unanswered(Last') /\ ServicesAsked' /\ OwnAnswers'
  BY <1>1, SettledParts DEF NotAnswered
<1>3. \/ Last.url = "primary" /\ ~same /\ pc' = "fallback" /\ result' = "none"
      \/ /\ Last.url = "primary" => same
         /\ pc' = "done" /\ result' = "RIMFetchError"
  BY <1>1 DEF NotAnswered
<1>4. TypeOK'
  BY <1>1, <1>2, <1>3 DEF IInv, TypeOK
<1>5. CurrentCall'
  BY <1>1, <1>2, <1>3 DEF CurrentCall
<1>6. Progress'
  BY <1>1, <1>3 DEF IInv, Progress
<1>7. RimsAreTheirOwn'
  BY <1>1, <1>3 DEF IInv, RimsAreTheirOwn
<1>8. ErrorMeansAllTried'
  <2>. SUFFICES ASSUME pc' = "done"
                PROVE  Failures' = IF same THEN {"primary"} ELSE Services
    BY <1>1, <1>3 DEF ErrorMeansAllTried, Failures
  <2>. DEFINE l == Len(calls')
  <2>1. /\ l \in DOMAIN calls' /\ calls'[l].item = file
        /\ calls'[l].caller \in {"failed", "timedOut"}
        /\ calls'[l].url = Last.url
    BY <1>1, <1>2 DEF Last, Unanswered
  <2>2. Last.url \in Failures'
    BY <1>1, <2>1 DEF Failures
  <2>3. \A k \in DOMAIN calls' : calls'[k].url \in Services
    BY <1>2, EachCall
  <2>4. CASE same
    <3>1. \A k \in DOMAIN calls' : calls'[k].url = "primary"
      BY <1>1, <1>2, <2>3, <2>4 DEF ServicesAsked, Services
    <3>2. Failures' \subseteq {"primary"}
      BY <3>1 DEF Failures
    <3>3. QED
      BY <2>1, <2>2, <2>4, <3>1, <3>2
  <2>5. CASE ~same
    <3>1. Last.url = "nvidia"
      BY <1>3, <2>1, <2>3, <2>5 DEF Services
    <3>2. PICK n \in DOMAIN calls' :
              /\ calls'[n].url = "primary" /\ calls'[n].item = file
              /\ calls'[n].caller \in {"failed", "timedOut"}
      BY <1>2, <2>1, <3>1 DEF ServicesAsked, Unanswered
    <3>3. "primary" \in Failures'
      BY <1>1, <3>2 DEF Failures
    <3>4. Failures' \subseteq Services
      BY <2>3 DEF Failures
    <3>5. QED
      BY <2>2, <2>5, <3>1, <3>3, <3>4 DEF Services
  <2>6. QED
    BY <2>4, <2>5
<1>9. QED
  BY <1>2, <1>4, <1>5, <1>6, <1>7, <1>8 DEF IInv

(* The RIM just fetched is the one of the file wanted. *)
LEMMA UseRimStep == ASSUME IInv, UseRim PROVE IInv'
<1>1. /\ pc = "have" /\ file \in Files /\ Last.item = file /\ calls # <<>>
      /\ Last.queue \in RimRecord /\ rims' = Append(rims, Last.queue)
      /\ UNCHANGED <<https, calls, same>>
      /\ result = "none" /\ Len(rims) = file
  BY DEF UseRim, timedVars, IInv, CurrentCall, Progress
<1>2. \/ pc' = "idle" /\ file' = file + 1 /\ result' = "none"
      \/ pc' = "done" /\ file' = file /\ result' = "rejected"
  BY <1>1 DEF UseRim
<1>3. rims \in Seq(RimRecord)
  BY DEF IInv, TypeOK
<1>4. rims' \in Seq(RimRecord) /\ Len(rims') = file + 1
  BY <1>1, <1>3
<1>5. Last.queue.file = file
  BY <1>1 DEF IInv, TypeOK, OwnAnswers, Last
<1>6. TypeOK'
  BY <1>1, <1>2, <1>4 DEF IInv, TypeOK, Files
<1>7. CurrentCall'
  BY <1>2 DEF CurrentCall
<1>8. OneAnswer' /\ ServicesAsked' /\ OwnAnswers'
  BY <1>1 DEF IInv, OneAnswer, ServicesAsked, OwnAnswers
<1>9. Progress'
  BY <1>1, <1>2, <1>4 DEF Progress, Files
<1>10. RimsAreTheirOwn'
  <2>1. \A k \in 1 .. Len(rims) : rims'[k] = rims[k] /\ rims[k].file = k - 1
    BY <1>1, <1>3 DEF IInv, RimsAreTheirOwn
  <2>2. rims'[Len(rims) + 1] = Last.queue
    BY <1>1, <1>3
  <2>3. QED
    BY <1>1, <1>2, <1>3, <1>4, <1>5, <2>1, <2>2 DEF RimsAreTheirOwn, Files
<1>11. ErrorMeansAllTried'
  BY <1>2 DEF ErrorMeansAllTried
<1>12. QED
  BY <1>6, <1>7, <1>8, <1>9, <1>10, <1>11 DEF IInv

(* The fetch is complete with both files. *)
LEMMA CompleteStep == ASSUME IInv, Complete PROVE IInv'
<1>1. /\ pc = "idle" /\ file \notin Files /\ pc' = "done"
      /\ result' = "complete" /\ result = "none"
      /\ UNCHANGED <<https, calls, same, file, rims>>
  BY DEF Complete, timedVars, IInv, Progress
<1>2. file = 2
  BY <1>1 DEF IInv, TypeOK, Files
<1>3. TypeOK' /\ CurrentCall' /\ OneAnswer' /\ ServicesAsked' /\ OwnAnswers'
  BY <1>1 DEF IInv, TypeOK, CurrentCall, OneAnswer, ServicesAsked, OwnAnswers
<1>4. Progress' /\ RimsAreTheirOwn' /\ ErrorMeansAllTried'
  BY <1>1, <1>2 DEF IInv, Progress, RimsAreTheirOwn, ErrorMeansAllTried
<1>5. QED
  BY <1>3, <1>4 DEF IInv

(* A worker, abandoned or not, answers its own call only. *)
LEMMA WorkerStep == ASSUME IInv, NEW k \in 1 .. 4, Worker(k) PROVE IInv'
<1>. DEFINE given == {[kind |-> "rim", file |-> calls[k].item]}
<1>1. /\ k \in DOMAIN calls /\ Fetch(k, given) /\ https' = https
      /\ UNCHANGED <<same, pc, file, rims, result>>
      /\ calls \in Seq(CallRecord(Files, RimRecord)) /\ OneAnswer
  BY DEF Worker, mainVars, Fetch, IInv, TypeOK
<1>2. given \in SUBSET RimRecord
  <2>1. calls[k].item \in Files
    BY <1>1, EachCall
  <2>2. QED
    BY <2>1, RimIsAnswer
<1>3. /\ calls' \in Seq(CallRecord(Files, RimRecord)) /\ OneAnswer'
      /\ SameQuestions
      /\ \A n \in DOMAIN calls : calls'[n].caller = calls[n].caller
      /\ \A n \in DOMAIN calls :
            \/ calls'[n].queue = calls[n].queue
            \/ /\ n = k /\ calls[n].queue = Empty
               /\ calls'[n].queue \in given \cup {Gone}
  BY <1>1, <1>2, FetchStep
<1>4. DOMAIN calls' = DOMAIN calls
  BY <1>1, <1>3 DEF SameQuestions
<1>5. TypeOK'
  BY <1>1, <1>3 DEF IInv, TypeOK
<1>6. calls # <<>> => /\ calls' # <<>> /\ Last'.item = Last.item
                      /\ Last'.url = Last.url /\ Last'.caller = Last.caller
                      /\ Last.queue \in RimRecord => Last'.queue = Last.queue
  BY <1>1, <1>3, RimIsAnswer DEF SameQuestions, Last
<1>7. CurrentCall'
  BY <1>1, <1>6 DEF IInv, CurrentCall, Unanswered
<1>8. ServicesAsked'
  BY <1>1, <1>3, <1>4 DEF IInv, SameQuestions, ServicesAsked, Unanswered
<1>9. OwnAnswers'
  BY <1>3, <1>4, RimIsAnswer DEF IInv, SameQuestions, OwnAnswers
<1>10. Progress' /\ RimsAreTheirOwn'
  BY <1>1 DEF IInv, Progress, RimsAreTheirOwn
<1>11. Failures' = Failures
  BY <1>1, <1>3, <1>4 DEF SameQuestions, Failures
<1>12. ErrorMeansAllTried'
  BY <1>1, <1>11 DEF IInv, ErrorMeansAllTried, Failures
<1>13. QED
  BY <1>3, <1>5, <1>7, <1>8, <1>9, <1>10, <1>12 DEF IInv

(* The invariant is inductive. *)
THEOREM Inductive == Spec => []IInv
<1>1. IInv /\ [Next]_vars => IInv'
  <2>1. ASSUME IInv, Next PROVE IInv'
    BY <2>1, AskStep, AnsweredStep, NotAnsweredStep, UseRimStep, CompleteStep,
       WorkerStep DEF Next, Main
  <2>2. ASSUME IInv, UNCHANGED vars PROVE IInv'
    <3>. USE <2>2 DEF vars, IInv
    <3>1. TypeOK' /\ Progress'
      BY DEF TypeOK, Progress
    <3>2. OneAnswer' /\ CurrentCall'
      BY DEF OneAnswer, CurrentCall, Last, Unanswered
    <3>3. ServicesAsked' /\ OwnAnswers'
      BY DEF ServicesAsked, OwnAnswers, Last
    <3>4. RimsAreTheirOwn' /\ ErrorMeansAllTried'
      BY DEF RimsAreTheirOwn, ErrorMeansAllTried
    <3>5. QED
      BY <3>1, <3>2, <3>3, <3>4
  <2>3. QED
    BY <2>1, <2>2
<1>2. QED
  BY <1>1, InitIInv, PTL DEF Spec

(* Every variable keeps its type, for any number of retries. *)
THEOREM TypeCorrect == Spec => []TypeOK
BY Inductive, PTL DEF IInv

(* No RIM is taken for another: an answer that comes after its call was    *)
(* given up is never used for the next file.                               *)
THEOREM OwnRims == Spec => []RimsAreTheirOwn
BY Inductive, PTL DEF IInv

(* A RIMFetchError comes only after every service there is has failed for  *)
(* the file.                                                               *)
THEOREM AllTried == Spec => []ErrorMeansAllTried
BY Inductive, PTL DEF IInv

(* Every step of the timed calls is a step of the plain sequence or none. *)
LEMMA FetchingStep ==
    ASSUME IInv, [Next]_vars PROVE [Fetching!Next]_(Fetching!vars)
<1>. USE DEF Fetching!vars, Fetching!Kept
<1>1. CASE AskConfigured
  <2>1. Last'.url = "primary"
    <3>1. calls \in Seq(CallRecord(Files, RimRecord)) /\ OneAnswer
      BY DEF IInv, TypeOK
    <3>2. Call(file, "primary") /\ file \in Files /\ "primary" \in Services
      BY <1>1 DEF AskConfigured, Services
    <3>3. Last' = NewCall(file, "primary")
      BY <3>1, <3>2, CallStep
    <3>4. QED
      BY <3>3 DEF NewCall
  <2>2. Fetching!Ask
    BY <1>1, <2>1 DEF AskConfigured, FetchState, Fetching!Ask, Files
  <2>3. QED
    BY <1>1, <2>2 DEF AskConfigured, Fetching!Next
<1>2. CASE AskNvidia
  <2>1. Last'.url = "nvidia"
    <3>1. calls \in Seq(CallRecord(Files, RimRecord)) /\ OneAnswer
      BY DEF IInv, TypeOK
    <3>2. Call(file, "nvidia") /\ file \in Files /\ "nvidia" \in Services
      BY <1>2 DEF AskNvidia, Services, IInv, CurrentCall
    <3>3. Last' = NewCall(file, "nvidia")
      BY <3>1, <3>2, CallStep
    <3>4. QED
      BY <3>3 DEF NewCall
  <2>2. QED
    BY <1>2, <2>1 DEF AskNvidia, FetchState
<1>3. CASE Answered
  <2>1. Last.url \in Services
    BY <1>3, EachCall DEF Answered, IInv, TypeOK, CurrentCall, Last
  <2>2. Fetching!Give
    BY <1>3, <2>1 DEF Answered, FetchState, Fetching!Give, Services
  <2>3. QED
    BY <1>3, <2>2 DEF Answered, Fetching!Next
<1>4. CASE NotAnswered
  <2>1. Last.url \in Services
    BY <1>4, EachCall DEF NotAnswered, IInv, TypeOK, CurrentCall, Last
  <2>2. Fetching!FallBack \/ Fetching!Fail
    BY <1>4, <2>1 DEF NotAnswered, FetchState, Fetching!FallBack, Fetching!Fail,
         Services
  <2>3. QED
    BY <1>4, <2>2 DEF NotAnswered, Fetching!Next
<1>5. CASE UseRim
  <2>1. Fetching!Use
    BY <1>5 DEF UseRim, FetchState, Fetching!Use, IInv, Progress
  <2>2. QED
    BY <1>5, <2>1 DEF UseRim, Fetching!Next
<1>6. CASE Complete
  <2>1. Fetching!End
    BY <1>6 DEF Complete, FetchState, Fetching!End, IInv, TypeOK, Files
  <2>2. QED
    BY <1>6, <2>1 DEF Complete, Fetching!Next
<1>7. ASSUME NEW k \in 1 .. 4, Worker(k)
      PROVE  UNCHANGED Fetching!vars
  <2>1. UNCHANGED <<same, pc, file, result>>
    BY <1>7 DEF Worker, mainVars
  <2>2. pc = "wait" => Last'.url = Last.url
    <3>1. /\ calls \in Seq(CallRecord(Files, RimRecord)) /\ OneAnswer
          /\ k \in DOMAIN calls
          /\ Fetch(k, {[kind |-> "rim", file |-> calls[k].item]})
      BY <1>7 DEF Worker, IInv, TypeOK
    <3>2. {[kind |-> "rim", file |-> calls[k].item]} \in SUBSET RimRecord
      BY <3>1, EachCall, RimIsAnswer
    <3>3. SameQuestions
      BY <3>1, <3>2, FetchStep
    <3>4. QED
      BY <3>1, <3>3 DEF SameQuestions, Last
  <2>3. QED
    BY <2>1, <2>2 DEF FetchState
<1>8. CASE UNCHANGED vars
  BY <1>8 DEF vars, FetchState, Last
<1>9. QED
  BY <1>1, <1>2, <1>3, <1>4, <1>5, <1>6, <1>7, <1>8 DEF Next, Main

(* The fetch with its threads and timeouts implements OrderedFetch. *)
THEOREM Implements == Spec => ImplementsFetch
<1>1. Init => Fetching!Init
  BY DEF Init, Fetching!Init, FetchState
<1>2. QED
  BY <1>1, FetchingStep, Inductive, PTL DEF Spec, Fetching!Spec, ImplementsFetch
=============================================================================
