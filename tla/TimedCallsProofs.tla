-------------------------- MODULE TimedCallsProofs --------------------------
(***************************************************************************)
(* What the steps of a timed call leave of the calls: the lemmas that      *)
(* RimFetchProofs and RevocationCheckProofs share.                         *)
(***************************************************************************)
EXTENDS TimedCalls, TLAPS

(* The parts of a call that nothing changes once it is made. *)
SameQuestions ==
    /\ Len(calls') = Len(calls)
    /\ \A k \in DOMAIN calls : /\ calls'[k].item = calls[k].item
                               /\ calls'[k].url = calls[k].url

(* The empty queue and the None of a failed fetch are not the same. *)
LEMMA EmptyIsNotGone == Empty # Gone
<1>1. Empty.kind # Gone.kind
  BY DEF Empty, Gone
<1>2. QED
  BY <1>1

(* What each call of a sequence of calls is. *)
LEMMA EachCall ==
    ASSUME NEW items, NEW answers, NEW s \in Seq(CallRecord(items, answers)),
           NEW k \in DOMAIN s
    PROVE  /\ s[k].item \in items /\ s[k].url \in Services
           /\ s[k].queue \in {Empty, Gone} \cup answers
<1>1. s[k] \in CallRecord(items, answers)
  OBVIOUS
<1>2. QED
  BY <1>1 DEF CallRecord

(* A call is made: a new one at the end, for that item and that service.   *)
LEMMA CallStep ==
    ASSUME NEW items, NEW answers, NEW item \in items, NEW url \in Services,
           calls \in Seq(CallRecord(items, answers)), OneAnswer, Call(item, url)
    PROVE  /\ calls' \in Seq(CallRecord(items, answers)) /\ OneAnswer'
           /\ Len(calls') = Len(calls) + 1
           /\ \A k \in DOMAIN calls : k \in DOMAIN calls' /\ calls'[k] = calls[k]
           /\ DOMAIN calls' = DOMAIN calls \cup {Len(calls')}
           /\ calls' # <<>> /\ Last' = NewCall(item, url)
           /\ calls'[Len(calls')] = NewCall(item, url)
<1>. DEFINE C == CallRecord(items, answers)
            new == NewCall(item, url)
<1>1. new \in C
  BY RetriesAssumption DEF NewCall, CallRecord
<1>2. calls' = Append(calls, new)
  BY DEF Call
<1>3. calls' \in Seq(C) /\ Len(calls') = Len(calls) + 1
  BY <1>1, <1>2
<1>4. \A k \in DOMAIN calls : k \in DOMAIN calls' /\ calls'[k] = calls[k]
  BY <1>1, <1>2
<1>5. calls'[Len(calls')] = new
  BY <1>1, <1>2
<1>6. DOMAIN calls' = DOMAIN calls \cup {Len(calls')}
  BY <1>3
<1>7. OneAnswer'
  <2>. SUFFICES ASSUME NEW k \in DOMAIN calls', calls'[k].worker = "trying"
                PROVE  calls'[k].queue = Empty
    BY DEF OneAnswer
  <2>1. CASE k \in DOMAIN calls
    BY <1>4, <2>1 DEF OneAnswer
  <2>2. CASE k = Len(calls')
    BY <1>5, <2>2 DEF NewCall
  <2>3. QED
    BY <1>6, <2>1, <2>2
<1>8. QED
  BY <1>3, <1>4, <1>5, <1>6, <1>7 DEF Last

(* A round of a worker: only its own call is touched, and only while it    *)
(* has put nothing into the queue; the caller notices nothing else.        *)
LEMMA FetchStep ==
    ASSUME NEW items, NEW answers, NEW given \in SUBSET answers,
           calls \in Seq(CallRecord(items, answers)), OneAnswer,
           NEW k \in DOMAIN calls, Fetch(k, given)
    PROVE  /\ calls' \in Seq(CallRecord(items, answers)) /\ OneAnswer'
           /\ SameQuestions
           /\ \A n \in DOMAIN calls : calls'[n].caller = calls[n].caller
           /\ \A n \in DOMAIN calls :
                 \/ calls'[n].queue = calls[n].queue
                 \/ /\ n = k /\ calls[n].queue = Empty
                    /\ calls'[n].queue \in given \cup {Gone}
<1>. DEFINE C == CallRecord(items, answers)
<1>1. calls[k] \in C /\ calls[k].worker = "trying" /\ calls[k].queue = Empty
  BY DEF Fetch, OneAnswer
<1>2. PICK c \in C : /\ calls' = [calls EXCEPT ![k] = c]
                     /\ c.item = calls[k].item /\ c.url = calls[k].url
                     /\ c.caller = calls[k].caller
                     /\ \/ c.worker = "trying" /\ c.queue = Empty
                        \/ c.worker = "done" /\ c.queue \in given \cup {Gone}
  <2>1. CASE \E a \in given : calls' = [calls EXCEPT ![k] = Finished(@, a)]
    <3>1. PICK a \in given : calls' = [calls EXCEPT ![k] = Finished(calls[k], a)]
      BY <2>1
    <3>2. Finished(calls[k], a) \in C
      BY <1>1 DEF Finished, CallRecord
    <3>3. QED
      BY <1>1, <3>1, <3>2 DEF Finished, CallRecord
  <2>2. CASE calls[k].left > 0 /\ calls' = [calls EXCEPT ![k].left = @ - 1]
    <3>. DEFINE c == [calls[k] EXCEPT !.left = @ - 1]
    <3>0. calls[k].left \in 0 .. Retries /\ calls[k].left - 1 \in 0 .. Retries
      BY <1>1, <2>2, RetriesAssumption DEF CallRecord
    <3>1. c \in C
      BY <1>1, <3>0 DEF CallRecord
    <3>2. calls' = [calls EXCEPT ![k] = c]
      BY <2>2
    <3>3. QED
      BY <1>1, <3>1, <3>2 DEF CallRecord
  <2>3. CASE calls' = [calls EXCEPT ![k] = Finished(@, Gone)]
    <3>1. calls' = [calls EXCEPT ![k] = Finished(calls[k], Gone)]
      BY <2>3
    <3>2. Finished(calls[k], Gone) \in C
      BY <1>1 DEF Finished, CallRecord
    <3>3. QED
      BY <1>1, <3>1, <3>2 DEF Finished, CallRecord
  <2>4. QED
    BY <2>1, <2>2, <2>3 DEF Fetch
<1>3. calls' \in Seq(C) /\ Len(calls') = Len(calls)
  BY <1>2
<1>4. calls'[k] = c /\ \A n \in DOMAIN calls \ {k} : calls'[n] = calls[n]
  BY <1>2
<1>5. OneAnswer'
  BY <1>2, <1>3, <1>4 DEF OneAnswer
<1>6. QED
  BY <1>1, <1>2, <1>3, <1>4, <1>5 DEF SameQuestions

(* The caller settles its last call and touches nothing else. *)
LEMMA SettleStep ==
    ASSUME NEW items, NEW answers, calls \in Seq(CallRecord(items, answers)),
           calls # <<>>, OneAnswer, TakeAnswer \/ CallFails
    PROVE  /\ calls' \in Seq(CallRecord(items, answers)) /\ OneAnswer'
           /\ SameQuestions
           /\ \A n \in DOMAIN calls : calls'[n].queue = calls[n].queue
           /\ \A n \in DOMAIN calls \ {Len(calls)} : calls'[n] = calls[n]
           /\ TakeAnswer => /\ Last'.caller = "answered"
                            /\ Last'.queue \in answers
           /\ CallFails => Unanswered(Last')
<1>. DEFINE C == CallRecord(items, answers)
            l == Len(calls)
<1>1. l \in DOMAIN calls /\ calls[l] \in C
  OBVIOUS
<1>2. PICK how \in {"answered", "failed", "timedOut"} :
          /\ calls' = [calls EXCEPT ![l].caller = how]
          /\ TakeAnswer => how = "answered"
          /\ CallFails => how # "answered"
  BY EmptyIsNotGone DEF TakeAnswer, CallFails
<1>. DEFINE c == [calls[l] EXCEPT !.caller = how]
<1>3. calls' = [calls EXCEPT ![l] = c]
  BY <1>2
<1>4. /\ c \in C /\ c.item = calls[l].item /\ c.url = calls[l].url
      /\ c.queue = calls[l].queue /\ c.worker = calls[l].worker
      /\ c.caller = how
  BY <1>1, <1>2 DEF CallRecord
<1>5. calls' \in Seq(C) /\ Len(calls') = l
  BY <1>1, <1>3, <1>4
<1>6. calls'[l] = c /\ \A n \in DOMAIN calls \ {l} : calls'[n] = calls[n]
  BY <1>1, <1>3
<1>7. OneAnswer'
  <2>. SUFFICES ASSUME NEW k \in DOMAIN calls', calls'[k].worker = "trying"
                PROVE  calls'[k].queue = Empty
    BY DEF OneAnswer
  <2>1. k \in DOMAIN calls
    BY <1>5
  <2>2. calls'[k].worker = calls[k].worker /\ calls'[k].queue = calls[k].queue
    BY <1>4, <1>6, <2>1
  <2>3. QED
    BY <2>1, <2>2 DEF OneAnswer
<1>8. TakeAnswer => calls[l].queue \in answers
  BY <1>1 DEF TakeAnswer, Last, CallRecord
<1>9. QED
  BY <1>1, <1>2, <1>4, <1>5, <1>6, <1>7, <1>8 DEF SameQuestions, Last, Unanswered
=============================================================================
