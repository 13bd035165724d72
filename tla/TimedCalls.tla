----------------------------- MODULE TimedCalls -----------------------------
(***************************************************************************)
(* function_wrapper_with_timeout around a fetch with retries: every call   *)
(* gets a worker thread and a queue of its own; the caller takes what the  *)
(* worker put into the queue, or gives up when its time is over.  Nobody   *)
(* stops the worker then.  How long a fetch takes is not modelled: the     *)
(* timeout may strike at any moment while the queue is empty.              *)
(***************************************************************************)
EXTENDS Integers, Sequences

CONSTANT Retries    \* OCSP_RETRY_COUNT, RIM_SERVICE_RETRY_COUNT

VARIABLES
    https,          \* the services whose URL starts with https
    calls           \* the calls made so far, in order

timedVars == <<https, calls>>

Services == {"primary", "nvidia"}

ASSUME RetriesAssumption == Retries \in Nat

(* The user may configure a service whose URL is not https. *)
InitCalls == https \in {Services, {"nvidia"}} /\ calls = <<>>

(* What is in the queue of a call: nothing yet, the None of a fetch that   *)
(* failed for good, or an answer.                                          *)
Empty == [kind |-> "empty"]
Gone  == [kind |-> "None"]

(* The caller waits, has taken the value, or has given up. *)
NewCall(item, url) ==
    [item |-> item, url |-> url, left |-> Retries, worker |-> "trying",
     queue |-> Empty, caller |-> "waiting"]

Last == calls[Len(calls)]

Call(item, url) ==
    /\ calls' = Append(calls, NewCall(item, url))
    /\ https' = https

Finished(call, value) == [call EXCEPT !.worker = "done", !.queue = value]

(* One round of fetch_..._from_url: answered, failed with retries left, or *)
(* failed for good.  A URL that is not https is given up at once.          *)
Fetch(k, answers) ==
    /\ calls[k].worker = "trying" /\ https' = https
    /\ \/ /\ calls[k].url \in https
          /\ \E a \in answers : calls' = [calls EXCEPT ![k] = Finished(@, a)]
       \/ /\ calls[k].url \in https /\ calls[k].left > 0
          /\ calls' = [calls EXCEPT ![k].left = @ - 1]
       \/ /\ calls[k].left = 0 \/ calls[k].url \notin https
          /\ calls' = [calls EXCEPT ![k] = Finished(@, Gone)]

(* q.get returns: an answer, or the None of a failed fetch. *)
TakeAnswer ==
    /\ Last.caller = "waiting" /\ Last.queue \notin {Empty, Gone}
    /\ https' = https
    /\ calls' = [calls EXCEPT ![Len(calls)].caller = "answered"]

(* Mutant of CallFails: a call without a timeout. *)
CallFailsOnNone ==
    /\ Last.caller = "waiting" /\ https' = https
    /\ Last.queue = Gone
    /\ calls' = [calls EXCEPT ![Len(calls)].caller = "failed"]

(* The two ways a call fails its caller alike: None, or TimeoutError. *)
CallFails ==
    /\ Last.caller = "waiting" /\ https' = https
    /\ \/ Last.queue = Gone
          /\ calls' = [calls EXCEPT ![Len(calls)].caller = "failed"]
       \/ Last.queue = Empty
          /\ calls' = [calls EXCEPT ![Len(calls)].caller = "timedOut"]
-----------------------------------------------------------------------------
(* The calls for these items whose answers are among these. *)
CallRecord(items, answers) ==
    [item : items, url : Services, left : 0 .. Retries,
     worker : {"trying", "done"}, queue : {Empty, Gone} \cup answers,
     caller : {"waiting", "answered", "failed", "timedOut"}]

(* A worker puts one value into its queue and ends: what the caller has    *)
(* taken from there is not replaced behind its back.                       *)
OneAnswer ==
    \A k \in DOMAIN calls : calls[k].worker = "trying" => calls[k].queue = Empty

(* The callers that went away without an answer. *)
Unanswered(call) == call.caller \in {"failed", "timedOut"}
=============================================================================
