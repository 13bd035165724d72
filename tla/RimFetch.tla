------------------------------ MODULE RimFetch ------------------------------
(***************************************************************************)
(* The RIM files of one GPU, fetched with fetch_rim_file: first that of    *)
(* the driver, then that of the VBIOS, each from the configured RIM        *)
(* service and then, if that is another one, from NVIDIA's.  Every attempt *)
(* is a timed call, whose worker may finish long after it was given up.    *)
(***************************************************************************)
EXTENDS TimedCalls

VARIABLES
    same,       \* the configured RIM service is NVIDIA's
    pc,         \* where the main thread is
    file,       \* the file wanted: 0 for the driver's RIM, 1 for the VBIOS's
    rims,       \* the files fetched so far, in order
    result      \* how it ended

mainVars == <<same, pc, file, rims, result>>
vars == <<https, calls, same, pc, file, rims, result>>

Files == 0 .. 1

(* The service answers with the file it was asked for. *)
RimRecord == [kind : {"rim"}, file : Files]

Init ==
    /\ InitCalls
    /\ same \in BOOLEAN /\ (same => https = Services)
    /\ pc = "idle" /\ file = 0 /\ rims = <<>> /\ result = "none"

(* Mutant of AskConfigured: one file too many. *)
AskConfiguredPastEnd ==
    /\ pc = "idle" /\ file \in 0 .. 2
    /\ Call(file, "primary")
    /\ pc' = "wait"
    /\ UNCHANGED <<same, file, rims, result>>

AskConfigured ==
    /\ pc = "idle" /\ file \in Files
    /\ Call(file, "primary")
    /\ pc' = "wait"
    /\ UNCHANGED <<same, file, rims, result>>

Answered ==
    /\ pc = "wait" /\ TakeAnswer
    /\ pc' = "have"
    /\ UNCHANGED <<same, file, rims, result>>

(* Mutant of NotAnswered: only a call that timed out falls back. *)
NotAnsweredInTime ==
    /\ pc = "wait" /\ CallFails
    /\ IF Last.url = "primary" /\ ~same /\ Last.queue = Empty
         THEN pc' = "fallback" /\ result' = result
         ELSE pc' = "done" /\ result' = "RIMFetchError"
    /\ UNCHANGED <<same, file, rims>>

(* Mutant of NotAnswered: the same service is asked twice. *)
NotAnsweredAgain ==
    /\ pc = "wait" /\ CallFails
    /\ IF Last.url = "primary"
         THEN pc' = "fallback" /\ result' = result
         ELSE pc' = "done" /\ result' = "RIMFetchError"
    /\ UNCHANGED <<same, file, rims>>

(* On to NVIDIA's service if there is another one, or a RIMFetchError.     *)
NotAnswered ==
    /\ pc = "wait" /\ CallFails
    /\ IF Last.url = "primary" /\ ~same
         THEN pc' = "fallback" /\ result' = result
         ELSE pc' = "done" /\ result' = "RIMFetchError"
    /\ UNCHANGED <<same, file, rims>>

AskNvidia ==
    /\ pc = "fallback"
    /\ Call(file, "nvidia")
    /\ pc' = "wait"
    /\ UNCHANGED <<same, file, rims, result>>

(* cc_admin verifies the file, and goes on with the next one or gives up.  *)
UseRim ==
    /\ pc = "have"
    /\ rims' = Append(rims, Last.queue)
    /\ \/ pc' = "idle" /\ file' = file + 1 /\ result' = result
       \/ pc' = "done" /\ file' = file /\ result' = "rejected"
    /\ UNCHANGED <<timedVars, same>>

Complete ==
    /\ pc = "idle" /\ file \notin Files
    /\ pc' = "done" /\ result' = "complete"
    /\ UNCHANGED <<timedVars, same, file, rims>>

(* Mutant of Worker: all calls share one queue. *)
WorkerOfSharedQueue(k) ==
    /\ k \in DOMAIN calls /\ calls[k].worker = "trying"
    /\ calls' = [calls EXCEPT ![k].worker = "done",
                              ![Len(calls)].queue = [kind |-> "rim",
                                                     file |-> calls[k].item]]
    /\ https' = https
    /\ UNCHANGED mainVars

(* The worker of call k, abandoned or not. *)
Worker(k) ==
    /\ k \in DOMAIN calls
    /\ Fetch(k, {[kind |-> "rim", file |-> calls[k].item]})
    /\ UNCHANGED mainVars

Main ==
    AskConfigured \/ Answered \/ NotAnswered \/ AskNvidia \/ UseRim \/ Complete

Next == Main \/ \E k \in 1 .. 4 : Worker(k)

(* urlopen may block for ever; the main thread has its timeouts. *)
Spec == Init /\ [][Next]_vars /\ WF_vars(Main)
-----------------------------------------------------------------------------
(* Every variable keeps the kind of value the code gives it. *)
TypeOK ==
    /\ https \subseteq Services /\ same \in BOOLEAN
    /\ calls \in Seq(CallRecord(Files, RimRecord))
    /\ pc \in {"idle", "wait", "have", "fallback", "done"}
    /\ file \in 0 .. 2
    /\ rims \in Seq(RimRecord)
    /\ result \in {"none", "complete", "rejected", "RIMFetchError"}

(* The golden measurements come from the file that was asked for: one that *)
(* arrives after its call was given up is never taken for the next one, so *)
(* a VBIOS is never compared with a driver's RIM (cc_admin.py:549-553,     *)
(* 617-621).                                                               *)
RimsAreTheirOwn ==
    /\ \A k \in 1 .. Len(rims) : rims[k].file = k - 1
    /\ result = "complete" => Len(rims) = 2

(* A RIMFetchError is raised only when every service there is has been     *)
(* asked for this file and has failed or run out of time.                  *)
ErrorMeansAllTried ==
    result = "RIMFetchError" =>
        {calls[k].url : k \in {n \in DOMAIN calls :
                                  /\ calls[n].item = file
                                  /\ calls[n].caller \in {"failed", "timedOut"}}}
            = IF same THEN {"primary"} ELSE Services

(* The fetch comes to an end even when no server ever answers. *)
FetchEnds == <>(result # "none")

(* What OrderedFetch sees of the main thread. *)
FetchState ==
    CASE pc = "wait"     -> Last.url
      [] pc = "fallback" -> "nvidia"
      [] pc = "done"     -> (CASE result = "RIMFetchError" -> "failed"
                               [] result = "rejected" -> "unusable"
                               [] OTHER -> result)
      [] OTHER           -> pc

Fetching ==
    INSTANCE OrderedFetch
        WITH last <- 1, fallback <- ~same, item <- file, state <- FetchState

(* The timed calls implement the plain sequence of fetches: no step of an  *)
(* abandoned worker is visible to the verifier.                            *)
ImplementsFetch == Fetching!Spec
-----------------------------------------------------------------------------
(* The inductive invariant behind the theorems of RimFetchProofs. *)

(* The main thread goes on with the last call it made, and that is for the *)
(* file it wants; NVIDIA's service is asked when the other one has failed. *)
CurrentCall ==
    pc \in {"wait", "have", "fallback"} =>
        /\ file \in Files /\ calls # <<>> /\ Last.item = file
        /\ pc = "wait" => Last.caller = "waiting"
        /\ pc = "have" => Last.caller = "answered" /\ Last.queue \in RimRecord
        /\ pc = "fallback" => Last.url = "primary" /\ Unanswered(Last) /\ ~same

(* The service a call goes to, and the failure a call of NVIDIA's follows. *)
ServicesAsked ==
    \A k \in DOMAIN calls :
        calls[k].url = "nvidia" =>
            /\ ~same
            /\ \E n \in DOMAIN calls :
                   /\ calls[n].url = "primary" /\ calls[n].item = calls[k].item
                   /\ Unanswered(calls[n])

(* A queue belongs to one call, so its answer is the file of that call. *)
OwnAnswers ==
    \A k \in DOMAIN calls :
        calls[k].queue \in RimRecord => calls[k].queue.file = calls[k].item

Progress ==
    /\ (result = "none") = (pc # "done")
    /\ Len(rims) = IF result = "rejected" THEN file + 1 ELSE file
    /\ result = "complete" => file = 2
    /\ result \in {"rejected", "RIMFetchError"} => file \in Files

IInv ==
    /\ TypeOK /\ OneAnswer /\ CurrentCall /\ ServicesAsked /\ OwnAnswers
    /\ Progress /\ RimsAreTheirOwn /\ ErrorMeansAllTried
=============================================================================
