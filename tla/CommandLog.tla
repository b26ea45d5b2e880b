----------------------------- MODULE CommandLog -----------------------------
(***************************************************************************)
(* What the command path of one match promises, without locks, retries or  *)
(* transactions: the accepted requests form one log, each request takes    *)
(* effect at most once, at the version it asked for, and what a client was *)
(* told stays true.  CommandProcessor implements it.                       *)
(***************************************************************************)
EXTENDS Naturals, Sequences

CONSTANT Requests   \* records with fields id, command and expected

VARIABLES
  log,       \* the requests applied so far; entry v produced version v
  accepted,  \* pairs <<request, version>> somebody was told
  rejected   \* requests somebody was told have no effect

logVars == <<log, accepted, rejected>>

LogInit == log = <<>> /\ accepted = {} /\ rejected = {}

(* A request is applied to the version it expects, under a fresh action ID,*)
(* and never after its rejection was reported.                             *)
Apply(request) ==
  /\ request.expected = Len(log)
  /\ \A v \in 1 .. Len(log) : log[v].id # request.id
  /\ request \notin rejected
  /\ log' = Append(log, request)
  /\ UNCHANGED <<accepted, rejected>>

(* Success is reported with the version the request produced.              *)
ReportAccepted(request, v) ==
  /\ v \in 1 .. Len(log) /\ log[v] = request
  /\ accepted' = accepted \union {<<request, v>>}
  /\ UNCHANGED <<log, rejected>>

(* Rejection is reported only of a request that has not taken effect.      *)
ReportRejected(request) ==
  /\ \A v \in 1 .. Len(log) : log[v] # request
  /\ rejected' = rejected \union {request}
  /\ UNCHANGED <<log, accepted>>

LogNext ==
  \E request \in Requests :
    \/ Apply(request)
    \/ \E v \in 1 .. Len(log) : ReportAccepted(request, v)
    \/ ReportRejected(request)

LogSpec == LogInit /\ [][LogNext]_logVars

=============================================================================
