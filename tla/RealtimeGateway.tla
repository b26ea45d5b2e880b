--------------------------- MODULE RealtimeGateway ----------------------------
(***************************************************************************)
(* The connection between one page and the servers, for one match:         *)
(* playable-beta/realtime-client.ts over Socket.IO, and the handlers of    *)
(* realtime/socketio.ts.  What commits and publishes a transition is       *)
(* CommandProcessor and Outbox, what the page makes of it is MatchClient,  *)
(* and the bots a join or a synchronisation wakes are BotRunner.           *)
(*                                                                         *)
(* Socket.IO keeps what is emitted while there is no connection and sends  *)
(* it with the next one, reconnects by itself after a connection is lost,  *)
(* but not after the middleware refused it, and forgets the answers that   *)
(* were still expected on a lost connection without telling who waits.     *)
(***************************************************************************)
EXTENDS Naturals

CONSTANTS
  MaxTransitions,  \* bound: transitions of the match
  MaxFaults        \* bound: lost connections, refusals and failed reads

ASSUME GatewayAssumption == MaxTransitions \in Nat /\ MaxFaults \in Nat

(* The page joins, the reconnection joins again, the page synchronises.    *)
Requests == {"JOIN", "REJOIN", "SYNC"}
Versions == 1 .. MaxTransitions

VARIABLES
  socket,          \* the page's end of the connection
  joined,          \* the match is in joinedMatchIds
  buffered,        \* a REJOIN waits for a connection
  run,             \* what the synchronisation run of the page awaits
  heard,           \* transitions the page has received
  snapshotVersion, \* version of the last snapshot the page was given
  request,         \* requests on this connection: "NONE", "SENT" or "ANSWERED"
  answer,          \* the version the answer to SYNC carries
  participant,     \* the user has a seat in the match
  subscribed,      \* the server's end of the connection is in the group of the match
  events,          \* transitions on their way on this connection
  stored,          \* version of the match in the database
  published,
  faults,
  steady           \* history: "YES" once a run joined and synchronised on this connection

page      == <<joined, buffered, run, heard, snapshotVersion>>
server    == <<request, answer, subscribed, events>>
matchVars == <<stored, published>>
connectionVars == <<socket, page, server, participant, matchVars, faults, steady>>

NoRequests == [r \in Requests |-> "NONE"]

ConnectionInit ==
  /\ socket = "NONE" /\ joined = FALSE /\ buffered = FALSE /\ run = "IDLE"
  /\ heard = {} /\ snapshotVersion = 0
  /\ request = NoRequests /\ answer = 0
  /\ participant \in BOOLEAN
  /\ subscribed = FALSE /\ events = {}
  /\ stored = 0 /\ published = {}
  /\ faults = 0 /\ steady = "NO"

Fault == faults < MaxFaults /\ faults' = faults + 1

Sent(requests) == [r \in Requests |-> IF r \in requests THEN "SENT" ELSE request[r]]

Joining == IF steady = "NO" THEN "JOINING" ELSE steady

-----------------------------------------------------------------------------
(* Connecting.                                                             *)

(* A run begins, for whatever reason of MatchClient, and asks for a        *)
(* connection (ensureConnected).                                           *)
StartRun ==
  /\ run = "IDLE"
  /\ \/ /\ socket = "CONNECTED"
        /\ run' = "JOIN" /\ request' = Sent({"JOIN"}) /\ steady' = Joining
        /\ UNCHANGED socket
     \/ /\ socket # "CONNECTED"
        /\ run' = "OPEN"
        /\ socket' = IF socket = "REOPENING" THEN socket ELSE "OPENING"
        /\ UNCHANGED <<request, steady>>
  /\ UNCHANGED <<joined, buffered, heard, snapshotVersion, answer, subscribed, events, participant,
                 matchVars, faults>>

Opening == socket \in {"OPENING", "REOPENING"}

(* Faulty Rejoins: the matches are not joined again. *)
NeverRejoins == FALSE

(* 'reconnect' is for connections Socket.IO restores by itself.            *)
Rejoins == buffered \/ (socket = "REOPENING" /\ joined)

(* The handshake carried a live session: what was buffered is sent, and    *)
(* whoever waited for the connection goes on.                              *)
Opened ==
  /\ Opening
  /\ socket' = "CONNECTED" /\ buffered' = FALSE
  /\ request' = Sent((IF Rejoins THEN {"REJOIN"} ELSE {})
                       \union (IF run = "OPEN" THEN {"JOIN"} ELSE {}))
  /\ run' = IF run = "OPEN" THEN "JOIN" ELSE run
  /\ steady' = IF run = "OPEN" THEN Joining ELSE steady
  /\ UNCHANGED <<joined, heard, snapshotVersion, answer, subscribed, events, participant, matchVars,
                 faults>>

(* Faulty RunFails: nobody listens for connect_error. *)
RunGoesOn == run' = run

RunFails == run' = IF run = "OPEN" THEN "IDLE" ELSE run

(* No server answers: the run fails, Socket.IO keeps trying.               *)
OpenFails ==
  /\ Opening /\ Fault
  /\ socket' = "REOPENING"
  /\ RunFails
  /\ UNCHANGED <<joined, buffered, heard, snapshotVersion, server, participant, matchVars, steady>>

(* The session could not be read: any error of the middleware refuses the  *)
(* connection, and Socket.IO does not try again.                           *)
Refused ==
  /\ Opening /\ Fault
  /\ socket' = "REFUSED"
  /\ buffered' = Rejoins
  /\ RunFails
  /\ UNCHANGED <<joined, heard, snapshotVersion, server, participant, matchVars, steady>>

(* Everything on its way is lost, and the group forgets the connection.    *)
LoseConnection ==
  /\ socket' = "REOPENING"
  /\ request' = NoRequests /\ subscribed' = FALSE /\ events' = {}
  /\ steady' = "NO"
  /\ UNCHANGED <<joined, buffered, run, heard, snapshotVersion, answer, participant, matchVars>>

Drop == socket = "CONNECTED" /\ Fault /\ LoseConnection

(* The page is left, or another user is found signed in: a new page starts *)
(* with nothing.                                                           *)
Disconnect ==
  /\ socket # "NONE"
  /\ socket' = "NONE" /\ joined' = FALSE /\ buffered' = FALSE /\ run' = "IDLE"
  /\ heard' = {} /\ snapshotVersion' = 0
  /\ request' = NoRequests /\ subscribed' = FALSE /\ events' = {}
  /\ steady' = "NO"
  /\ UNCHANGED <<answer, participant, matchVars, faults>>

-----------------------------------------------------------------------------
(* Requests on the server.                                                 *)

Joins == {"JOIN", "REJOIN"}

HandleJoin(r) ==
  /\ request[r] = "SENT"
  /\ request' = [request EXCEPT ![r] = "ANSWERED"]
  /\ subscribed' = (subscribed \/ participant)
  /\ UNCHANGED <<socket, page, answer, events, participant, matchVars, faults, steady>>

(* Reading the match throws out of the handler, which nobody catches: the  *)
(* process ends, and every connection with it.                             *)
JoinFails(r) == request[r] = "SENT" /\ Fault /\ LoseConnection

HandleSync ==
  /\ request["SYNC"] = "SENT"
  /\ request' = [request EXCEPT !["SYNC"] = "ANSWERED"]
  /\ answer' = stored
  /\ UNCHANGED <<socket, page, subscribed, events, participant, matchVars, faults, steady>>

(* Here the error is caught, but without a match there is no answer.       *)
SyncUnanswered ==
  /\ request["SYNC"] = "SENT" /\ Fault
  /\ request' = [request EXCEPT !["SYNC"] = "NONE"]
  /\ UNCHANGED <<socket, page, answer, subscribed, events, participant, matchVars, steady>>

Commit ==
  /\ stored < MaxTransitions
  /\ stored' = stored + 1
  /\ UNCHANGED <<socket, page, server, participant, published, faults, steady>>

Publish(version) ==
  /\ version <= stored /\ version \notin published
  /\ published' = published \union {version}
  /\ events' = IF subscribed THEN events \union {version} ELSE events
  /\ UNCHANGED <<socket, page, request, answer, subscribed, participant, stored, faults,
                 steady>>

-----------------------------------------------------------------------------
(* Answers and events at the page.                                         *)

(* Faulty Joined: it does not wait for the answer. *)
JoinedUnheard ==
  /\ run = "JOIN"
  /\ joined' = TRUE /\ run' = "SYNC"
  /\ request' = Sent({"SYNC"})
  /\ UNCHANGED <<socket, buffered, heard, snapshotVersion, answer, subscribed, events, participant,
                 matchVars, faults, steady>>

(* joinMatch goes on to sync, or throws and ends the run.                  *)
Joined ==
  /\ run = "JOIN" /\ request["JOIN"] = "ANSWERED"
  /\ joined' = (joined \/ participant)
  /\ \/ /\ participant
        /\ run' = "SYNC"
        /\ request' = [Sent({"SYNC"}) EXCEPT !["JOIN"] = "NONE"]
     \/ /\ ~ participant
        /\ run' = "IDLE"
        /\ request' = [request EXCEPT !["JOIN"] = "NONE"]
  /\ UNCHANGED <<socket, buffered, heard, snapshotVersion, answer, subscribed, events, participant,
                 matchVars, faults, steady>>

(* The answer to a REJOIN is thrown away.                                  *)
Rejoined ==
  /\ request["REJOIN"] = "ANSWERED"
  /\ request' = [request EXCEPT !["REJOIN"] = "NONE"]
  /\ UNCHANGED <<socket, page, answer, subscribed, events, participant, matchVars, faults, steady>>

SnapshotArrives ==
  /\ run = "SYNC" /\ request["SYNC"] = "ANSWERED"
  /\ run' = "IDLE" /\ snapshotVersion' = answer
  /\ request' = [request EXCEPT !["SYNC"] = "NONE"]
  /\ steady' = IF steady = "JOINING" THEN "YES" ELSE steady
  /\ UNCHANGED <<socket, joined, buffered, heard, answer, subscribed, events, participant,
                 matchVars, faults>>

Hear(version) ==
  /\ version \in events
  /\ events' = events \ {version} /\ heard' = heard \union {version}
  /\ UNCHANGED <<socket, joined, buffered, run, snapshotVersion, request, answer, subscribed,
                 participant, matchVars, faults, steady>>

ConnectionNext ==
  \/ StartRun \/ Opened \/ OpenFails \/ Refused \/ Drop \/ Disconnect
  \/ \E r \in Joins : HandleJoin(r) \/ JoinFails(r)
  \/ HandleSync \/ SyncUnanswered
  \/ Joined \/ Rejoined \/ SnapshotArrives
  \/ Commit
  \/ \E version \in Versions : Publish(version) \/ Hear(version)

ConnectionSpec == ConnectionInit /\ [][ConnectionNext]_connectionVars

(* A server is reached in the end, and it answers what it can; faults are  *)
(* finite.  Nothing makes a page start a run.                              *)
FairConnectionSpec ==
  /\ ConnectionSpec
  /\ WF_connectionVars(Opened)
  /\ \A r \in Joins : WF_connectionVars(HandleJoin(r))
  /\ WF_connectionVars(HandleSync)
  /\ WF_connectionVars(Joined) /\ WF_connectionVars(Rejoined) /\ WF_connectionVars(SnapshotArrives)

-----------------------------------------------------------------------------
(* Properties. *)

(* Subscribing before asking leaves no gap: once a run has joined and      *)
(* synchronised on the connection that still stands, every transition that *)
(* was published is in the snapshot, was heard, or is on its way - those   *)
(* that were committed before the snapshot and published after it as well  *)
(* as those published between the join and the answer.                     *)
NothingMissed ==
  steady = "YES" => published \subseteq (1 .. snapshotVersion) \union heard \union events

(* A page that has joined the match and lost the connection hears the      *)
(* match again without being asked to, unless it was refused: then only    *)
(* its next request connects it.                                           *)
HearsAgain == (joined /\ ~ subscribed) ~> (subscribed \/ socket = "REFUSED" \/ ~ joined)

(* What the run awaits was lost with its connection or never answered: it  *)
(* waits for ever, and every later run of the page with it.                *)
Abandoned == run \in Requests /\ request[run] = "NONE"

(* Nothing else keeps a run waiting: not a connection that could not be    *)
(* opened or was refused, nor one that came back in the meantime.          *)
RunEnds == run # "IDLE" ~> (run = "IDLE" \/ Abandoned)

=============================================================================
