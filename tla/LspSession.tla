----------------------------- MODULE LspSession -----------------------------
(***************************************************************************)
(* luabox-lsp: the life of one language-server session (server.rs).        *)
(*                                                                         *)
(* The server is one thread over one ordered transport.  Before its loop   *)
(* it runs two long jobs, the rock harvest and the workspace index, and a  *)
(* configuration reload runs a third from inside the loop.  Each job asks  *)
(* the client for a progress token and waits for the answer in a "create   *)
(* window"; whatever else the client says meanwhile is drained onto the    *)
(* pending queue, which the loop and the shutdown handshake read before    *)
(* the transport.                                                          *)
(*                                                                         *)
(* The transport is an immutable log: sent holds everything the client has *)
(* said, next is the first message the server has not taken off the wire,  *)
(* and a queued message is its position in the log.                        *)
(***************************************************************************)
EXTENDS Naturals, Sequences, FiniteSets

CONSTANT MaxSent   \* bound on the messages the client sends

ASSUME SessionAssumption == MaxSent \in Nat

VARIABLES sent,      \* the client's messages, in order
          next,      \* the first one still on the wire
          connected, \* whether the client still holds its end
          asked,     \* server requests the client has not answered
          pending,   \* Server::pending
          done,      \* the last message the loop or the handshake took up
          mode,      \* where the server is
          job,       \* the job a window or a token is for
          token,     \* the token in hand, 0 for none
          seq,       \* Server::progress_seq, the creates sent so far
          verdict,   \* what the client answered to each create
          progress,  \* what was reported under each token
          createUnanswered, \* Server::create_unanswered
          shuttingDown,     \* Server::shutting_down
          replied,   \* requests that were answered
          outcome    \* how run returned

wire  == <<sent, next, connected>>
flags == <<createUnanswered, shuttingDown>>
work  == <<job, token, seq, progress>>
vars  == <<wire, asked, pending, done, mode, work, verdict, flags, replied, outcome>>

\* A session makes at most two creates before the loop and one per reload.
Tokens   == 1..(MaxSent + 2)
Watchers == 0   \* the id of client/registerCapability, asked beside tokens

\* "query" stands for any request, and "reload" for the notifications that
\* run reload_config; the others are named after their method.
Said    == {"query", "reload", "shutdown", "exit"}
Answers == {"accept", "refuse"}
Message == [kind: Said, of: {0}] \cup [kind: Answers, of: Tokens \cup {Watchers}]

IsRequest(m)  == m.kind \in {"query", "shutdown"}
IsResponse(m) == m.kind \in Answers

\* server.rs ends_the_session
EndsTheSession(m) == m.kind \in {"shutdown", "exit"}

Init ==
    /\ sent = <<>>
    /\ next = 1
    /\ connected = TRUE
    /\ asked = {}
    /\ pending = <<>>
    /\ done = 0
    /\ mode = "announce"
    /\ job = "harvest"
    /\ token = 0
    /\ seq = 0
    /\ verdict = [t \in Tokens |-> "none"]
    /\ progress = [t \in Tokens |-> "none"]
    /\ createUnanswered = FALSE
    /\ shuttingDown = FALSE
    /\ replied = {}
    /\ outcome = "running"

------------------------------------------------------------------------------
(* The client, as its protocol and the tests drive it.                     *)

HasSaid(k) == \E i \in 1..Len(sent) : sent[i].kind = k

CanSend == connected /\ Len(sent) < MaxSent /\ ~HasSaid("exit")

Say(m) ==
    /\ sent' = Append(sent, m)
    /\ UNCHANGED <<next, connected, pending, done, mode, work, flags, replied, outcome>>

\* A request or a notification.  Nothing stops a client from speaking between
\* its shutdown and its exit.
ClientSays(k) ==
    /\ CanSend
    /\ Say([kind |-> k, of |-> 0])
    /\ UNCHANGED <<asked, verdict>>

\* The answer to one of the server's own requests, prompt or late: an answer
\* may cross the client's own shutdown.
ClientAnswers(a, t) ==
    /\ CanSend
    /\ t \in asked
    /\ asked' = asked \ {t}
    /\ verdict' = IF t = Watchers THEN verdict ELSE [verdict EXCEPT ![t] = a]
    /\ Say([kind |-> a, of |-> t])

\* The client's end of the transport closes.
ClientVanishes ==
    /\ connected
    /\ connected' = FALSE
    /\ UNCHANGED <<sent, next, asked, pending, done, mode, work, verdict, flags,
                   replied, outcome>>

------------------------------------------------------------------------------
(* Announcing a job: create_progress_token and await_progress_create.      *)

\* server.rs session_is_ending: the sticky flag, or a session-ender queued.
SessionIsEnding ==
    \/ shuttingDown
    \/ \E i \in 1..Len(pending) : EndsTheSession(sent[pending[i]])

\* No token is asked for: the session is ending, or an earlier create went
\* unanswered.  The job runs unannounced.
AnnounceSilently ==
    /\ mode = "announce"
    /\ SessionIsEnding \/ createUnanswered
    /\ mode' = "work"
    /\ token' = 0
    /\ shuttingDown' = SessionIsEnding
    /\ UNCHANGED <<wire, asked, pending, done, job, seq, progress, verdict,
                   createUnanswered, replied, outcome>>

\* Send window/workDoneProgress/create under a fresh token and id.
CreateToken ==
    /\ seq' = seq + 1
    /\ asked' = asked \cup {seq + 1}
    /\ mode' = "window"
    /\ UNCHANGED <<wire, pending, done, job, token, progress, verdict, flags,
                   replied, outcome>>

OpenWindow ==
    /\ mode = "announce"
    /\ ~SessionIsEnding
    /\ ~createUnanswered
    /\ CreateToken

\* The create cannot be sent to a client that has gone: no token, no wait.
CreateFails ==
    /\ mode = "announce"
    /\ ~SessionIsEnding /\ ~createUnanswered
    /\ ~connected
    /\ seq' = seq + 1
    /\ mode' = "work"
    /\ token' = 0
    /\ UNCHANGED <<wire, asked, pending, done, job, progress, verdict, flags,
                   replied, outcome>>

OnWire == next <= Len(sent)
Arrived == sent[next]

\* The window closes over the job, reporting under t unless t is 0.
StartWork(t) ==
    /\ mode' = "work"
    /\ token' = t
    /\ progress' = IF t = 0 THEN progress ELSE [progress EXCEPT ![t] = "begun"]
    /\ UNCHANGED <<job, seq>>

\* Mutant: any answer is taken for an acceptance (the round-8 defect).
WindowAnsweredUnread ==
    /\ mode = "window" /\ OnWire
    /\ IsResponse(Arrived) /\ Arrived.of = seq
    /\ next' = next + 1
    /\ StartWork(seq)
    /\ UNCHANGED <<sent, connected, asked, pending, done, verdict, flags, replied, outcome>>

\* The answer to this create: report under an accepted token only.
WindowAnswered ==
    /\ mode = "window" /\ OnWire
    /\ IsResponse(Arrived) /\ Arrived.of = seq
    /\ next' = next + 1
    /\ StartWork(IF Arrived.kind = "accept" THEN seq ELSE 0)
    /\ UNCHANGED <<sent, connected, asked, pending, done, verdict, flags, replied, outcome>>

\* Any other response is discarded.
WindowDiscards ==
    /\ mode = "window" /\ OnWire
    /\ IsResponse(Arrived) /\ Arrived.of # seq
    /\ next' = next + 1
    /\ UNCHANGED <<sent, connected, asked, pending, done, mode, work, verdict, flags,
                   replied, outcome>>

\* Anything else is queued; a session-ender also abandons the window, with no
\* token to report under.
WindowQueues ==
    /\ mode = "window" /\ OnWire
    /\ ~IsResponse(Arrived)
    /\ pending' = Append(pending, next)
    /\ next' = next + 1
    /\ IF EndsTheSession(Arrived)
       THEN shuttingDown' = TRUE /\ StartWork(0)
       ELSE UNCHANGED <<shuttingDown, mode, work>>
    /\ UNCHANGED <<sent, connected, asked, done, verdict, createUnanswered, replied, outcome>>

\* Mutant: the wait starts over each time it runs out.
WindowNeverTimesOut == mode = "window" /\ UNCHANGED vars

\* 250 ms passed with no answer, or the transport closed: report regardless,
\* and never ask again this session.
WindowTimesOut ==
    /\ mode = "window"
    /\ createUnanswered' = TRUE
    /\ StartWork(seq)
    /\ UNCHANGED <<wire, asked, pending, done, verdict, shuttingDown, replied, outcome>>

\* Mutant: a reload leaves its token open.
JobEndsUnbalanced ==
    /\ mode = "work"
    /\ token' = 0
    /\ progress' = IF token = 0 \/ job = "reload" THEN progress
                   ELSE [progress EXCEPT ![token] = "ended"]
    /\ mode' = IF job = "harvest" THEN "register" ELSE "loop"
    /\ UNCHANGED <<wire, asked, pending, done, job, seq, verdict, flags, replied, outcome>>

\* The job itself, then end_progress: Server::new goes on to the watcher
\* registration, bootstrap and reload_config to the loop.
JobEnds ==
    /\ mode = "work"
    /\ token' = 0
    /\ progress' = IF token = 0 THEN progress ELSE [progress EXCEPT ![token] = "ended"]
    /\ mode' = IF job = "harvest" THEN "register" ELSE "loop"
    /\ UNCHANGED <<wire, asked, pending, done, job, seq, verdict, flags, replied, outcome>>

\* reload_config republishes the open documents once its job is over: a
\* client that has gone makes that fatal.
ReloadPublishFails ==
    /\ mode = "work" /\ job = "reload"
    /\ ~connected
    /\ token' = 0
    /\ progress' = IF token = 0 THEN progress ELSE [progress EXCEPT ![token] = "ended"]
    /\ mode' = "stopped" /\ outcome' = "no transport"
    /\ UNCHANGED <<wire, asked, pending, done, job, seq, verdict, flags, replied>>

\* run: register_file_watchers if the client can, its answer awaited nowhere;
\* then bootstrap.
RegisterWatchers ==
    /\ mode = "register"
    /\ asked' \in {asked, asked \cup {Watchers}}
    /\ mode' = "announce"
    /\ job' = "bootstrap"
    /\ UNCHANGED <<wire, pending, done, token, seq, progress, verdict, flags, replied, outcome>>

------------------------------------------------------------------------------
(* main_loop and shutdown_handshake.                                       *)

\* Mutant: the wire is read while the queue still holds messages.
TakeWireFirst(i) ==
    \/ /\ OnWire /\ i = next
       /\ next' = next + 1
       /\ UNCHANGED pending
    \/ /\ ~OnWire /\ pending # <<>> /\ i = Head(pending)
       /\ pending' = Tail(pending)
       /\ UNCHANGED next

\* The next message is i: the queue in arrival order, then the wire.
Take(i) ==
    \/ /\ pending # <<>> /\ i = Head(pending)
       /\ pending' = Tail(pending)
       /\ UNCHANGED next
    \/ /\ pending = <<>> /\ OnWire /\ i = next
       /\ next' = next + 1
       /\ UNCHANGED pending

Stop(how) == mode' = "stopped" /\ outcome' = how

LoopDropsResponse(i) ==
    /\ mode = "loop"
    /\ Take(i) /\ IsResponse(sent[i])
    /\ UNCHANGED <<sent, connected, asked, done, mode, work, verdict, flags, replied, outcome>>

LoopAnswersQuery(i) ==
    /\ mode = "loop"
    /\ Take(i) /\ sent[i].kind = "query"
    /\ done' = i
    /\ replied' = replied \cup {i}
    /\ UNCHANGED <<sent, connected, asked, mode, work, verdict, flags, outcome>>

LoopReloads(i) ==
    /\ mode = "loop"
    /\ Take(i) /\ sent[i].kind = "reload"
    /\ done' = i
    /\ mode' = "announce"
    /\ job' = "reload"
    /\ UNCHANGED <<sent, connected, asked, token, seq, progress, verdict, flags,
                   replied, outcome>>

\* The shutdown is answered before its exit is waited for.
LoopShutsDown(i) ==
    /\ mode = "loop"
    /\ Take(i) /\ sent[i].kind = "shutdown"
    /\ done' = i
    /\ shuttingDown' = TRUE
    /\ replied' = replied \cup {i}
    /\ mode' = "handshake"
    /\ UNCHANGED <<sent, connected, asked, work, verdict, createUnanswered, outcome>>

\* Mutant: an exit out of order is ignored like an unknown notification.
LoopIgnoresExit(i) ==
    /\ mode = "loop"
    /\ Take(i) /\ sent[i].kind = "exit"
    /\ done' = i
    /\ UNCHANGED <<sent, connected, asked, mode, work, verdict, flags, replied, outcome>>

\* An exit that no shutdown preceded ends the session with an error.
LoopExitsUnannounced(i) ==
    /\ mode = "loop"
    /\ Take(i) /\ sent[i].kind = "exit"
    /\ done' = i
    /\ Stop("exit first")
    /\ UNCHANGED <<sent, connected, asked, work, verdict, flags, replied>>

\* The wire is closed and empty.
LoopDisconnects ==
    /\ mode = "loop"
    /\ pending = <<>> /\ ~OnWire /\ ~connected
    /\ Stop("hung up")
    /\ UNCHANGED <<wire, asked, pending, done, work, verdict, flags, replied>>

HandshakeExits(i) ==
    /\ mode = "handshake"
    /\ Take(i) /\ sent[i].kind = "exit"
    /\ done' = i
    /\ Stop("clean")
    /\ UNCHANGED <<sent, connected, asked, work, verdict, flags, replied>>

\* Mutant: a second shutdown is a protocol error (as Connection had it).
HandshakeRefusesRepeat(i) ==
    /\ mode = "handshake"
    /\ Take(i) /\ sent[i].kind = "shutdown"
    /\ done' = i
    /\ Stop("unexpected")
    /\ UNCHANGED <<sent, connected, asked, work, verdict, flags, replied>>

\* A second shutdown is answered like the first.
HandshakeRepeats(i) ==
    /\ mode = "handshake"
    /\ Take(i) /\ sent[i].kind = "shutdown"
    /\ done' = i
    /\ replied' = replied \cup {i}
    /\ UNCHANGED <<sent, connected, asked, mode, work, verdict, flags, outcome>>

\* Anything else, a response included, is a protocol error.
HandshakeFails(i) ==
    /\ mode = "handshake"
    /\ Take(i) /\ ~EndsTheSession(sent[i])
    /\ done' = i
    /\ Stop("unexpected")
    /\ UNCHANGED <<sent, connected, asked, work, verdict, flags, replied>>

\* A reply to a client that has gone is fatal.
ReplyFails(i) ==
    /\ mode \in {"loop", "handshake"}
    /\ ~connected
    /\ Take(i) /\ IsRequest(sent[i])
    /\ done' = i
    /\ shuttingDown' = (shuttingDown \/ sent[i].kind = "shutdown")
    /\ Stop("no transport")
    /\ UNCHANGED <<sent, connected, asked, work, verdict, createUnanswered, replied>>

\* 30 s with nothing on the wire, or a closed transport.
HandshakeTimesOut ==
    /\ mode = "handshake"
    /\ pending = <<>> /\ ~OnWire
    /\ Stop("no exit")
    /\ UNCHANGED <<wire, asked, pending, done, work, verdict, flags, replied>>

------------------------------------------------------------------------------
Client ==
    \/ \E k \in Said : ClientSays(k)
    \/ \E a \in Answers, t \in asked : ClientAnswers(a, t)
    \/ ClientVanishes

Jobs ==
    \/ AnnounceSilently
    \/ OpenWindow
    \/ CreateFails
    \/ WindowAnswered
    \/ WindowDiscards
    \/ WindowQueues
    \/ WindowTimesOut
    \/ JobEnds
    \/ ReloadPublishFails
    \/ RegisterWatchers

Handle(i) ==
    \/ LoopDropsResponse(i)
    \/ LoopAnswersQuery(i)
    \/ LoopReloads(i)
    \/ LoopShutsDown(i)
    \/ LoopExitsUnannounced(i)
    \/ HandshakeExits(i)
    \/ HandshakeRepeats(i)
    \/ HandshakeFails(i)
    \/ ReplyFails(i)

Server ==
    \/ Jobs
    \/ \E i \in 1..Len(sent) : Handle(i)
    \/ LoopDisconnects
    \/ HandshakeTimesOut

\* The session is over: nothing is left for the server to do.
Over == mode = "stopped" /\ UNCHANGED vars

Next == Client \/ Server \/ Over

Spec == Init /\ [][Next]_vars

\* The server thread runs whenever it can: it is never starved by the client,
\* and both of its waits are bounded by a timeout.
FairSpec == Spec /\ WF_vars(Server)

------------------------------------------------------------------------------
\* Every variable holds a value of its type.
TypeOK ==
    /\ sent \in Seq(Message)
    /\ next \in 1..(Len(sent) + 1)
    /\ connected \in BOOLEAN
    /\ asked \subseteq Tokens \cup {Watchers}
    /\ pending \in Seq(1..Len(sent))
    /\ done \in 0..Len(sent)
    /\ mode \in {"announce", "window", "work", "register", "loop", "handshake", "stopped"}
    /\ job \in {"harvest", "bootstrap", "reload"}
    /\ token \in Tokens \cup {0}
    /\ seq \in Tokens \cup {0}
    /\ verdict \in [Tokens -> Answers \cup {"none"}]
    /\ progress \in [Tokens -> {"none", "begun", "ended"}]
    /\ createUnanswered \in BOOLEAN
    /\ shuttingDown \in BOOLEAN
    /\ replied \subseteq 1..Len(sent)
    /\ outcome \in {"running", "clean", "exit first", "hung up", "unexpected",
                    "no exit", "no transport"}

\* Draining loses and reorders nothing, across any number of windows: what was
\* taken off the wire and is no response was either taken up already or waits
\* on the queue, in the order it arrived and behind everything taken up
\* (await_progress_create, "Those cannot be dropped, so they go on a queue
\* the loop drains first").
InArrivalOrder ==
    /\ done < next
    /\ \A k \in 1..(next - 1) :
         ~IsResponse(sent[k]) /\ done < k
            => \E j \in 1..Len(pending) : pending[j] = k
    /\ \A j \in 1..Len(pending) :
         done < pending[j] /\ pending[j] < next /\ ~IsResponse(sent[pending[j]])
    /\ \A j, l \in 1..Len(pending) : j < l => pending[j] < pending[l]

\* Progress is reported only under a token the client has accepted, with one
\* exception a session can make once: the create it waited out, after which no
\* other is ever sent (create_progress_token, create_unanswered).
ReportsUnderAcceptedTokens ==
    \A t \in Tokens :
        progress[t] # "none" /\ verdict[t] # "accept" => createUnanswered /\ t = seq

\* Whenever the server listens again, every token it began is ended.
NoTokenLeftOpen ==
    mode \in {"loop", "handshake", "stopped"} => \A t \in Tokens : progress[t] # "begun"

\* A leaving client sees no further create: none is sent once a shutdown or an
\* exit has been taken off the wire (shutting_down; the round-9 defect).
NoCreateOnceLeaving ==
    [][seq' # seq => \A k \in 1..(next - 1) : ~EndsTheSession(sent[k])]_vars

\* A session ends as the client said it should, in the order the client said
\* it, whatever window its words landed in and however they were queued: clean
\* on an exit behind a shutdown, every request before it answered; an error on
\* the first exit if no shutdown came before it, or for want of an exit, when
\* none had arrived; hung up on only when neither had; and a protocol error
\* only for something said behind a shutdown that is no session-ender itself
\* (run, main_loop, shutdown_handshake; tests/shutdown_windows.rs).
EndsAsTheClientSaid ==
    LET Earlier == 1..(done - 1) IN
    /\ outcome = "clean" =>
         /\ sent[done].kind = "exit"
         /\ \E k \in Earlier : sent[k].kind = "shutdown"
         /\ \A k \in Earlier : IsRequest(sent[k]) => k \in replied
    /\ outcome = "exit first" =>
         /\ sent[done].kind = "exit"
         /\ \A k \in Earlier : ~EndsTheSession(sent[k])
    /\ outcome = "no exit" => \A k \in 1..(next - 1) : sent[k].kind # "exit"
    /\ outcome = "hung up" =>
         \A k \in 1..(next - 1) :
             /\ ~EndsTheSession(sent[k])
             /\ IsRequest(sent[k]) => k \in replied
    /\ outcome = "unexpected" =>
         /\ ~EndsTheSession(sent[done])
         /\ \E k \in Earlier : sent[k].kind = "shutdown"

\* A shutdown that abandons a create window is a clean one, even when the
\* client's answer to that create was already on its way (CHANGELOG.md:1119,
\* "A `shutdown` sent while a progress token is being created no longer exits
\* 1").  While no create has timed out, a create the client still owes an
\* answer after its shutdown is one such a shutdown abandoned.
LeavesAWindowCleanly ==
    outcome = "unexpected" /\ ~createUnanswered =>
        ~(IsResponse(sent[done]) /\ sent[done].of \in Tokens)

\* No request is left hanging, not even by a client that answers no create:
\* each is replied to unless the session ends first (handle_request).
EveryRequestSettled ==
    \A i \in 1..MaxSent :
        (i <= Len(sent) /\ IsRequest(sent[i])) ~> (i \in replied \/ mode = "stopped")

\* An exit ends the session, wherever it lands and whatever preceded it.
ExitEndsTheSession == HasSaid("exit") ~> mode = "stopped"
=============================================================================
